CONSTANTS
  None = None
  t1 = t1
  Threads = {t1, t2, t3}
  Initial = {t1, t2, t3}
  Dumpers <- OneDumper
  CrashThread <- AboutFirst
  Signalled = {}
SPECIFICATION Spec
INVARIANT ExitsAreHarmless
