CONSTANTS
  None = None
  Threads = {t1, t2}
  Handlers = {h1}
  Signals = {segv, abrt}
  Aborts = {abrt}
  Passive = {}
  Transient = {}
  Owners = {t1}
  Crashers = {t1, t2}
  Simulators = {}
  Meddlers = {}
SPECIFICATION FairSpec
PROPERTIES CrashNeverSwallowed
INVARIANTS NeverFaults
CHECK_DEADLOCK FALSE
