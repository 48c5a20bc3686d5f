CONSTANTS
  None = None
  Threads = {t1, t2}
  Handlers = {h1}
  Signals = {segv, abrt}
  Aborts = {abrt}
  Passive = {}
  Transient = {h1}
  Owners = {t1}
  Crashers = {t2}
  Simulators = {}
  Meddlers = {}
SPECIFICATION Spec
INVARIANT NeverFaults
CHECK_DEADLOCK FALSE
