CONSTANTS
  None = None
  Threads = {t1, t2}
  Handlers = {h1, h2}
  Signals = {segv}
  Aborts = {}
  Passive = {h2}
  Transient = {h1}
  Owners = {t1}
  Crashers = {t2}
  Simulators = {t1}
  Meddlers = {t2}
SPECIFICATION Spec
PROPERTY ImplementsChain
CHECK_DEADLOCK FALSE
