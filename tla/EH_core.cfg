CONSTANTS
  None = None
  Threads = {t1, t2}
  Handlers = {h1, h2}
  Signals = {segv}
  Aborts = {}
  Passive = {}
  Transient = {h1, h2}
  Owners = {t1, t2}
  Crashers = {t1, t2}
  Simulators = {}
  Meddlers = {}
SPECIFICATION FairSpec
INVARIANTS TypeOK DumpsOwnContext HandlerInUse OldHandlersAreForeign
PROPERTIES ImplementsChain CrashResolved
CHECK_DEADLOCK FALSE
