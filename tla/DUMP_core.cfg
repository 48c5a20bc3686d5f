CONSTANTS
  None = None
  t1 = t1
  Threads = {t1, t2, t3}
  Initial = {t1, t2}
  Dumping = {t1}
  HandlerOf <- OwnHandlers
  Crashers = {}
  Budget = 2
  MaxFd = 2
  Mortal = TRUE
  Signalled = {t2}
SPECIFICATION FairSpec
INVARIANTS TypeOK CopiedWhileStopped ProcessRunsOn HeldWhileAwaited SuccessIsComplete
PROPERTIES DumpEnds
