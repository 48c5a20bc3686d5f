CONSTANTS
  None = None
  Threads = {t1, t2}
  HandlerOf <- OwnHandlers
  Crashers = {t2}
  Budget = 1
  MaxFd = 4
  Mortal = TRUE
SPECIFICATION FairSpec
INVARIANTS Handshake FdsReturned
PROPERTIES DumpEnds
