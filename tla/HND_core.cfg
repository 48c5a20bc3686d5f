CONSTANTS
  None = None
  Threads = {t1, t2, t3}
  WindowsThreads = {t1, t2}
  Owner = t1
  Crashers = {t1, t2, t3}
  Writers = {t1, t2}
  Handlers = {h1, h2}
  Consumers = {h1}
  Faulty = TRUE
  Calls = 1
  Forwards = {"none", "fails", "recovers"}
  QueueLimit = 2
  Small = Small
  Large = Large
  Meddlers = {t1, t2}
  Allocs = 3
  Callers = {t1, t2}
  MaxInstalls = 2
SPECIFICATION FairSpec
INVARIANTS TypeOK InstalledIsLive AnswersItsRequester WritesForTheLiving NoFreedStack
PROPERTIES ExceptionResolved ImplementsChain
CHECK_DEADLOCK FALSE
