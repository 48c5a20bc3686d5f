CONSTANTS
  Page = 4
  Capture = 8
  MaxExtra = 2
  BaseThreads = 1
  AroundIP = 2
  Low = 1
  High = 4
  NumThreads = 2
SPECIFICATION Spec
INVARIANT StackPointerIsCopied
