CONSTANTS
  Requests <- SomeRequests
  Characters = {1, 2}
  Strings = {2}
  MaxObjects = 3
  Bound = 64
  Page = 16
  Modulus = 1024
  PageSize = 8
  Header = 2
  Sizes = {0, 1, 3, 6, 7, 14}
  MaxSets = 3
  MaxAddress = 4
  MaxStores = 3
  NoCall = NoCall
  LineFeed = LineFeed
  Char = Char
  kMaxLineLen = 3
  MaxFile = 6
  Files = {a, b}
  NoName = NoName
  LastPage = 4
  EntryPoints = {0, 2}
  MaxLines = 3
  Ashmem = {b}
  StackPage = 4
  Capture = 8
  MaxExtra = 2
  BaseThreads = 1
  AroundIP = 2
  FirstPage = 1
  EndPage = 4
  NumThreads = 2
  MaxCores = 4
  Frequencies = {1, 2}
  MaxStack = 4
  StackStart = 1
  StackEnd = 4
  kRASearchWords = 1
  max_frames = 5
  max_frames_scanned = 2
  MaxInlined = 1
  CodeFiles = {a, b}
  ThreadIds = {1, 2}
  MaxThreads = 2
  MaxDumps = 2
SPECIFICATION PartSpec
INVARIANTS PartsTypeOK OwnWritesOnly EverythingIsThere BlocksAreApart RangesApart LookupsAreRight
PROPERTY CallsReturn
