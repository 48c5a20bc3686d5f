CONSTANTS
  None = None
  c1 = c1
  Clients = {c1, c2}
  Budget <- Asks
  Visits <- Comes
  Foreign = {}
  Starts = 2
  Capacity = 1
  GuidFails = TRUE
SPECIFICATION FairSpec
PROPERTY Answered
