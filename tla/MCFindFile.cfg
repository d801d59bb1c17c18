SPECIFICATION MCSpec
CONSTANTS
  Name = {1, 2, 3, 4}
  Dangling = {3}
  Folder = {4}
  MaxFd = 2
  W = 4
  MaxSize = 9
  MaxOthers = 1
  TempAt <- MCTempAt
  Amounts = {1, 3}
  MaxCalls = 5
INVARIANTS
  FailureExplained
  ScanExact
  
  PositionRestored
  SizeTold
CHECK_DEADLOCK FALSE
