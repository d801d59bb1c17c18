SPECIFICATION Spec
CONSTANTS
  PathCount = 2
  Asked <- MCAsked
  Looked <- MCLooked
  Imported <- MCImported
  FileNames <- MCFiles
  NativeNames <- MCNatives
  MaxLibs = 2
  MaxChanges = 1
  MaxFaults = 1
INVARIANTS
  HandlesStable
  MissExplained
  EarliestPath
  DescriptorsClosed
CHECK_DEADLOCK FALSE
