SPECIFICATION Spec
CONSTANTS
  Stem = {"a", "b", "c", "kernel32", "msvcrt"}
  Worlds <- AllWorlds
  FirstCap = 4
  TlsSlots = 3
  StackLimit = 16
  GuestCalls = 2
  MaxFaults = 1
  MaxInsts = 20
INVARIANTS
  WellFormedRuns
  CrashesExplained
  DependenciesAttached
  ExeRunsOnlyBound
  TlsBeforeCode
  ExePathKept
PROPERTIES
  LoadsDepthFirst
  UsesTable
  Termination
