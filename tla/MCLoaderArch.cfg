SPECIFICATION Spec
CONSTANTS
  Stem = {"a", "b", "c", "kernel32", "msvcrt"}
  Worlds <- OtherArchWorlds
  FirstCap = 8
  TlsSlots = 64
  StackLimit = 16
  GuestCalls = 2
  MaxFaults = 0
  MaxInsts = 20
INVARIANTS
  BadArchReported
