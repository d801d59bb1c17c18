SPECIFICATION MCSpec
CONSTANTS
  Name = {a, b}
  Handle = {0}
  FirstCap = 2
  MaxLibs = 5
  MaxHeld = 2
INVARIANTS
  HandlesDenote
  FirstAllocationSafe
PROPERTIES
  LookupStable
CHECK_DEADLOCK FALSE
