SPECIFICATION MCSpec
CONSTANTS
  Name = {f, g, h}
  MaxU16 = 3
  MaxNames = 2
  MaxCount = 2
  Bases = {0, 1, 3}
INVARIANTS
  HintHarmless
  HintTakesOrdinal
CHECK_DEADLOCK FALSE
