SPECIFICATION Spec
CONSTANTS
  Fn = {"f", "g"}
  MaxFns = 3
  MaxTold = 2
  Arrays <- MCArrays
INVARIANTS
  RunsOncePerImporter
  InittermExact
PROPERTIES
  ExitEnds
CHECK_DEADLOCK FALSE
