SPECIFICATION Spec
CONSTANTS
  C = 4
  U32 = 32
  Images <- MCImages
INVARIANTS
  Relocated
  WalkStaysInside
