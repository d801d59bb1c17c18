SPECIFICATION Spec
CONSTANTS
  Page = 2
  U32 = 16
  Inputs <- MCInputs
INVARIANTS
  ImageFaithful
  WellFormedMaps
  FailureUnmaps
  SectionsExecutable
