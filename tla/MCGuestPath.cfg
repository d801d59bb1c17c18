SPECIFICATION MCSpec
CONSTANTS
  Guest <- MCGuest
  Host <- MCHost
  Path <- MCPath
  Texts <- MCTexts
  Caps = {0, 1, 2, 3, 4, 5, 6, 7}
  PathCaps = {4, 260}
  Counts = {1, 2}
  Char = {97, 98}
  MinSize = 2
  MaxText = 5
INVARIANTS
  ReadsInside
  StaysInBuffer
  StaysInside
  HoldsText
  RoundTrips
