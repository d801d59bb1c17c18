SPECIFICATION MCSpec
CONSTANTS
  CharValues = 4
  PtrDigits = 4
  Forms <- MCForms
  SlotLists <- MCSlots
  Strings <- MCStrings
  Garbage = {0, 3}
  Formats <- MCFormats
  ArgLists <- MCArgLists
  LowFlags = {13}
  MaxFormat = 4
INVARIANTS
  WsprintfExact
  PrintfExact
