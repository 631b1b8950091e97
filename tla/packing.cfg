SPECIFICATION Spec
CONSTANTS
  Types <- MCTypes
  MaxRows <- MCMaxRows
  IntBits = 2
  Length <- MCLength
INVARIANTS RoundTrip AssertionsHold StringsShared
