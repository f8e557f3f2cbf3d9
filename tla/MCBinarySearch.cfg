SPECIFICATION Spec
CONSTANTS
  Keys = {1, 2, 3, 4, 5, 6, 7}
  MaxCount = 6
INVARIANTS
  IndInv
  InBounds
  Correct
  AgreesWithSkipList
PROPERTIES
  Halves
  Returns
CHECK_DEADLOCK FALSE
