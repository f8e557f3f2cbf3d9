SPECIFICATION Spec
CONSTANTS
  Keys = {1, 2}
  Arrays = {1, 2, 3}
  MaxCount = 3
  Directions = {"LEFT"}
INVARIANTS
  MergedOnce
