SPECIFICATION Spec
CONSTANTS
  NodeSize = 4
  Pair = {a, b}
  MaxPairs = 7
INVARIANTS
  TypeOK
  HalfFull
PROPERTY
  OnePlaceAtATime
