SPECIFICATION Spec
CONSTANTS
  NodeSize = 4
  k1 = k1
  k2 = k2
  v1 = v1
  v2 = v2
  Keys = {k1, k2}
  Vals = {v1, v2}
  Pair <- MCPair
  Empty = Empty
  MaxPairs = 6
VIEW View
INVARIANTS
  TypeOK
  NoTornPair
PROPERTY
  RefinesNodeChain
