SPECIFICATION Spec
CONSTANTS
  NodeSize = 2
  MaxLevel = 3
  SourceKeys = {1, 2, 3, 4}
INVARIANTS
  SourceNotFreed
