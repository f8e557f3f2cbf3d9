SPECIFICATION Spec
CONSTANT MaxKey = 8
VIEW View
INVARIANTS
  BuiltHalfFull
PROPERTIES
  UsedAsNodeChain
