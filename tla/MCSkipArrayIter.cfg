SPECIFICATION IterSpec
CONSTANTS
  NodeSize = 2
  MaxLevel = 2
  Pair <- FourPairs
  IterIds = {1, 2, 3}
  StepPastEnd = FALSE
  MaxIndex = 2
VIEW IterView
INVARIANTS
  IterTypeOK
  IterListExact
  IterOnPairOrEnd
PROPERTIES
  LockHolds
  RefinesCursors
