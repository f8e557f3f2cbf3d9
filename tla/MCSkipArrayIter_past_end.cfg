SPECIFICATION IterSpec
CONSTANTS
  NodeSize = 2
  MaxLevel = 1
  Pair <- FourPairs
  IterIds = {1}
  StepPastEnd = TRUE
  MaxIndex = 3
PROPERTIES
  NextOkIsOnPair
