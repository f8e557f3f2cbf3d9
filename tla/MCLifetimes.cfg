SPECIFICATION Spec
CONSTANTS
  Configs <- AnyConfigs
  MaxArrays = 2
  MaxNodes = 2
  MaxIters = 1
  MaxCount = 2
VIEW View
INVARIANTS
  LedgerExact
  NoBadFree
  LocksHeld
PROPERTIES
  FailureLeavesNothing
