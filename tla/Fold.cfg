SPECIFICATION FairSpec
CONSTANTS
  Keys = {1, 2, 3}
  Arrays = {1, 2}
  MaxCount = 3
  Directions = {"LEFT", "RIGHT"}
INVARIANTS
  TypeOK
  PendingExact
  NothingLost
  LeftAscends
PROPERTIES
  KeepsPromise
  FoldEnds
