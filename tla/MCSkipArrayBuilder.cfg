SPECIFICATION BuiltSpec
CONSTANTS
  NodeSize = 2
  MaxLevel = 3
  Pair <- NarrowPairs
VIEW BuiltView
INVARIANTS
  TrailExact
  LevelsExact
  BackLinksExact
  SearchExact
  BuiltHalfFull
PROPERTIES
  AppendAtEnd
  UsedAsOrderedMap
  UsedAsNodeChain
