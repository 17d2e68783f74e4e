SPECIFICATION LoadSpec
CONSTANTS
  File = {main, a, b, c}
  Entry = main
  Unusable = nowhere
  Graphs <- AllGraphs
  MaxUseDepth = 2
INVARIANT DepthBounded
CHECK_DEADLOCK FALSE
