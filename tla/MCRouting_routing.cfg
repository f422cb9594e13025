CONSTANTS
  Nodes = {1, 2, 3, 4}
  Self = 1
  Infinite = 7
  Scale = 2
  Width = 258
  DelayMax = 65535
  Links <- Across
  Measures <- AllMeasures
  Reports <- AllReports
  Known = {{2, 3}, {2}}
  Visited = {{}, {1, 2}}
  Targets = {4}
  tv = 1
  c = 2
  RetransmissionMax = 1
  TimeoutMultiplier = 3
SPECIFICATION FairSpec
INVARIANTS NoLoop CleanPath Cheapest StatusCounts TimeoutCovers
PROPERTIES Returns
CHECK_DEADLOCK FALSE
