\* As outage, with packets in order: is an edge found again after contact was regained?
CONSTANTS
  Nodes = {1, 2, 3}
  Reach <- Triangle
  MaxCrashes = 0
  MaxOutages = 1
  MaxSends = 0
  MaxHops = 1
  MaxQueue = 8
  Ordered = TRUE
  Established = TRUE
SPECIFICATION FairSpec
PROPERTIES
  TopologyDiscovered
