\* Four routers in a row start in any order and nothing fails: what they find out.  The
\* queues never fill up.
CONSTANTS
  Nodes = {1, 2, 3, 4}
  Reach <- LongChain
  MaxCrashes = 0
  MaxOutages = 0
  MaxSends = 0
  MaxHops = 1
  MaxQueue = 9
  Ordered = TRUE
  Established = FALSE
SPECIFICATION FairSpec
INVARIANTS
  RealEdges
  Agreement
PROPERTIES
  TopologyDiscovered
