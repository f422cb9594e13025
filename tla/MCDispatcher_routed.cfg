\* A local and a routed packet under fairness.
CONSTANTS
  a = a
  b = b
  r = r
  Null = Null
  Packets = {a, r}
  Nodes <- MCNodes
  Self = "n"
  Source <- MCSource
  Destination <- Apart
  WireId <- MCWireId
  BitSetSize = 3
  RetransmissionMax = 1
SPECIFICATION FairSpec

  
PROPERTIES
  Resolution
  IdsReturned
\* All packets settled and nothing under way: the node waits for new work.
CHECK_DEADLOCK FALSE
