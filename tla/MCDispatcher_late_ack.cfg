\* One local packet.
CONSTANTS
  a = a
  b = b
  r = r
  Null = Null
  Packets = {a}
  Nodes <- MCNodes
  Self = "n"
  Source <- MCSource
  Destination <- Apart
  WireId <- MCWireId
  BitSetSize = 3
  RetransmissionMax = 1
SPECIFICATION Spec
INVARIANTS
  AckFindsMetadata
\* All packets settled and nothing under way: the node waits for new work.
CHECK_DEADLOCK FALSE
