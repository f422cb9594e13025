\* Two local packets for one destination.
CONSTANTS
  a = a
  b = b
  r = r
  Null = Null
  Packets = {a, b}
  Nodes <- MCNodes
  Self = "n"
  Source <- MCSource
  Destination <- Together
  WireId <- MCWireId
  BitSetSize = 3
  RetransmissionMax = 1
SPECIFICATION Spec
PROPERTIES
  PacketIdUnique
\* All packets settled and nothing under way: the node waits for new work.
CHECK_DEADLOCK FALSE
