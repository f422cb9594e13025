\* Two local packets for different destinations, one retransmission each, and only
\* two frame ids: a retransmission may find both of them in use.
CONSTANTS
  a = a
  b = b
  r = r
  Null = Null
  Packets = {a, b}
  Nodes <- MCNodes
  Self = "n"
  Source <- MCSource
  Destination <- Apart
  WireId <- MCWireId
  BitSetSize = 2
  RetransmissionMax = 1
SPECIFICATION Spec
INVARIANTS
  TypeOK
  FrameIdsUnique
  OneFrameInFlight
  MemorySafe
  NoSilentLoss
  ReportedOnce
  RetryBound
PROPERTIES
  StaysSettled
  ImplementsReliableDelivery
\* All packets settled and nothing under way: the node waits for new work.
CHECK_DEADLOCK FALSE
