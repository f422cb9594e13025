CONSTANTS
  Apps = {"echo"}
  Listens <- MCListens
  Answers <- MCAnswers
  Peers <- MCPeers
  Remains <- MCRemains
  Address = 1
  Macs <- Known
  Hop <- Hops
  FrameIds = {5}
  Scenarios <- MCScenarios
  LineBound = 1
SPECIFICATION FairSpec
INVARIANTS TypeOK PacketsArrive OnlyMarkedLost  AnswersInOrder
PROPERTIES StartsUp  Answered
CHECK_DEADLOCK FALSE
