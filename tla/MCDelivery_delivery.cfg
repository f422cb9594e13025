CONSTANTS
  s = s
  a = a
  b = b
  t = t
  Nodes = {s, a, b, t}
  Neighbours <- Triangle
  Source = s
  Target = t
  RetransmissionMax = 1
  MessageLengths = {246, 503}
  MaxCopies = 3
SPECIFICATION FairSpec
INVARIANTS NoRevisit RouteFits HonestSuccess  FrameBudget OneOutcome
PROPERTIES EntriesGo
CHECK_DEADLOCK FALSE
