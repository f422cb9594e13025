\* Three routers in a row that know each other; one stops and starts again, and one data
\* frame is sent.
CONSTANTS
  Nodes = {1, 2, 3}
  Reach <- Chain
  MaxCrashes = 1
  MaxOutages = 0
  MaxSends = 1
  MaxHops = 2
  MaxQueue = 4
  Ordered = TRUE
  Established = TRUE
SPECIFICATION Spec
INVARIANTS
  TypeOK
  GraphSound
\* With the bound on the queues, routers may wait for each other.
CHECK_DEADLOCK FALSE
