\* Three routers that know each other; one pair loses contact and may regain it.
\* Packets overtake each other.
CONSTANTS
  Nodes = {1, 2, 3}
  Reach <- Triangle
  MaxCrashes = 0
  MaxOutages = 1
  MaxSends = 0
  MaxHops = 1
  MaxQueue = 8
  Ordered = FALSE
  Established = TRUE
SPECIFICATION FairSpec
PROPERTIES
  NoFalseDrop
  
