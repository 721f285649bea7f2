SPECIFICATION FairSpec
CONSTANTS
  Pods = {p1, p2}
  MaxFits = 3
  MaxFlips = 1
  MaxFaults = 2
INVARIANTS
  OneActive
  ServesPromoted
PROPERTIES
  PromotionsSerialize
  Converges
CHECK_DEADLOCK FALSE
