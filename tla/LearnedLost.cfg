SPECIFICATION Spec
CONSTANTS
  Pods = {p1}
  MaxFits = 3
  MaxFlips = 0
  MaxFaults = 1
PROPERTY EmbeddedDefers
CHECK_DEADLOCK FALSE
