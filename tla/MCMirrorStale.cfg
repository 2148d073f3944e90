SPECIFICATION FairSpec
CONSTANTS
  MaxAt = 4
  MaxWire = 1
  MaxFaults = 1
  MaxUser = 0
CHECK_DEADLOCK FALSE
PROPERTIES
  AlwaysCatchesUp
