SPECIFICATION FairSpec
CONSTANTS
  Commands = {c1, c2}
  MaxVersion = 3
  MaxFaults = 3
  MaxOthers = 1
CHECK_DEADLOCK FALSE
INVARIANTS
  TypeOK
  WayBack
PROPERTIES
  NeverDowngrades
  RestoredAsBefore
  LocksComeFree
