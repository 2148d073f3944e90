SPECIFICATION FairSpec
CONSTANTS
  MaxAt = 4
  MaxWire = 1
  MaxFaults = 1
  MaxUser = 1
CHECK_DEADLOCK FALSE
INVARIANTS
  TypeOK
PROPERTIES
  OnlyANewTurnReopens
  MirrorCatchesUp
  NothingStaysUnread
