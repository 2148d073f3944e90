SPECIFICATION FairSpec
CONSTANTS
  ChildStates = {"working", "waiting", "done", "cancelled"}
  MaxSeq = 3
  MaxCalls = 1
  MaxFaults = 1
  MaxCrowds = 1
  MaxRestarts = 1
CHECK_DEADLOCK FALSE
INVARIANTS
  TypeOK
  ToldStateWasSaid
  RepeatsOnlyAfterTrouble
PROPERTIES
  RestingParentIsTold
