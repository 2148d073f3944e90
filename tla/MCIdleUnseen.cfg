SPECIFICATION FairSpec
CONSTANTS
  ChildStates = {"working", "waiting", "done", "cancelled"}
  MaxSeq = 3
  MaxCalls = 0
  MaxFaults = 0
  MaxCrowds = 1
  MaxRestarts = 0
CHECK_DEADLOCK FALSE
PROPERTIES
  IdleParentIsTold
