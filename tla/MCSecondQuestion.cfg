SPECIFICATION Spec
CONSTANTS
  ChildStates = {"working", "waiting", "done", "cancelled"}
  MaxSeq = 4
  MaxCalls = 1
  MaxFaults = 0
  MaxCrowds = 0
  MaxRestarts = 0
CHECK_DEADLOCK FALSE
INVARIANTS
  ToldVersionWasSaid
