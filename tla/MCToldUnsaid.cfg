SPECIFICATION Spec
CONSTANTS
  ChildStates = {"working", "waiting", "done", "cancelled"}
  MaxSeq = 3
  MaxCalls = 1
  MaxFaults = 0
  MaxCrowds = 0
  MaxRestarts = 1
CHECK_DEADLOCK FALSE
INVARIANTS
  ToldHasReached
