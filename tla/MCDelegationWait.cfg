SPECIFICATION Spec
CONSTANTS
  MaxTurns = 1
  MaxAsks = 1
  MaxCalls = 0
  MaxWaits = 1
  MaxConfirms = 0
  MaxCancels = 0
  MaxRestarts = 0
  MaxFaults = 0
  MaxCrowds = 0
  InboxCap = 2
CHECK_DEADLOCK FALSE
INVARIANTS
  DoneWasSaid
