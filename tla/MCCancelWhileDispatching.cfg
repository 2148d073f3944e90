SPECIFICATION Spec
CONSTANTS
  MaxTurns = 1
  MaxAsks = 0
  MaxCalls = 0
  MaxWaits = 0
  MaxConfirms = 0
  MaxCancels = 1
  MaxRestarts = 0
  MaxFaults = 0
  MaxCrowds = 0
  InboxCap = 2
CHECK_DEADLOCK FALSE
PROPERTIES
  NothingToInterrupt
