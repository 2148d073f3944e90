SPECIFICATION FairSpec
CONSTANTS
  MaxTurns = 1
  MaxAsks = 1
  MaxCalls = 0
  MaxWaits = 0
  MaxConfirms = 0
  MaxCancels = 0
  MaxRestarts = 0
  MaxFaults = 0
  MaxCrowds = 1
  InboxCap = 2
CHECK_DEADLOCK FALSE
PROPERTIES
  DriverSettlesSkipped
