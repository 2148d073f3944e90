SPECIFICATION Spec
CONSTANTS
  MaxTurns = 2
  MaxAsks = 0
  MaxCalls = 1
  MaxWaits = 0
  MaxConfirms = 0
  MaxCancels = 0
  MaxRestarts = 0
  MaxFaults = 0
  MaxCrowds = 0
  InboxCap = 2
CHECK_DEADLOCK FALSE
PROPERTIES
  ReopensOnlyOnNewTurn
  BlockOutlastsItsTurn
