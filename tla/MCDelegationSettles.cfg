SPECIFICATION FairSpec
CONSTANTS
  MaxTurns = 1
  MaxAsks = 0
  MaxCalls = 0
  MaxWaits = 0
  MaxConfirms = 1
  MaxCancels = 1
  MaxRestarts = 1
  MaxFaults = 1
  MaxCrowds = 1
  InboxCap = 1
CHECK_DEADLOCK FALSE
INVARIANTS
  TypeOK
  WorksOnlyOnceSent
PROPERTIES
  EndedTurnSettles
  NeverStuckDispatching
