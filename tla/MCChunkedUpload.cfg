SPECIFICATION FairSpec
CONSTANTS
  Ids = {u1}
  Requests = {r1, r2}
  Size = 2
  Chunk = 2
  PerDevice = 1
  Reclaim = 1
  IdleTtl = 2
  MaxBreaks = 2
  MaxStops = 1
INVARIANTS
  TypeOK
  KeptAsTaken
PROPERTIES
  NothingStaysBusy
  OrphansAreSwept
