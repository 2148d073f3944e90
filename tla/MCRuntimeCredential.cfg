SPECIFICATION FairSpec
CONSTANTS
  Tasks = {t1, t2}
  Sessions = {s1}
  Tokens = {k1, k2, k3}
  NoTask = NoTask
  NoSession = NoSession
  NoToken = NoToken
  Depth = 2
  MaxFaults = 1
  MaxOthers = 1
CHECK_DEADLOCK FALSE
INVARIANTS
  TypeOK
  NoCredentialBeside
PROPERTIES
  HeldUntilGone
  GoneIsCleared
