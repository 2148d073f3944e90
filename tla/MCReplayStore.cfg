SPECIFICATION ReplaySpec
CONSTANTS
  phone = phone
  tablet = tablet
  n1 = n1
  n2 = n2
  Credentials <- SmallCredentials
  Nonces <- SmallNonces
  Times <- SmallTimes
  MaxSkew = 1
  MaxRows = 1
  MaxQueue = 1
SYMMETRY Alike
INVARIANTS
  ReplayTypeOK
  NothingRunsTwice
PROPERTIES
  SteadyClockRefusesNone
  UpgradeFindsRoom
