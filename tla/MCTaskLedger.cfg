SPECIFICATION Spec
CONSTANTS
  Tasks = {t1, t2}
  LocalPlaces = {session}
  PeerPlaces = {remote}
  Unbound = Unbound
  NoTask = NoTask
  Observers = {o}
  MaxSeq = 6
  MaxReopens = 1
SYMMETRY Symmetric
CHECK_DEADLOCK FALSE
INVARIANTS
  TypeOK
  LogTellsRow
  ToldIsWhatStands
PROPERTIES
  RevivesOnlyAsRead
  KeepsLifecycle
