SPECIFICATION Spec
CONSTANTS
  Texts = {t}
  Tools = {c}
  Inputs = {p}
  Older = {t}
  MaxVer = 2
  MaxWire = 2
  MaxLog = 2
  MaxItems = 2
  MaxSpent = 4
CHECK_DEADLOCK FALSE
INVARIANTS
  RowsAfterSuffice
