SPECIFICATION Spec
CONSTANTS
  Commands = {c1, c2}
  MaxVersion = 3
  MaxFaults = 2
  MaxOthers = 1
CHECK_DEADLOCK FALSE
INVARIANT BackupTellsTrouble
