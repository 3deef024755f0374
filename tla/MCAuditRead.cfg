SPECIFICATION ReadSpec
CONSTANTS
  Nil = Nil
  BackupCount = 2
  MaxBytes = 1
  Thresholds = {1}
  Sizes = {1}
  MaxEntries = 4
  MaxFaults = 0
  StatusFiles = {"log"}
CHECK_DEADLOCK FALSE
INVARIANT ReadNeverRaises
