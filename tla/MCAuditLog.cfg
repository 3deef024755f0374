SPECIFICATION ReadSpec
CONSTANTS
  Nil = Nil
  BackupCount = 3
  MaxBytes = 2
  Thresholds = {0, 3}
  Sizes = {1, 2}
  MaxEntries = 5
  MaxFaults = 2
  StatusFiles = {"log", "absent", "other"}
CHECK_DEADLOCK FALSE
INVARIANTS TypeOK PlainInOrder OnlyOldestLost KeptGenerations
INVARIANTS ScanMissesNothing StatusNotEmpty
PROPERTY CompressionKeepsCopy
