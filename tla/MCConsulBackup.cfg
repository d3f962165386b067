CONSTANTS
    Storage = "minio"
    MaxBackups = 2
    MaxTime = 4
    MaxHistory = 5
SPECIFICATION Spec
INVARIANTS
    HistoryBacked
PROPERTIES
    HistoryNeverLost
    RefinesBackupLog
CHECK_DEADLOCK FALSE
