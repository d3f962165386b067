CONSTANTS
    p1 = p1
    p2 = p2
    NoHolder = NoHolder
    Proc <- MCProc
    MaxRestarts <- MCMaxRestarts
    Dev = FALSE
    LeaseConfigured = TRUE
    WithGC = TRUE
SPECIFICATION Spec
PROPERTY
    ShutdownTerminates
CHECK_DEADLOCK FALSE
