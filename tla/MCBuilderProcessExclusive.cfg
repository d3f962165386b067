CONSTANTS
    p1 = p1
    p2 = p2
    NoHolder = NoHolder
    Proc <- MCProc
    MaxRestarts <- MCMaxRestarts
    Dev = FALSE
    LeaseConfigured = TRUE
    WithGC = TRUE
SPECIFICATION Spec
INVARIANT
    WorkersExclusive
CHECK_DEADLOCK FALSE
