SPECIFICATION Spec
CONSTANTS
    RxBufferMaxSize = 3
    MaxBytes = 5
    MaxOpens = 2
    CleanReopen = FALSE
INVARIANTS
    NothingLost
CHECK_DEADLOCK FALSE
