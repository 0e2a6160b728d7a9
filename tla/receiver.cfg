SPECIFICATION FairSpec
CONSTANTS
    RxBufferMaxSize = 3
    MaxBytes = 5
    MaxOpens = 2
    CleanReopen = TRUE
INVARIANTS
    TypeOK
    NothingLost
    FramesDelimited
    BufferHoldsTheRest
    SessionInBounds
PROPERTIES
    FrameHandedOut
CHECK_DEADLOCK FALSE
