SPECIFICATION FairSpec
CONSTANTS
    Chip = "RP2040"
    BufferSize = 3
    MaxFrames = 3
    MaxLen = 2
    TxBufferSize = 4
    ResponseSize = 2
    PinChoices <- MCPins
    SharedQueues = TRUE
    AssertsOn = TRUE
INVARIANTS
    TypeOK
    NoFrameSleptOver
    ResponsesInOrder
    InterruptsPrepared
    InitReturnsReady
PROPERTIES
    FrameTaken
    LossReported
CHECK_DEADLOCK FALSE
