SPECIFICATION FairSpec
CONSTANTS
    Chip = "RP2040"
    BufferSize = 3
    MaxFrames = 3
    MaxLen = 2
    TxBufferSize = 4
    ResponseSize = 2
    PinChoices <- MCPins
    SharedQueues = FALSE
    AssertsOn = TRUE
PROPERTIES
    FrameTaken
CHECK_DEADLOCK FALSE
