SPECIFICATION Spec
CONSTANTS
    Chip = "RP2040"
    BufferSize = 3
    MaxFrames = 3
    MaxLen = 4
    TxBufferSize = 4
    ResponseSize = 2
    PinChoices <- MCPins
    SharedQueues = TRUE
    AssertsOn = TRUE
INVARIANTS
    RoomWhileAsleep
CHECK_DEADLOCK FALSE
