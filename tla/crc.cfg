SPECIFICATION Spec
CONSTANTS
    Messages <- MCMessages
    Headers <- MCHeaders
    BufferSizes = {0, 3, 6, 11}
    OldBytes = {170}
    MaxBurst = 7
    MaxTripled = 3
INVARIANTS
    TypeOK
    RoundTrip
    DamageDetected
    FlipPairDetected
    BufferRespected
    StandardFrame
    AcceptsOnlyFrames
CHECK_DEADLOCK FALSE
