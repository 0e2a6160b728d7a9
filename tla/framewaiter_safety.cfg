SPECIFICATION Spec
CONSTANTS
    BufferSize = 2
    Capacities = {1, 2}
    MaxFrames = 3
    MaxLen = 3
INVARIANTS
    TypeOK
    DeliveredAsSent
    FaithfulWithoutOverflow
PROPERTIES
    ImplementsFrameQueue
