SPECIFICATION Spec
CONSTANTS
    big = big
    Packets = {p1, p2}
    NoPacket = NoPacket
    Size <- MCSize
    Configs <- MCTwoOnly
    DefaultConfig <- MCDefault
    ReadErrors = {"not_found", "eof", "io_error"}
    WriteErrors = {"bad_descriptor"}
    SizeMax = 1023
    MaxCalls <- MCMaxCalls
    MaxOpens = 2
    MaxCloses = 1
    MaxSets = 1
    QuietReopen = FALSE
SYMMETRY MCSymmetry
INVARIANTS
    TypeOK
    SessionFlags
    OneReadPerSession
    ActiveWriteIsFront
    OldOpsAreStale
    NoticesTruthful
    WireInOrder
    OneFatalPerSession
PROPERTIES
    SilentAfterClose
    NoSilentLoss
    ImplementsWriteService
CHECK_DEADLOCK FALSE
