SPECIFICATION Spec
CONSTANTS
    big = big
    Packets = {p1, p2, p3, big}
    NoPacket = NoPacket
    Size <- MCSize
    Configs <- MCConfigs
    DefaultConfig <- MCDefault
    ReadErrors = {"not_found", "eof"}
    WriteErrors = {"bad_descriptor"}
    SizeMax = 1023
    MaxCalls <- MCMaxCalls
    MaxOpens = 2
    MaxCloses = 0
    MaxSets = 0
    QuietReopen = TRUE
SYMMETRY MCSymmetry
INVARIANTS
    PendingWritesExact
    QueueWithinLimit
    QueuedInItsSession
CHECK_DEADLOCK FALSE
