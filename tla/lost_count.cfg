SPECIFICATION Spec
CONSTANTS
    big = big
    Packets = {p1, p2}
    NoPacket = NoPacket
    Size <- MCSize
    Configs <- MCOneOnly
    DefaultConfig <- MCDefault
    ReadErrors = {"not_found", "eof", "io_error"}
    WriteErrors = {"bad_descriptor"}
    SizeMax = 1023
    MaxCalls <- MCMaxCalls
    MaxOpens = 2
    MaxCloses = 0
    MaxSets = 0
    QuietReopen = FALSE
INVARIANTS
    QueueWithinLimit
CHECK_DEADLOCK FALSE
