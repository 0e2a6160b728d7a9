SPECIFICATION FairSpec
CONSTANTS
    big = big
    Packets = {p1, p2}
    NoPacket = NoPacket
    Size <- MCSize
    Configs <- MCTwoOnly
    DefaultConfig <- MCDefault
    ReadErrors = {"not_found", "eof"}
    WriteErrors = {"bad_descriptor"}
    SizeMax = 1023
    MaxCalls <- MCMaxCalls
    MaxOpens = 2
    MaxCloses = 2
    MaxSets = 0
    QuietReopen = FALSE
PROPERTIES
    ScheduledWriteSettles
    CloseReleases
CHECK_DEADLOCK FALSE
