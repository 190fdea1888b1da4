\* Four blocks of up to two bytes and a final packet: numberOfPackets = 4, so
\* that the cumulative acks 4 and 5 are read as 0 and 1.
CONSTANTS
    SourceSize = 7
    PayloadSize = 2
    SendWindowSize = 3
    RecvWindowSize = 2
    CumModulus = 4
    ClosingLimit = 2
    WindowSlots = 1000
    Garbage = Garbage
SPECIFICATION Spec
INVARIANTS
    TypeOK
    IInv
    SenderNeverAhead
    NoPacketAboveWindow
    PrefixIntact
    DoneImpliesFinished
    WindowNeverEmpty
PROPERTIES
    ReceivedIsKept
\* Both programs end.
CHECK_DEADLOCK FALSE
