CONSTANTS
    SourceSize = 9
    PayloadSize = 2
    SendWindowSize = 3
    RecvWindowSize = 5
    CumModulus = 100
    ClosingLimit = 3
    WindowSlots = 1000
    Garbage = Garbage
    MaxLoss = 4
    Cap = 4
    NoFile = NoFile
    Failed = Failed
SPECIFICATION FairSpec
INVARIANTS
    AcksInOrder
PROPERTIES
    ImplementsGbn
    ImplementsFileTransfer
    CompletesFileTransfer
\* Both programs end.
CHECK_DEADLOCK FALSE
