\* The constants of the code; a file of 1025 bytes, one datagram lost.
CONSTANTS
    SourceSize = 1025
    PayloadSize = 1024
    SendWindowSize = 6
    RecvWindowSize = 9
    CumModulus = 100
    ClosingLimit = 10
    WindowSlots = 1000
    Garbage = Garbage
    MaxLoss = 1
    Cap = 1
    NoFile = NoFile
    Failed = Failed
SPECIFICATION Spec
INVARIANTS
    DoneMeansDelivered
CHECK_DEADLOCK FALSE
