\* The constants of the code; a file of 100 KB, one datagram lost.
CONSTANTS
    SourceSize = 102400
    PayloadSize = 1024
    SendWindowSize = 6
    RecvWindowSize = 9
    CumModulus = 100
    ClosingLimit = 10
    WindowSlots = 1000
    Garbage = Garbage
    MaxLoss = 1
    Cap = 1
    NoFile = NoFile
    Failed = Failed
SPECIFICATION FairSpec
PROPERTIES
    ClientTerminates
CHECK_DEADLOCK FALSE
