CONSTANTS
    c1 = c1
    c2 = c2
    f1 = f1
    text1 = text1
    cut = cut
    get1 = get1
    Clients <- MCClients
    Files <- MCFiles
    Contents <- MCContents
    None = None
    Ls = Ls
    ExitText = ExitText
    GetText <- MCGetText
    Listing = Listing
    Bye = Bye
    Error = Error
    Request = Request
    Success = Success
    Failure = Failure
    Cut = cut
    MaxLoss = 1
    MaxCommands = 4
SPECIFICATION FairSpec
INVARIANTS
    TypeOK
    LockStep
PROPERTIES
    EveryCommandEnds
    Transfers
    PutStores
\* Nobody has to type anything, and a lost datagram stops its client.
CHECK_DEADLOCK FALSE
