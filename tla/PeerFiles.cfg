CONSTANTS
    p1 = p1
    p2 = p2
    p3 = p3
    f1 = f1
    f2 = f2
    Procs <- MCProcs
    Name <- MCName
    Port <- MCPort
    Shared <- MCShared
    Long <- MCLong
    Junk = Junk
    NoFile = NoFile
    Rejection = Rejection
    Unset = Unset
    MaxCoalesce = 2
    MaxCommands = 1
    MaxKills = 1
SPECIFICATION Spec
INVARIANTS
    TypeOK
    ListedWhileJoined
    ExitUnlists
    ListBounded
    ListArrives
    AskedForOwn
PROPERTIES
    ImplementsRegistry
\* Nobody has to type anything, and all clients may end.
CHECK_DEADLOCK FALSE
