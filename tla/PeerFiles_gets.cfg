CONSTANTS
    p1 = p1
    p2 = p2
    p3 = p3
    f1 = f1
    f2 = f2
    Procs <- MCTwo
    Name <- MCTwoName
    Port <- MCTwoPort
    Shared <- MCTwoShared
    Long <- MCLong
    Junk = Junk
    NoFile = NoFile
    Rejection = Rejection
    Unset = Unset
    MaxCoalesce = 2
    MaxCommands = 3
    MaxKills = 1
SPECIFICATION FairSpec
PROPERTIES
    ListsConverge
    GetsEndOrCycle
\* Nobody has to type anything, and all clients may end.
CHECK_DEADLOCK FALSE
