CONSTANTS
    p1 = p1
    p2 = p2
    p3 = p3
    f1 = f1
    f2 = f2
    Procs <- MCTwo
    Name <- MCTwoName
    Port <- MCTwoPort
    Shared <- MCTwoShared
    Long <- MCLong
    Junk = Junk
    NoFile = NoFile
    Rejection = Rejection
    Unset = Unset
    MaxCoalesce = 1
    MaxCommands = 1
    MaxKills = 0
SPECIFICATION Spec
INVARIANTS
    GetsWhole
\* Nobody has to type anything, and all clients may end.
CHECK_DEADLOCK FALSE
