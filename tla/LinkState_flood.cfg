CONSTANTS
    Routers <- MCRouters
    Neighbors <- MCLines
    Weight <- MCWeight
    MAX = 3
    INFINITE = 998
    KillLimit = 2
    MaxRows = 2
    FirstTTL = 2
    MaxCoalesce = 2
    Cap = 2
SPECIFICATION FairSpec
INVARIANTS
    TypeOK
    EndsAgree
    OpenIsConnected
    TtlCountsHops
    EndsNextToLimit
    HangsOnlyIncomplete
PROPERTIES
    OpenOrCrossed
    ParentsEnd
\* Crossed connects stop the set-up for good.
CHECK_DEADLOCK FALSE
