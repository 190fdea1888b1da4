CONSTANTS
    Routers <- MCRouters
    Neighbors <- MCLines
    Weight <- MCWeight
    MAX = 3
    INFINITE = 998
    KillLimit = 15
    MaxRows = 2
    FirstTTL = 2
    MaxCoalesce = 1
    Cap = 1
SPECIFICATION FairSpec
PROPERTIES
    TablesFill
\* Crossed connects stop the set-up for good.
CHECK_DEADLOCK FALSE
