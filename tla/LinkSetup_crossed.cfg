CONSTANTS
    Routers <- MCRouters
    Neighbors <- MCLines
SPECIFICATION SetupFairSpec
PROPERTIES
    EveryRouterConnects
\* The set-up is over when all are connected, or stands still.
CHECK_DEADLOCK FALSE
