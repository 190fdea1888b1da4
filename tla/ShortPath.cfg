CONSTANTS
    MAX = 4
    INFINITE = 998
    Costs <- MCCosts
SPECIFICATION FairSpec
INVARIANTS
    IInv
    Certified
    ReturnedIsShortest
    OutcomeSound
PROPERTIES
    OutcomeReached
\* The computation ends.
CHECK_DEADLOCK FALSE
