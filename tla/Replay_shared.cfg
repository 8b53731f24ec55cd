SPECIFICATION FairSpec
CONSTANTS
    Holders = {"a", "b"}
    MaxId = 3
    Limit = 2
    FaultLimit = 1
    Expiring = {1}
INVARIANTS
    ReplayTypeOK
    NoEventIsSkipped
PROPERTIES
    EveryEventIsPassed
\* The log is full.
CHECK_DEADLOCK FALSE
