SPECIFICATION FairSpec
CONSTANTS
    Rows = {1, 2, 3}
    Malformed = {2}
    Pollers = {p1, p2}
    BatchSize = 2
    MaxForgets = 1
    MaxCrashes = 2
INVARIANTS
    RelayInvariant
    DuplicatesNeedForgetting
PROPERTIES
    ImplementsAtLeastOnce
    EveryEventIsDelivered
CHECK_DEADLOCK FALSE
