SPECIFICATION FairSpec
CONSTANTS
    Clients = {c1, c2, c3, c4}
    BaseAlloc = 2
    Readings <- LowToHigh
    ReadMayFail = TRUE
INVARIANTS
    ReservationsExact
    NoOvercommit
    SleepersHaveAWaker
PROPERTIES
    EveryCallServed
CHECK_DEADLOCK FALSE
