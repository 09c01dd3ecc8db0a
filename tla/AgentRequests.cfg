\* The queue, its safety and its progress: two requests; one failed operation, or one end of the process and one panic.
SPECIFICATION FewSpec
CONSTANTS
    Expiry = 1
    MaxRequests = 2
    MaxClock = 2
    MaxFaults = 1
    MaxCrashes = 1
    MaxPanics = 1
CHECK_DEADLOCK FALSE
INVARIANTS
    ScansAreSerialized
    RequestRunsOnce
    FulfilledWasDone
PROPERTIES
    SettledIsFinal
    ExpiryCountsFromClaim
    EveryRequestSettles
    StuckRequestExpires
