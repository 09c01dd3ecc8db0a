SPECIFICATION RoughOrCalm
CONSTANTS
    Callers = {c1, c2}
    Keys = {k1, k2}
    Plans <- EveryPlan
    s1 = s1
    s2 = s2
    NoJob = NoJob
    NotCompleted = NotCompleted
    Free = Free
    Open = Open
    RetryWindow = 0
    AbandonAfter = 0
    Keep = 1
    MaxAdmissions = 3
    RoughAdmissions = 2
    RoughEvents = 3
    MaxClock = 1
    MaxFaults = 1
    MaxCrashes = 1
SYMMETRY Symmetry
INVARIANT SingleOwner
INVARIANT KeyCollectsOnce
INVARIANT CompleteIsWhole
INVARIANT EvidenceBacksStatus
INVARIANT OpenHasOwner
PROPERTIES SettledIsFrozen ImplementsPromise RetentionKeepsNewest
CHECK_DEADLOCK FALSE
