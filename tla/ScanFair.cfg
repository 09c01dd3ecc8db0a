\* Fairness: what is admitted settles, or is swept when it could not.
SPECIFICATION CalmOrRough
CONSTANTS
    Callers = {c1, c2}
    Keys = {k1, k2}
    Plans <- EitherPlan
    s1 = s1
    s2 = s2
    NoJob = NoJob
    NotCompleted = NotCompleted
    Free = Free
    Open = Open
    RetryWindow = 0
    AbandonAfter = 0
    Keep = 1
    MaxAdmissions = 2
    MaxClock = 1
    MaxFaults = 1
    MaxCrashes = 1
CHECK_DEADLOCK FALSE
PROPERTIES
    HandlerReturns
    CalmScanSettles
    CalmCancelStopsScan
    RoughScanIsSwept
