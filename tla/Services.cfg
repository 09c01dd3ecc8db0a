\* The registry, a multi-page scan, the schedules and the outbox, one by one.
SPECIFICATION ServicesSpec
CONSTANTS
    Attempts = {a1, a2}
    Cancels = {c1, c2}
    Ids = {r1, r2}
    NoId = NoId
    FreshIds = FALSE
    Selected = 2
    Routes = 3
    Schedules = {1}
    DayTicks = 2
    WeekDays = 3
    MaxClock = 6
    MaxEdits = 1
    MaxBacks = 1
    MaxCrashes = 1
    Groups = {1}
    MaxDecisions = 2
    MaxOthers = 2
    MaxFaults = 2
INVARIANTS
    SequentialCancelIsHonoured NoCancelLeaks
    ServicesTypeOK ParentIsBacked
    NextRunIsSoonest OneScanPerOccurrence RecordedIsKept TakenIsNoConflict
PROPERTIES
    ResolvedWasSeenAbsent ParentSettles
    DueIsServed EditTakesEffect OverrulesWhatWasSeen
CHECK_DEADLOCK FALSE
