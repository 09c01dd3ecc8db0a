SPECIFICATION Spec
CONSTANTS
    Attempts = {a1}
    Cancels = {c1}
    Ids = {r1}
    NoId = NoId
    FreshIds = TRUE
INVARIANT RacingCancelIsHonoured
CHECK_DEADLOCK FALSE
