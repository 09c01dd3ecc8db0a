\* A scan of another sees the defect again between the recheck and its mark.
SPECIFICATION Spec
CONSTANTS
    Defects = {d1}
    Lines = {1}
    Kinds = {"code", "local", "remote", "polled"}
    UserDecides = {}
    Grace = 1
    Recheck = 1
    Expiry = 2
    MaxAttempts = 1
    MaxEdits = 2
    MaxOthers = 1
    MaxFaults = 0
    MaxCrashes = 0
CHECK_DEADLOCK FALSE
INVARIANT VerifiedMeansUnreported
