\* Two commands and the loop, one failed operation: who waits for whom.
SPECIFICATION Spec
CONSTANTS
    Handlers = {h1, h2}
    Loop = Loop
    Nobody = Nobody
    Original = Original
    NoInst = NoInst
    Roles = {"activate", "deactivate"}
    LicenseKeys = 1
    MaxTruth = 0
    MaxTicks = 0
    MaxImports = 0
    MaxFaults = 1
CHECK_DEADLOCK FALSE
INVARIANT LocksAreOrdered
