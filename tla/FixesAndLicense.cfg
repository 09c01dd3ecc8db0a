\* A code check with two defects, two attempts and another scan beside the watcher; two commands on the license.
SPECIFICATION PartsSpec
CONSTANTS
    Defects = {d1, d2}
    Lines = {1, 2}
    Kinds = {"code"}
    UserDecides = {"claimed"}
    Grace = 0
    Recheck = 1
    Expiry = 1
    MaxAttempts = 2
    MaxEdits = 1
    MaxOthers = 1
    MaxFaults = 0
    MaxCrashes = 0
    Handlers = {h1, h2}
    Loop = Loop
    Nobody = Nobody
    Original = Original
    NoInst = NoInst
    Roles = {"validate", "activate", "deactivate"}
    LicenseKeys = 2
    MaxTruth = 1
    MaxTicks = 1
    MaxImports = 1
    LicenseFaults = 2
    MaxHard = 3
CHECK_DEADLOCK FALSE
SYMMETRY Symmetry
INVARIANTS
    PartsTypeOK
    OneActivePerTarget RegressedWasGone
    NothingIsForgotten KeyFitsRow
PROPERTIES
    VerdictsAdvance
