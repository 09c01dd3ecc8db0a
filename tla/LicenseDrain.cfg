\* Three commands, one after the other, and one pass of the loop; two operations fail.
SPECIFICATION DrainSpec
CONSTANTS
    Handlers = {h1, h2, h3}
    Loop = Loop
    Nobody = Nobody
    Original = Original
    NoInst = NoInst
    Roles = {"activate", "deactivate"}
    LicenseKeys = 2
    MaxTruth = 0
    MaxTicks = 1
    MaxImports = 0
    MaxFaults = 2
CHECK_DEADLOCK FALSE
SYMMETRY Symmetry
INVARIANT AppendsSurvive
