\* Each kind of check, with a failed operation and an end of the application.
SPECIFICATION SettlesSpec
CONSTANTS
    Defects = {d1}
    Lines = {1}
    Kinds = {"code", "local", "remote", "polled"}
    UserDecides = {}
    Grace = 1
    Recheck = 1
    Expiry = 2
    MaxAttempts = 2
    MaxEdits = 1
    MaxOthers = 1
    MaxFaults = 1
    MaxCrashes = 1
CHECK_DEADLOCK FALSE
PROPERTIES
    WaitSurvivesSweep
    AttemptSettles
