\* Two scans in flight, after a panic of the loop.
SPECIFICATION Spec
CONSTANTS
    Expiry = 1
    MaxRequests = 2
    MaxClock = 0
    MaxFaults = 0
    MaxCrashes = 0
    MaxPanics = 1
CHECK_DEADLOCK FALSE
INVARIANT OneScanAtATime
