CONSTANTS
    Interval = 3
    BurstInterval = 1
    BurstWindow = 3
    BurstOn = TRUE
    ProbeOn = FALSE
    RestartGuard = 2
    RestartWindow = 2
    RestartFollow = 3
    UptimeSlack = 1
    SaveTimeout = 1
    Levels <- MCUnjudged
    Profiles <- MCUncalibrated
    MaxRequests = 2
    MaxTime = 3
    MaxFaults = 1
SPECIFICATION Spec
INVARIANTS
    OneVerdict
    RequestIsWatched
PROPERTY
    VerdictIsTrue
