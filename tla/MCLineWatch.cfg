CONSTANTS
    Interval = 2
    BurstInterval = 1
    BurstWindow = 2
    BurstOn = TRUE
    ProbeOn = TRUE
    RestartGuard = 1
    RestartWindow = 1
    RestartFollow = 3
    UptimeSlack = 1
    SaveTimeout = 1
    Levels <- MCLevels
    Profiles <- MCCalibrated
    MaxRequests = 1
    MaxTime = 2
    MaxFaults = 1
SPECIFICATION Spec
INVARIANTS
    SilenceIsTold
    BackdatingIsSafe
    JournalTellsTheLine
    OneVerdict
    RequestIsWatched
PROPERTY
    VerdictIsTrue
