CONSTANTS
    Interval = 2
    BurstInterval = 1
    BurstWindow = 2
    BurstOn = TRUE
    ProbeOn = TRUE
    RestartGuard = 2
    RestartWindow = 2
    RestartFollow = 4
    UptimeSlack = 1
    SaveTimeout = 1
    Levels <- MCLevels
    Profiles = {TRUE, FALSE}
    MaxRequests = 0
    MaxTime = 3
    MaxFaults = 1
SPECIFICATION Spec
INVARIANTS
    TypeOK
    SilenceIsTold
    BackdatingIsSafe
    JournalTellsTheLine
