CONSTANTS
    Interval = 1
    Threshold = 3
    BucketLength = 2
    MicroOn = TRUE
    MicroBurst = 2
    BurstEvery = 5
    FailingWrites <- MCWrites
    MaxTime = 7
    MaxFaults = 1
SPECIFICATION Spec
INVARIANTS
    SilenceIsRecorded
    EventsAreBacked
    CutsAreApart
PROPERTY
    RefinesLog
