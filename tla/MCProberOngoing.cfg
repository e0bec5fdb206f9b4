CONSTANTS
    Interval = 1
    Threshold = 3
    BucketLength = 2
    MicroOn = TRUE
    MicroBurst = 2
    BurstEvery = 5
    FailingWrites <- MCClose
    MaxTime = 6
    MaxFaults = 1
SPECIFICATION Spec
INVARIANT OngoingIsReal
