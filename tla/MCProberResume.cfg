CONSTANTS
    Interval = 1
    Threshold = 3
    BucketLength = 4
    MicroOn = TRUE
    MicroBurst = 2
    BurstEvery = 5
    FailingWrites <- MCNone
    MaxTime = 8
    MaxFaults = 1
SPECIFICATION Spec
PROPERTY ResumedIsMinimal
