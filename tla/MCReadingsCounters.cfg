CONSTANTS
    ScQam <- McScQam
    Ofdm <- McOfdm
    Up <- McUp
    Frequency <- McFrequency
    Start <- McStart
    UpStart <- McUpStart
    ErrorSteps <- McErrorSteps
    Powers = {5, 26}
    Snrs = {40, 30}
    Orders = {64, 16}
    UpPowers = {44, 52}
    Profile <- McProfile
    OfdmaFloor = 16
    Calibrated = TRUE
    MinOverlap = 2
    MinSCQAM = 2
    MaxGap = 1
    Lookback = 3
    MaxRunRows = 3
    ErrorsMayLack = TRUE
    MaxTicks = 5
    MaxChanges = 2
SPECIFICATION ReadingsSpec
INVARIANTS
    ErrorsAreReal
CHECK_DEADLOCK FALSE
