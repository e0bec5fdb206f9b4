SPECIFICATION FairSpec
CONSTANTS
    MaxStatus = 2
    InboxSize = 2
    MaxStarts = 1
    MaxTests = 1
    MaxPresses = 1
    MaxFaults = 1
    MaxWire = 1
INVARIANTS
    OnlyFreshPresses
    NoPressIsLost
    ShownIsTrue
PROPERTY
    ComesBack
CHECK_DEADLOCK FALSE
