SPECIFICATION Spec
CONSTANTS
    MaxStatus = 1
    InboxSize = 2
    MaxStarts = 1
    MaxTests = 0
    MaxPresses = 0
    MaxFaults = 1
    MaxWire = 1
INVARIANT OfflineOnceStopped
CHECK_DEADLOCK FALSE
