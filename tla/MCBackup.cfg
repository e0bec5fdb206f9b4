SPECIFICATION Spec
CONSTANTS
    Programs <- AllPrograms
    FirstVersion = 1
    Keep = 2
    MaxDays = 4
    MaxRestores = 2
    MaxFaults = 2
INVARIANTS
    DailyCopiesStand
    OldBaseIsKept
    CopyBeforeUpdate
CHECK_DEADLOCK FALSE
