SPECIFICATION Spec
CONSTANTS
    Programs <- AllPrograms
    FirstVersion = 1
    Keep = 2
    MaxDays = 1
    MaxRestores = 2
    MaxFaults = 2
INVARIANT LogFollowsBase
CHECK_DEADLOCK FALSE
