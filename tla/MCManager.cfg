CONSTANTS
    Pages = {first, second}
    Main = main
    Nobody = nobody
    NKeys = 3
    Vals <- MCVals
    Valid <- MCValid
    Blank = "blank"
    Default <- MCDefault
    Forced <- MCForced
    Secrets = {2}
    Groups <- MCGroups
    LevelKey = 1
    Tasks = {"collection", "probe"}
    Switch <- MCSwitch
    On = "on"
    MaxPosts = 2
    MaxFaults = 1
SPECIFICATION FairSpec
INVARIANTS
    OneGeneration
    TasksMatchState
    AloneIsApplied
PROPERTY
    LockIsReleased
CHECK_DEADLOCK FALSE
