CONSTANTS
    Pages = {first, second}
    Main = main
    Nobody = nobody
    NKeys = 3
    Vals <- MCVals
    Valid <- MCValid
    Blank = "blank"
    Default <- MCDefault
    Forced <- MCForced
    Secrets = {2}
    Groups <- MCGroups
    LevelKey = 1
    Tasks = {"collection", "probe"}
    Switch <- MCSwitch
    On = "on"
    MaxPosts = 2
    MaxFaults = 0
SPECIFICATION Spec
INVARIANT
    SavedIsInForce
CHECK_DEADLOCK FALSE
