CONSTANTS
    Kinds <- MCKinds
    Filter <- MCFilter
    NoteKind = "note"
    MaxAge = 1
    PageLimit = 2
    MaxLag = 1
    MaxEvents = 3
    MaxTime = 2
    MaxFaults = 1
SPECIFICATION FairSpec
INVARIANTS
    NothingSkipped
    OnlyTheNewIsSent
PROPERTY
    EventuallySettled
