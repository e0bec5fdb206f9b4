CONSTANTS
    Kinds <- MCKinds
    Filter <- MCFilter
    NoteKind = "note"
    MaxAge = 1
    PageLimit = 2
    MaxLag = 0
    MaxEvents = 3
    MaxTime = 1
    MaxFaults = 0
SPECIFICATION Spec
INVARIANT NothingLost
