SPECIFICATION Spec
CONSTANTS
    MaxBuffer = 1
    MaxFacts = 3
    MaxRelease = 1
    InitFacts = 0
    MayFail = FALSE
INVARIANT
    RebuiltCompleteUnlessJoined
CHECK_DEADLOCK FALSE
