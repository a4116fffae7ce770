SPECIFICATION Spec
CONSTANTS
    MaxBuffer = 0
    MaxFacts = 2
    MaxRelease = 2
    InitFacts = 0
    MayFail = TRUE
INVARIANTS
    TypeOK
    OneSnapshotAtATime
    ReplayedInOrder
    NothingVanishes
CHECK_DEADLOCK FALSE
