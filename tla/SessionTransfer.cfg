SPECIFICATION TransferSpec
CONSTANTS
    MaxBuffer = 1
    MaxFacts = 3
    MaxRelease = 1
    InitFacts = 2
    MayFail = FALSE
INVARIANTS
    NothingLost
    RebuiltCompleteUnlessRaced
    CopyInOrder
    CopyWholeUnlessDisturbed
CHECK_DEADLOCK FALSE
