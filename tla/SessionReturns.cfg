SPECIFICATION FairSpec
CONSTANTS
    MaxBuffer = 1
    MaxFacts = 3
    MaxRelease = 1
    InitFacts = 0
    MayFail = TRUE
INVARIANT
    NeverWaitsInVain
PROPERTY
    RebuildReturnsUnlessStolen
    OnlyOffersProlong
CHECK_DEADLOCK FALSE
