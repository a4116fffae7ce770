SPECIFICATION FairSpec
CONSTANTS
    MaxBuffer = 1
    MaxFacts = 3
    MaxRelease = 1
    InitFacts = 0
    MayFail = FALSE
PROPERTY
    RebuildReturns
CHECK_DEADLOCK FALSE
