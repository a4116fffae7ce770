SPECIFICATION Spec
CONSTANTS
    Nodes = {n1, n2, n3}
    NumOwners = 2
    MaxFacts = 3
    NoFact = NoFact
    MayCrash = TRUE
    MayFail = FALSE
INVARIANTS
    TypeOK
    OwnersAgree
    DoneSurvive
PROPERTIES
    LogKept
