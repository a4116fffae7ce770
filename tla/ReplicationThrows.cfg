SPECIFICATION Spec
CONSTANTS
    Nodes = {n1, n2, n3}
    NumOwners = 3
    MaxFacts = 3
    NoFact = NoFact
    MayCrash = TRUE
    MayFail = TRUE
INVARIANTS
    NoFactTwice
    CommonOrder
