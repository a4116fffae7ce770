SPECIFICATION Spec
CONSTANTS
    n1 = n1
    n2 = n2
    Nodes <- Pair
    Versions = {1, 2}
    Config = 1
    NoVersion = NoVersion
    Operators = {op1}
    NoOne = NoOne
    Missing = {}
    Broken = {}
    Persistence = FALSE
    MayCrash = FALSE
INVARIANTS
    AllNodesAgree
