SPECIFICATION FairCommandSpec
CONSTANTS
    n1 = n1
    n2 = n2
    Nodes <- Pair
    Versions = {1, 2}
    Config = 1
    NoVersion = NoVersion
    Foreign = Foreign
    Operators = {c1, c2}
    NoOne = NoOne
    Missing <- MissingOnOne
    Broken <- BrokenOnOne
    Persistence = FALSE
    MayCrash = TRUE
    Asked <- AllKinds
PROPERTIES
    CommandsServed
CHECK_DEADLOCK FALSE
