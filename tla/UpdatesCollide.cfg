SPECIFICATION CommandSpec
CONSTANTS
    n1 = n1
    n2 = n2
    Nodes <- Pair
    Versions = {1, 2}
    Config = 1
    NoVersion = NoVersion
    Foreign = Foreign
    Operators = {c1, c2}
    NoOne = NoOne
    Missing <- MissingOnOne
    Broken = {}
    Persistence = FALSE
    MayCrash = FALSE
    Asked <- Failing
INVARIANTS
    FailedUpdatesUndone
CHECK_DEADLOCK FALSE
