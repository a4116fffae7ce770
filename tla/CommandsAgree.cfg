SPECIFICATION CommandSpec
CONSTANTS
    n1 = n1
    n2 = n2
    Nodes <- Pair
    Versions = {1, 2}
    Config = 1
    NoVersion = NoVersion
    Foreign = Foreign
    Operators = {c1, c2, c3}
    NoOne = NoOne
    Missing <- MissingOnOne
    Broken <- BrokenOnOne
    Persistence = TRUE
    MayCrash = TRUE
    Asked <- Updates
INVARIANTS
    TypeOK
    AnswersTellTheRules
    OneExecutor
PROPERTIES
    ReportedWhenDone
CHECK_DEADLOCK FALSE
SYMMETRY AnyCommand
