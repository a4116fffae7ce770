SPECIFICATION Spec
CONSTANTS
    Nodes = {n1, n2}
    MayFail = TRUE
INVARIANTS
    TypeOK
    SuspendHolds
    ResumeHolds
    UpHasRoute
