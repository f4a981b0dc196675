CONSTANTS
    k1 = k1
    k2 = k2
    Keys = {k1, k2}
    KindOf <- OneKind
    Annotated = {k2}
    NoReport = NoReport
    Faults = TRUE
    ListsFail = TRUE
    Crashes = TRUE
    Compacts = TRUE
    Reserve = 1
    MaxEvents = 2
    MaxVersion = 3
SPECIFICATION FairSpec
INVARIANTS TypeOK
PROPERTIES StartEnds FollowersCatchUp
