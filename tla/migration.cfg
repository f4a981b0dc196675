CONSTANTS
    k1 = k1
    k2 = k2
    Keys = {k1, k2}
    KindOf <- TwoKinds
    Annotated = {}
    NoReport = NoReport
    Faults = FALSE
    ListsFail = TRUE
    Crashes = TRUE
    Compacts = TRUE
    Reserve = 3
    MaxEvents = 3
    MaxVersion = 5
SPECIFICATION Spec
INVARIANTS FollowersCurrent VersionsUnique OnlyOldCopiesStopAStart
