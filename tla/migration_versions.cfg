CONSTANTS
    k1 = k1
    k2 = k2
    Keys = {k1, k2}
    KindOf <- TwoKinds
    Annotated = {}
    NoReport = NoReport
    Faults = FALSE
    ListsFail = TRUE
    Crashes = FALSE
    Compacts = FALSE
    Reserve = 3
    MaxEvents = 2
    MaxVersion = 6
SPECIFICATION Spec
INVARIANTS WatchersHaveVersions
