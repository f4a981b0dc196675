CONSTANTS
    k1 = k1
    k2 = k2
    k3 = k3
    n1 = n1
    Clients = {c1}
    Keys = {k1, k2, k3}
    KindOf <- OtherKindsKind
    NsOf <- OtherKindsNs
    Values = {v1}
    Watchers = {w1}
    NoReport = NoReport
    StrictUpdate = FALSE
    MaxBehind = 1
    BrokenStreams = TRUE
    Faults = FALSE
    Apply = FALSE
    Reservations = {0}
    MaxVersion = 3
VIEW ButAnswersAndGhosts
SPECIFICATION Spec
INVARIANTS WatchersConverge
PROPERTIES OnlyStaleReadsUnsettle
