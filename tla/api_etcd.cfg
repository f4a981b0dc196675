CONSTANTS
    k1 = k1
    k2 = k2
    k3 = k3
    n1 = n1
    Clients = {c1, c2}
    Keys = {k1, k2}
    KindOf <- TwoPolrsKind
    NsOf <- TwoPolrsNs
    Values = {v1}
    Watchers = {w1}
    NoReport = NoReport
    StrictUpdate = TRUE
    MaxBehind = 0
    BrokenStreams = FALSE
    Faults = TRUE
    Apply = TRUE
    Reservations = {0}
    MaxVersion = 3
VIEW ButAnswers
SPECIFICATION Spec
INVARIANTS TypeOK WatchersConverge
PROPERTIES FreshVersions DryRunsWriteNothing AckedWritesCommitted CollectionsWhole
