CONSTANTS
    k1 = k1
    k2 = k2
    n1 = n1
    n2 = n2
    p1 = p1
    p2 = p2
    c3 = c3
    Callers = {c1, c2}
    Keys = {k1, k2}
    NsOf <- TwoKeysNs
    AllNamespaces = all
    Reports = {r1, r2}
    NoReport = NoReport
    Faults = TRUE
    Procs = {p1}
    ProcOf <- OneProc
    Nobody = Nobody
SPECIFICATION BothSpec
INVARIANTS TypeOK CheckStillTrue
PROPERTIES KeepsPromise CallsReturn OnlyTheOtherInterferes
