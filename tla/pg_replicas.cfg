CONSTANTS
    k1 = k1
    k2 = k2
    n1 = n1
    n2 = n2
    p1 = p1
    p2 = p2
    c1 = c1
    Callers = {c1, c2}
    Keys = {k1, k2}
    NsOf <- TwoKeysNs
    AllNamespaces = all
    Reports = {r1}
    NoReport = NoReport
    Faults = TRUE
    Procs = {p1, p2}
    ProcOf <- TwoProcs
    Nobody = Nobody
    Replicas = {s1, s2}
    BrokenStreams = TRUE
    MaxWrites = 2
SYMMETRY ReplicaSymmetry
SPECIFICATION Spec
INVARIANTS TypeOK ReadsWithinLag
PROPERTIES OnlyCreatesCreate
