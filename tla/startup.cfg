CONSTANTS
    r1 = r1
    r2 = r2
    Primary = primary
    Replicas = {r1, r2}
    ReplicaLists <- Lists
    NoHost = NoHost
    Cluster = cluster
    maxRetries = 3
    MigrationFails = TRUE
    MaxOutages = 3
SPECIFICATION FairSpec
INVARIANTS ServesWhole StartInv
PROPERTIES OwnBudget StartEnds ComesToServe ProbeNotices
