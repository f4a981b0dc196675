------------------------------ MODULE Startup -------------------------------
(***************************************************************************)
(* How a server process comes to serve: options and environment            *)
(* (pkg/app), the storage (pkg/storage/store.go, pkg/storage/db/new.go and *)
(* the constructors of the four stores), migration, installation of the    *)
(* API and the readiness probe (pkg/server).  Databases and the cluster's  *)
(* API server come and go meanwhile, and whoever runs the process starts   *)
(* it again when it exits.  What the migration does is in Migration.       *)
(***************************************************************************)
EXTENDS Naturals, Sequences, FiniteSets

CONSTANTS
    Primary,        \* the host of the primary database
    Replicas,       \* the hosts of read replicas there are
    ReplicaLists,   \* what DB_READ_REPLICA_HOSTS may be, split at the commas
    NoHost,         \* the empty text between two commas
    Cluster,        \* the cluster's API server
    maxRetries,     \* pings of a database (10 in the code)
    MigrationFails, \* TRUE: the migration may fail
    MaxOutages      \* bound: how often something goes away

VARIABLES
    env,        \* the configuration: is it etcd, is DB_PORT a number, replica hosts
    up,         \* what can be reached at the moment
    outages,    \* how often something went away
    place,      \* where the process is
    attempt,    \* the pings of the current host that failed
    next,       \* the replica host the start is at; 0 is the primary
    connected,  \* the databases opened and pinged by this process
    tables,     \* the statements that the primary has run (CREATE ... IF NOT EXISTS)
    ready,      \* what the readiness probe answered last
    refused     \* ghost: the pings that each host has left unanswered in a row

vars == <<env, up, outages, place, attempt, next, connected, tables, ready, refused>>

Reachable == {Primary, Cluster} \cup Replicas
Hosts == {Primary, NoHost} \cup Replicas

\* The stores in the order of their construction, and the statements of each:
\* a table, an index by cluster and, for the namespaced kinds, by namespace.
Stores == <<"polr", "cpolr", "ephr", "cephr">>
Statements(store) ==
    IF store \in {"polr", "ephr"} THEN <<"table", "namespaceIndex", "clusterIndex">>
                                  ELSE <<"table", "clusterIndex">>
AllTables == {<<i, j>> : i \in 1..4, j \in 1..3} \ {<<2, 3>>, <<4, 3>>}

ASSUME StartupAssumption ==
    /\ ReplicaLists \subseteq Seq(Replicas \cup {NoHost})
    /\ NoHost \notin Reachable
    /\ maxRetries \in Nat \ {0} /\ MaxOutages \in Nat /\ MigrationFails \in BOOLEAN
    /\ AllTables = {<<i, j>> : i \in 1..4, j \in 1..3}
                     \ {<<i, 3>> : i \in {n \in 1..4 : Len(Statements(Stores[n])) = 2}}

-----------------------------------------------------------------------------
(* The steps of a start *)

Exit ==
    /\ place' = "exited"
    /\ UNCHANGED <<env, up, outages, attempt, next, connected, tables, ready, refused>>
GoTo(p) ==
    /\ place' = p
    /\ UNCHANGED <<env, up, outages, attempt, next, connected, tables, ready, refused>>

\* runCommand and ServerConfig.  dbConfig does not look at the environment for
\* etcd, and refuses a port that is not a number.
Configure ==
    /\ place = "start"
    /\ IF ~env.etcd /\ ~env.portIsNumber THEN Exit ELSE GoTo("clusterId")

\* getClusterId asks the cluster for kube-system, once.
GetClusterId ==
    /\ place = "clusterId"
    /\ IF Cluster \notin up THEN Exit
       ELSE IF env.etcd THEN GoTo("migrate")    \* etcd.New connects when it is used
       ELSE GoTo("pingPrimary")

\* A host is pinged: it answers or not.
Pinged(host) ==
    /\ connected' = connected \cup (up \intersect {host})
    /\ refused' = [refused EXCEPT ![host] = IF host \in up THEN 0 ELSE @ + 1]
    /\ UNCHANGED <<env, up, outages, tables, ready>>

\* Mutant of pingWithRetry: the attempts are those of the whole start.
pingWithOneBudget(host, then) ==
    /\ Pinged(host)
    /\ \/ host \in up /\ place' = then /\ next' = next + 1 /\ UNCHANGED attempt
       \/ /\ host \notin up /\ attempt' = attempt + 1 /\ UNCHANGED next
          /\ place' = IF attempt' = maxRetries THEN "exited" ELSE place

\* Mutant of pingWithRetry: it does not give up.
pingForever(host, then) ==
    /\ Pinged(host)
    /\ \/ host \in up /\ place' = then /\ next' = next + 1 /\ UNCHANGED attempt
       \/ host \notin up /\ refused[host] < maxRetries /\ UNCHANGED <<attempt, next, place>>

\* Mutant of pingWithRetry: the error of the last attempt is forgotten.
pingAndGoOn(host, then) ==
    /\ Pinged(host)
    /\ \/ /\ host \in up \/ attempt + 1 = maxRetries
          /\ place' = then /\ next' = next + 1 /\ attempt' = 0
       \/ /\ host \notin up /\ attempt + 1 < maxRetries
          /\ attempt' = attempt + 1 /\ UNCHANGED <<next, place>>

\* One round of pingWithRetry: the host answers, or the process sleeps and
\* tries again, or, after the last attempt, New fails and the process exits.
pingWithRetry(host, then) ==
    /\ Pinged(host)
    /\ \/ host \in up /\ place' = then /\ next' = next + 1 /\ attempt' = 0
       \/ /\ host \notin up /\ attempt' = attempt + 1 /\ UNCHANGED next
          /\ place' = IF attempt' = maxRetries THEN "exited" ELSE place

PingPrimary == place = "pingPrimary" /\ pingWithRetry(Primary, "pingReplicas")

\* Mutant of PingReplica: an empty entry of the list is pinged like the rest.
PingReplicaAny ==
    /\ place = "pingReplicas"
    /\ IF next > Len(env.replicas) THEN GoTo("tables")
       ELSE pingWithRetry(env.replicas[next], "pingReplicas")

\* The loop over the replica hosts, an empty one is skipped.
PingReplica ==
    /\ place = "pingReplicas"
    /\ IF next > Len(env.replicas) THEN GoTo("tables")
       ELSE IF env.replicas[next] # NoHost
       THEN pingWithRetry(env.replicas[next], "pingReplicas")
       ELSE /\ next' = next + 1
            /\ UNCHANGED <<env, up, outages, place, attempt, connected, tables, ready, refused>>

\* The statements in their order; one is run as long as those before it were.
Due(i, j) == \A s \in AllTables : s[1] < i \/ (s[1] = i /\ s[2] < j) => s \in tables

\* The constructors of the stores: a statement is run, if need be, or fails
\* with the primary, and then the process exits.
CreateTables ==
    /\ place = "tables"
    /\ IF Primary \notin up THEN Exit
       ELSE \/ \E s \in AllTables \ tables :
                 /\ Due(s[1], s[2])
                 /\ tables' = tables \cup {s}
                 /\ UNCHANGED <<env, up, outages, place, attempt, next, connected, ready, refused>>
            \/ tables = AllTables /\ GoTo("migrate")

\* The migration fails (Migration says when) or not; then the API is installed,
\* the probe registered, and the process listens.
Migrate == place = "migrate" /\ ((MigrationFails /\ Exit) \/ GoTo("install"))
Install == place = "install" /\ GoTo("serving")

\* The readiness probe asks the storage: Postgres pings the primary, etcd says
\* yes.
Ready == env.etcd \/ Primary \in up

\* Mutant of Probe: a storage that was ready once is taken to stay so.
ProbeOnce ==
    /\ place = "serving"
    /\ ready' = (ready \/ Ready)
    /\ UNCHANGED <<env, up, outages, place, attempt, next, connected, tables, refused>>

Probe ==
    /\ place = "serving"
    /\ ready' = Ready
    /\ UNCHANGED <<env, up, outages, place, attempt, next, connected, tables, refused>>

-----------------------------------------------------------------------------
(* The surroundings *)

\* A process that exited, or is stopped, is started again; what the primary
\* has stays.
Restart ==
    /\ place \in {"exited", "serving"}
    /\ place' = "start" /\ attempt' = 0 /\ next' = 0 /\ connected' = {} /\ ready' = FALSE
    /\ refused' = [host \in Hosts |-> 0]
    /\ UNCHANGED <<env, up, outages, tables>>

Lose(host) ==
    /\ host \in up /\ outages < MaxOutages
    /\ up' = up \ {host}
    /\ outages' = outages + 1
    /\ UNCHANGED <<env, place, attempt, next, connected, tables, ready, refused>>
Regain(host) ==
    /\ host \notin up
    /\ up' = up \cup {host}
    /\ UNCHANGED <<env, outages, place, attempt, next, connected, tables, ready, refused>>

Init ==
    /\ env \in [etcd : BOOLEAN, portIsNumber : BOOLEAN, replicas : ReplicaLists]
    /\ up = Reachable /\ outages = 0
    /\ place = "start" /\ attempt = 0 /\ next = 0 /\ connected = {}
    /\ tables = {} /\ ready = FALSE
    /\ refused = [host \in Hosts |-> 0]

Start == Configure \/ GetClusterId \/ PingPrimary \/ PingReplica \/ CreateTables
         \/ Migrate \/ Install

Next ==
    \/ Start \/ Probe \/ Restart
    \/ \E host \in Reachable : Lose(host) \/ Regain(host)

Spec == Init /\ [][Next]_vars

\* The process goes on and is started again when it exits (the restart policy
\* of its pod), and the probe is asked again and again.  Nobody owes that a
\* database comes back.
FairSpec ==
    Spec /\ WF_vars(Start) /\ WF_vars(Probe) /\ WF_vars(Restart /\ place = "exited")

-----------------------------------------------------------------------------
(* Properties *)

\* The hosts a start has to reach.
Configured == {Primary} \cup ({env.replicas[i] : i \in DOMAIN env.replicas} \ {NoHost})

\* A server that is ready, or could be, has all it needs: every configured
\* database answered this process, and the four tables with their indices are
\* there, also when an earlier start died between two statements.
ServesWhole ==
    place = "serving" /\ ~env.etcd => connected = Configured /\ tables = AllTables

\* A start gives up a database only when maxRetries pings of this very host
\* failed one after the other: pings of other hosts do not count.
OwnBudget ==
    [][place' = "exited" /\ place \in {"pingPrimary", "pingReplicas"} =>
         LET host == IF place = "pingPrimary" THEN Primary ELSE env.replicas[next]
         IN refused'[host] = maxRetries]_vars

\* A start ends, however the databases come and go: the server serves or the
\* process exits.
StartEnds == place \notin {"serving", "exited"} ~> place \in {"serving", "exited"}

\* A server whose primary is gone for good does not stay in service: the probe
\* comes to say so, even when it found the storage ready before.
ProbeNotices == ~env.etcd /\ <>[](Primary \notin up) => <>[]~ready

\* When in the end everything can be reached and the configuration is sound,
\* the server comes to serve, whatever happened before and however the list of
\* replicas is written, unless the migration of one start after the other fails.
ComesToServe ==
    [](env.etcd \/ env.portIsNumber) /\ <>[](up = Reachable) =>
      []<>(place = "serving") \/ []<>(place = "migrate")

-----------------------------------------------------------------------------
(* The inductive invariant behind ServesWhole and OwnBudget                 *)

Places == {"start", "clusterId", "pingPrimary", "pingReplicas", "tables", "migrate",
           "install", "serving", "exited"}
TypeOK ==
    /\ env \in [etcd : BOOLEAN, portIsNumber : BOOLEAN, replicas : ReplicaLists]
    /\ up \subseteq Reachable /\ outages \in 0..MaxOutages
    /\ place \in Places /\ attempt \in 0..maxRetries /\ next \in Nat
    /\ connected \subseteq Hosts /\ tables \subseteq AllTables /\ ready \in BOOLEAN
    /\ refused \in [Hosts -> 0..maxRetries]

\* The host whose turn it is; none after the last.
Current ==
    IF next = 0 THEN Primary
    ELSE IF next <= Len(env.replicas) THEN env.replicas[next] ELSE NoHost

\* The hosts before it in the list.
Passed == {env.replicas[i] : i \in {j \in DOMAIN env.replicas : j < next}}

\* The attempts are those of the current host, and every host before it has
\* answered.
PingsOwn ==
    /\ place \in {"start", "clusterId", "pingPrimary"} => next = 0 /\ connected = {}
    /\ place \in {"start", "clusterId"} => attempt = 0
    /\ place = "pingReplicas" =>
         next > 0 /\ connected = {Primary} \cup (Passed \ {NoHost})
    /\ place \in {"start", "clusterId", "pingPrimary", "pingReplicas"} =>
         /\ attempt < maxRetries /\ (Current = NoHost => attempt = 0)
         /\ \A host \in Hosts : refused[host] = IF host = Current THEN attempt ELSE 0

\* After the pings all hosts have answered, after the statements all tables
\* are there.
Completed ==
    ~env.etcd =>
      /\ place \in {"tables", "migrate", "install", "serving"} => connected = Configured
      /\ place \in {"migrate", "install", "serving"} => tables = AllTables

StartInv == TypeOK /\ PingsOwn /\ Completed

-----------------------------------------------------------------------------
(* What makes StartEnds true                                                *)

\* How far a start is.
Rank == [start |-> 0, clusterId |-> 1, pingPrimary |-> 2, pingReplicas |-> 3, tables |-> 4,
         migrate |-> 5, install |-> 6, serving |-> 7, exited |-> 7]

\* Nearer to its end, by an order in which there is no way down for ever: a
\* later place, the next host, one attempt of maxRetries more, or one of the
\* finitely many statements more.
Nearer ==
    \/ Rank[place'] > Rank[place]
    \/ /\ place' = place
       /\ \/ next' = next + 1 /\ next <= Len(env.replicas)
          \/ next' = next /\ attempt' = attempt + 1 /\ attempt' < maxRetries
          \/ UNCHANGED <<next, attempt>> /\ tables # tables' /\ tables \subseteq tables'

\* Every step of a start brings it nearer to its end and nothing that happens
\* meanwhile, to databases, cluster or probe, takes it back: a start does a
\* bounded number of pings and statements and cannot come round in a circle.
StartsGoForward ==
    [][/\ Start => Nearer
       /\ ~Start => Restart \/ UNCHANGED <<env, place, next, attempt, tables>>]_vars

=============================================================================
