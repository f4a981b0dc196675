--------------------------- MODULE PostgresTables ---------------------------
(***************************************************************************)
(* The four tables of the Postgres backend (pkg/storage/db), which the     *)
(* reports servers of several clusters share: each row carries the id of   *)
(* its cluster, and every statement of every method has to name it.  A     *)
(* statement is what its text says of columns; each method is one step     *)
(* here, PostgresStore has the mutex, the replicas and the failures.       *)
(***************************************************************************)
EXTENDS Naturals, FiniteSets

CONSTANTS
    Clusters,       \* the ids of the clusters whose servers use the database
    Namespaces, Names,
    Contents,       \* what a report may say
    NoContent,      \* "there is no report"
    AllNamespaces,  \* the empty namespace; also that of a cluster-wide report
    MaxRows         \* bound: rows that are there at a time

VARIABLES
    policyreports, clusterpolicyreports, ephemeralreports, clusterephemeralreports,
    written     \* for each report of each cluster, what its own last call left

tables == <<policyreports, clusterpolicyreports, ephemeralreports, clusterephemeralreports>>
vars == <<tables, written>>

Kinds == {"polr", "cpolr", "ephr", "cephr"}
Namespaced == {"polr", "ephr"}

\* The reports the API can address, namespaced or not.
Ids == [kind : Namespaced, ns : Namespaces, name : Names]
       \cup [kind : Kinds \ Namespaced, ns : {AllNamespaces}, name : Names]

\* A row has the primary key's columns and the report, in which is written
\* what it is and what it says.
NamespacedRow(cl, id, content) ==
    [name |-> id.name, namespace |-> id.ns, clusterId |-> cl,
     report |-> [id |-> id, content |-> content]]
ClusterRow(cl, id, content) ==
    [name |-> id.name, clusterId |-> cl, report |-> [id |-> id, content |-> content]]

\* The reports in rows, as a method returns them.
Reported(rows) == {r.report : r \in rows}

\* UPDATE ... SET report WHERE the row is one of those matched.
Set(table, matched, report) ==
    {IF r \in matched THEN [r EXCEPT !.report = report] ELSE r : r \in table}

-----------------------------------------------------------------------------
(* policyreports: PRIMARY KEY (name, namespace, clusterId) *)

PolrList(cl, ns) ==
    {r \in policyreports : (ns # AllNamespaces => r.namespace = ns) /\ r.clusterId = cl}
PolrGet(cl, id) ==
    {r \in policyreports : r.namespace = id.ns /\ r.name = id.name /\ r.clusterId = cl}
PolrCreate(cl, id, content) ==
    /\ ~\E r \in policyreports : <<r.name, r.namespace, r.clusterId>> = <<id.name, id.ns, cl>>
    /\ policyreports' = policyreports \cup {NamespacedRow(cl, id, content)}
    /\ UNCHANGED <<clusterpolicyreports, ephemeralreports, clusterephemeralreports>>
PolrUpdate(cl, id, content) ==
    /\ policyreports' = Set(policyreports,
         {r \in policyreports : r.namespace = id.ns /\ r.name = id.name /\ r.clusterId = cl},
         [id |-> id, content |-> content])
    /\ UNCHANGED <<clusterpolicyreports, ephemeralreports, clusterephemeralreports>>
PolrDelete(cl, id) ==
    /\ PolrGet(cl, id) # {}
    /\ policyreports' = policyreports \
         {r \in policyreports : r.namespace = id.ns /\ r.name = id.name /\ r.clusterId = cl}
    /\ UNCHANGED <<clusterpolicyreports, ephemeralreports, clusterephemeralreports>>

(* clusterpolicyreports: PRIMARY KEY (name, clusterId) *)

CpolrList(cl) == {r \in clusterpolicyreports : r.clusterId = cl}
CpolrGet(cl, id) == {r \in clusterpolicyreports : r.name = id.name /\ r.clusterId = cl}
CpolrCreate(cl, id, content) ==
    /\ ~\E r \in clusterpolicyreports : <<r.name, r.clusterId>> = <<id.name, cl>>
    /\ clusterpolicyreports' = clusterpolicyreports \cup {ClusterRow(cl, id, content)}
    /\ UNCHANGED <<policyreports, ephemeralreports, clusterephemeralreports>>

\* Mutant of CpolrUpdate: the WHERE clause forgets the cluster.
CpolrUpdateAnyCluster(cl, id, content) ==
    /\ clusterpolicyreports' = Set(clusterpolicyreports,
         {r \in clusterpolicyreports : r.name = id.name}, [id |-> id, content |-> content])
    /\ UNCHANGED <<policyreports, ephemeralreports, clusterephemeralreports>>

CpolrUpdate(cl, id, content) ==
    /\ clusterpolicyreports' = Set(clusterpolicyreports,
         {r \in clusterpolicyreports : r.name = id.name /\ r.clusterId = cl},
         [id |-> id, content |-> content])
    /\ UNCHANGED <<policyreports, ephemeralreports, clusterephemeralreports>>
CpolrDelete(cl, id) ==
    /\ CpolrGet(cl, id) # {}
    /\ clusterpolicyreports' = clusterpolicyreports \
         {r \in clusterpolicyreports : r.name = id.name /\ r.clusterId = cl}
    /\ UNCHANGED <<policyreports, ephemeralreports, clusterephemeralreports>>

(* ephemeralreports: PRIMARY KEY (name, namespace, clusterId) *)

\* Mutant of EphrList: the list of all namespaces is that of all clusters.
EphrListAllClusters(cl, ns) ==
    {r \in ephemeralreports : ns # AllNamespaces => r.namespace = ns /\ r.clusterId = cl}

EphrList(cl, ns) ==
    {r \in ephemeralreports : (ns # AllNamespaces => r.namespace = ns) /\ r.clusterId = cl}
EphrGet(cl, id) ==
    {r \in ephemeralreports : r.namespace = id.ns /\ r.name = id.name /\ r.clusterId = cl}
EphrCreate(cl, id, content) ==
    /\ ~\E r \in ephemeralreports : <<r.name, r.namespace, r.clusterId>> = <<id.name, id.ns, cl>>
    /\ ephemeralreports' = ephemeralreports \cup {NamespacedRow(cl, id, content)}
    /\ UNCHANGED <<policyreports, clusterpolicyreports, clusterephemeralreports>>
EphrUpdate(cl, id, content) ==
    /\ ephemeralreports' = Set(ephemeralreports,
         {r \in ephemeralreports : r.namespace = id.ns /\ r.name = id.name /\ r.clusterId = cl},
         [id |-> id, content |-> content])
    /\ UNCHANGED <<policyreports, clusterpolicyreports, clusterephemeralreports>>
EphrDelete(cl, id) ==
    /\ EphrGet(cl, id) # {}
    /\ ephemeralreports' = ephemeralreports \
         {r \in ephemeralreports : r.namespace = id.ns /\ r.name = id.name /\ r.clusterId = cl}
    /\ UNCHANGED <<policyreports, clusterpolicyreports, clusterephemeralreports>>

(* clusterephemeralreports: PRIMARY KEY (name, clusterId) *)

CephrList(cl) == {r \in clusterephemeralreports : r.clusterId = cl}
CephrGet(cl, id) == {r \in clusterephemeralreports : r.name = id.name /\ r.clusterId = cl}
CephrCreate(cl, id, content) ==
    /\ ~\E r \in clusterephemeralreports : <<r.name, r.clusterId>> = <<id.name, cl>>
    /\ clusterephemeralreports' = clusterephemeralreports \cup {ClusterRow(cl, id, content)}
    /\ UNCHANGED <<policyreports, clusterpolicyreports, ephemeralreports>>
CephrUpdate(cl, id, content) ==
    /\ clusterephemeralreports' = Set(clusterephemeralreports,
         {r \in clusterephemeralreports : r.name = id.name /\ r.clusterId = cl},
         [id |-> id, content |-> content])
    /\ UNCHANGED <<policyreports, clusterpolicyreports, ephemeralreports>>
CephrDelete(cl, id) ==
    /\ CephrGet(cl, id) # {}
    /\ clusterephemeralreports' = clusterephemeralreports \
         {r \in clusterephemeralreports : r.name = id.name /\ r.clusterId = cl}
    /\ UNCHANGED <<policyreports, clusterpolicyreports, ephemeralreports>>

-----------------------------------------------------------------------------
(* The methods, by the kind of the report they are for *)

Get(cl, id) ==
    CASE id.kind = "polr"  -> Reported(PolrGet(cl, id))
      [] id.kind = "cpolr" -> Reported(CpolrGet(cl, id))
      [] id.kind = "ephr"  -> Reported(EphrGet(cl, id))
      [] id.kind = "cephr" -> Reported(CephrGet(cl, id))

List(cl, kind, ns) ==
    CASE kind = "polr"  -> Reported(PolrList(cl, ns))
      [] kind = "cpolr" -> Reported(CpolrList(cl))
      [] kind = "ephr"  -> Reported(EphrList(cl, ns))
      [] kind = "cephr" -> Reported(CephrList(cl))

RowCount == Cardinality(policyreports) + Cardinality(clusterpolicyreports)
            + Cardinality(ephemeralreports) + Cardinality(clusterephemeralreports)

\* A Create that the primary key refuses, and a Delete whose Get finds no row,
\* change nothing.  An Update of no row succeeds.
Create(cl, id, content) ==
    /\ RowCount < MaxRows
    /\ \/ id.kind = "polr"  /\ PolrCreate(cl, id, content)
       \/ id.kind = "cpolr" /\ CpolrCreate(cl, id, content)
       \/ id.kind = "ephr"  /\ EphrCreate(cl, id, content)
       \/ id.kind = "cephr" /\ CephrCreate(cl, id, content)
    /\ written' = [written EXCEPT ![cl][id] = content]
Update(cl, id, content) ==
    /\ \/ id.kind = "polr"  /\ PolrUpdate(cl, id, content)
       \/ id.kind = "cpolr" /\ CpolrUpdate(cl, id, content)
       \/ id.kind = "ephr"  /\ EphrUpdate(cl, id, content)
       \/ id.kind = "cephr" /\ CephrUpdate(cl, id, content)
    /\ written' = [written EXCEPT ![cl][id] = IF @ = NoContent THEN @ ELSE content]
Delete(cl, id) ==
    /\ \/ id.kind = "polr"  /\ PolrDelete(cl, id)
       \/ id.kind = "cpolr" /\ CpolrDelete(cl, id)
       \/ id.kind = "ephr"  /\ EphrDelete(cl, id)
       \/ id.kind = "cephr" /\ CephrDelete(cl, id)
    /\ written' = [written EXCEPT ![cl][id] = NoContent]

Init ==
    /\ policyreports = {} /\ clusterpolicyreports = {}
    /\ ephemeralreports = {} /\ clusterephemeralreports = {}
    /\ written = [cl \in Clusters |-> [id \in Ids |-> NoContent]]

Next == \E cl \in Clusters, id \in Ids :
          \/ \E content \in Contents : Create(cl, id, content) \/ Update(cl, id, content)
          \/ Delete(cl, id)

Spec == Init /\ [][Next]_vars

-----------------------------------------------------------------------------
(* Properties *)

\* Get of a report finds at most one row, and in it what the last successful
\* call of this cluster for this very report left: no statement of any kind
\* reaches a report of the same name in another namespace, kind or cluster.
GetsOwn ==
    \A cl \in Clusters, id \in Ids :
      Get(cl, id) = IF written[cl][id] = NoContent THEN {}
                    ELSE {[id |-> id, content |-> written[cl][id]]}

\* List of a kind, in one namespace or in all, returns exactly the reports of
\* that kind that this cluster has.
ListsOwn ==
    \A cl \in Clusters, kind \in Kinds, ns \in Namespaces \cup {AllNamespaces} :
      ns = AllNamespaces \/ kind \in Namespaced =>
        List(cl, kind, ns) =
          {[id |-> id, content |-> written[cl][id]] :
             id \in {i \in Ids : /\ i.kind = kind /\ written[cl][i] # NoContent
                                 /\ ns = AllNamespaces \/ i.ns = ns}}

-----------------------------------------------------------------------------
(* The inductive invariant behind them *)

Row(cl, id, content) ==
    IF id.kind \in Namespaced THEN NamespacedRow(cl, id, content) ELSE ClusterRow(cl, id, content)

\* A table holds, of its kind, the reports that were written and not deleted,
\* and nothing else.
Holds(table, kind, reports) ==
    /\ \A r \in table : \E cl \in Clusters, id \in Ids :
         id.kind = kind /\ reports[cl][id] # NoContent /\ r = Row(cl, id, reports[cl][id])
    /\ \A cl \in Clusters, id \in Ids :
         id.kind = kind /\ reports[cl][id] # NoContent => Row(cl, id, reports[cl][id]) \in table

TablesInv ==
    /\ written \in [Clusters -> [Ids -> Contents \cup {NoContent}]]
    /\ Holds(policyreports, "polr", written)
    /\ Holds(clusterpolicyreports, "cpolr", written)
    /\ Holds(ephemeralreports, "ephr", written)
    /\ Holds(clusterephemeralreports, "cephr", written)

=============================================================================
