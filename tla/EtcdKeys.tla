------------------------------ MODULE EtcdKeys ------------------------------
(***************************************************************************)
(* The one etcd keyspace that the stores of all four report kinds share    *)
(* (pkg/storage/etcd: getPrefix, getKey, New; pkg/utils/constants.go).     *)
(* Each method is one step here: EtcdStore has its requests and mutex.     *)
(* Text is a sequence of letters; a group, a version, a kind and the slash *)
(* are one letter each, namespaces and names are words without a slash.    *)
(***************************************************************************)
EXTENDS Naturals, Sequences, SequencesExt, FiniteSets

CONSTANTS
    Namespaces,     \* words that name a namespace
    Names,          \* words that name a report
    Contents,       \* what a report may say
    NoContent,      \* "there is no report"
    MaxReports      \* bound: reports that are there at a time

VARIABLES
    etcd,       \* the keys and values of etcd: a function on the keys present
    written     \* for each report of each kind, what its own last call left

vars == <<etcd, written>>

Namespaced == {"polr", "ephr"}
Kinds == Namespaced \cup {"cpolr", "cephr"}

\* The reports the API can address, namespaced or not.
Ids == [kind : Namespaced, ns : Namespaces, name : Names]
       \cup [kind : Kinds \ Namespaced, ns : {<<>>}, name : Names]

-----------------------------------------------------------------------------
(* Keys *)

\* Mutant of Gvk: the API group is left out.
GvkWithoutGroup(kind) ==
    CASE kind = "polr"  -> <<"any group", "v1alpha2", "PolicyReport">>
      [] kind = "cpolr" -> <<"any group", "v1alpha2", "ClusterEphemeralReport">>
      [] kind = "ephr"  -> <<"any group", "v1alpha2", "EphemeralReport">>
      [] kind = "cephr" -> <<"any group", "v1alpha2", "ClusterEphemeralReport">>

\* The group, version and kind that each store is made with; the one of
\* cluster policy reports names the kind of cluster ephemeral reports.
Gvk(kind) ==
    CASE kind = "polr"  -> <<"wgpolicyk8s.io", "v1alpha2", "PolicyReport">>
      [] kind = "cpolr" -> <<"wgpolicyk8s.io", "v1alpha2", "ClusterEphemeralReport">>
      [] kind = "ephr"  -> <<"reports.kyverno.io", "v1", "EphemeralReport">>
      [] kind = "cephr" -> <<"reports.kyverno.io", "v1", "ClusterEphemeralReport">>

KindPrefix(kind) ==
    <<Gvk(kind)[1], "/", Gvk(kind)[2], "/", Gvk(kind)[3], "/">>

\* Mutant of getPrefix: no slash after the namespace.
getPrefixOpen(kind, ns) == KindPrefix(kind) \o ns

getPrefix(kind, ns) == IF ns = <<>> THEN KindPrefix(kind) ELSE KindPrefix(kind) \o ns \o <<"/">>

getKey(id) == getPrefix(id.kind, id.ns) \o id.name

-----------------------------------------------------------------------------
(* The methods *)

\* What Get of a report returns.
Get(id) == IF getKey(id) \in DOMAIN etcd THEN etcd[getKey(id)].content ELSE NoContent

\* The values List returns: of the keys that begin with the prefix.
List(kind, ns) == {etcd[key] : key \in {k \in DOMAIN etcd : IsPrefix(getPrefix(kind, ns), k)}}

Put(id, content) ==
    /\ etcd' = [key \in DOMAIN etcd \cup {getKey(id)} |->
                  IF key = getKey(id) THEN [id |-> id, content |-> content] ELSE etcd[key]]
    /\ written' = [written EXCEPT ![id] = content]

\* A Create of a key that is there, and an Update or Delete of one that is
\* not, is refused and changes nothing.
Create(id, content) ==
    /\ getKey(id) \notin DOMAIN etcd
    /\ Cardinality(DOMAIN etcd) < MaxReports
    /\ Put(id, content)
Update(id, content) == getKey(id) \in DOMAIN etcd /\ Put(id, content)
Delete(id) ==
    /\ getKey(id) \in DOMAIN etcd
    /\ etcd' = [key \in DOMAIN etcd \ {getKey(id)} |-> etcd[key]]
    /\ written' = [written EXCEPT ![id] = NoContent]

Init ==
    /\ etcd = [key \in {} |-> NoContent]
    /\ written = [id \in Ids |-> NoContent]

Next == \E id \in Ids :
          \/ \E content \in Contents : Create(id, content) \/ Update(id, content)
          \/ Delete(id)

Spec == Init /\ [][Next]_vars

-----------------------------------------------------------------------------
(* Properties *)

\* Get of a report, of whichever kind, returns what the last successful call
\* for this very report left: no two reports share a key, although cluster
\* policy reports and cluster ephemeral reports go by the same kind.
GetsOwn == \A id \in Ids : Get(id) = written[id]

\* List of a kind, in one namespace or in all, returns exactly the reports of
\* that kind that are there: no prefix reaches into another kind or into a
\* namespace whose name begins alike.
ListsOwn ==
    \A kind \in Kinds : \A ns \in Namespaces \cup {<<>>} :
      ns = <<>> \/ kind \in Namespaced =>
        List(kind, ns) =
          {[id |-> id, content |-> written[id]] :
             id \in {i \in Ids : /\ i.kind = kind /\ written[i] # NoContent
                                 /\ ns = <<>> \/ i.ns = ns}}

-----------------------------------------------------------------------------
(* The inductive invariant behind them: etcd holds the reports that were    *)
(* written and not deleted, each under its key, and nothing else.           *)
KeysInv ==
    /\ written \in [Ids -> Contents \cup {NoContent}]
    /\ DOMAIN etcd = {getKey(id) : id \in {i \in Ids : written[i] # NoContent}}
    /\ \A id \in Ids :
         written[id] # NoContent => etcd[getKey(id)] = [id |-> id, content |-> written[id]]

=============================================================================
