----------------------------- MODULE Keyspaces ------------------------------
(***************************************************************************)
(* The places where the names of reports, and the settings of a database,  *)
(* become keys, columns or text, and are looked up or taken apart again:   *)
(* EtcdKeys, PostgresTables, InMemoryStore and ConnectionString.  They     *)
(* share no state; a behavior is one of a single part.                     *)
(***************************************************************************)
EXTENDS Naturals, Sequences

CONSTANTS
    Alphabet, MaxWord,              \* the words that name namespaces and reports
    Contents, NoContent,            \* what a report may say
    MaxReports,                     \* bound: reports in etcd at a time
    Clusters,                       \* those that share a Postgres database
    MaxRows,                        \* bound: rows in Postgres at a time
    Kind, MaxName,                  \* the in-memory map: its kind, and its names
    Callers, Nobody,                \* goroutines that use the map
    Letters, MaxPassword,           \* of a user and a password
    HostNames, MaxHosts, Ports      \* of a database

\* Neither a namespace nor a name has a slash in it.
ASSUME KeyspacesAssumption ==
    /\ "/" \notin Alphabet /\ Alphabet # {}
    /\ MaxWord \in Nat \ {0} /\ MaxName \in Nat \ {0}
    /\ NoContent \notin Contents
    /\ Nobody \notin Callers

VARIABLES
    part,
    etcd, written,
    policyreports, clusterpolicyreports, ephemeralreports, clusterephemeralreports, rowsWritten,
    storage, mutex, thread,
    config, text, read

\* The words of one to n letters.  The empty word is no namespace: with it the
\* backends mean all of them.
Words(n) == UNION {[1 .. m -> Alphabet] : m \in 1 .. n}

Etcd == INSTANCE EtcdKeys WITH Namespaces <- Words(MaxWord), Names <- Words(MaxWord)
Postgres == INSTANCE PostgresTables WITH
    Namespaces <- Words(MaxWord), Names <- Words(MaxWord), AllNamespaces <- <<>>,
    written <- rowsWritten
\* The reports of the kind in memory.
MemoryKeys == [ns : IF Kind \in {"polr", "ephr"} THEN Words(MaxWord) ELSE {<<>>},
               name : Words(MaxName)]
Memory == INSTANCE InMemoryStore WITH
    Keys <- MemoryKeys, Reports <- Contents, NoReport <- NoContent
Url == INSTANCE ConnectionString WITH
    Hosts <- UNION {[1 .. m -> HostNames] : m \in 1 .. MaxHosts}

\* A letter is one character, and never the two digits behind a percent sign;
\* no host name and no port has a character in it that ends it in a URL.
ASSUME SettingsAssumption ==
    /\ Letters \cap Url!Digits = {}
    /\ (HostNames \cup Ports) \cap {"/", "@", ","} = {}
    /\ MaxPassword \in Nat /\ MaxHosts \in Nat

etcdVars == <<etcd, written>>
postgresVars == <<policyreports, clusterpolicyreports, ephemeralreports, clusterephemeralreports,
                  rowsWritten>>
memoryVars == <<storage, mutex, thread>>
urlVars == <<config, text, read>>
vars == <<part, etcdVars, postgresVars, memoryVars, urlVars>>

\* The settings, where they do not matter.
NoConfig == [user |-> <<>>, password |-> <<>>, host |-> <<>>, port |-> "0"]

Init ==
    /\ part \in {"etcd", "postgres", "memory", "url"}
    /\ Etcd!Init /\ Postgres!Init /\ Memory!Init
    /\ IF part = "url" THEN Url!Init
       ELSE config = NoConfig /\ text = <<>> /\ read = Url!Unreadable

Next ==
    /\ \/ part = "etcd" /\ Etcd!Next /\ UNCHANGED <<postgresVars, memoryVars, urlVars>>
       \/ part = "postgres" /\ Postgres!Next /\ UNCHANGED <<etcdVars, memoryVars, urlVars>>
       \/ part = "memory" /\ Memory!Next /\ UNCHANGED <<etcdVars, postgresVars, urlVars>>
       \/ part = "url" /\ Url!Open /\ UNCHANGED <<etcdVars, postgresVars, memoryVars>>
    /\ UNCHANGED part

Spec == Init /\ [][Next]_vars

-----------------------------------------------------------------------------
(* Properties *)

\* Get of a report, of whichever kind and in either database, returns what the
\* last successful call for this very report of this cluster left: no two
\* reports share a key, and no statement reaches a row that is not its own.
GetsOwn ==
    /\ part = "etcd" => Etcd!GetsOwn
    /\ part = "postgres" => Postgres!GetsOwn

\* List of a kind, in one namespace or in all, returns exactly the reports of
\* that kind: no prefix reaches into another kind or into a namespace whose
\* name begins alike, and no statement into another cluster.
ListsOwn ==
    /\ part = "etcd" => Etcd!ListsOwn
    /\ part = "postgres" => Postgres!ListsOwn

\* The in-memory backend keeps the promise of the storage interface.
MemoryKeepsPromise == Memory!KeepsPromise

\* The driver logs in with the configured user and password, whatever they are
\* (Url!CredentialsSurvive); it does not hold.
CredentialsSurvive == part = "url" => Url!CredentialsSurvive

\* The driver reads the configured user and password, if they have no space in
\* them, and the hosts out of the URL.
SettingsSurvive == part = "url" => Url!SettingsSurvive

\* The inductive invariant behind the four.
KeyspacesInv ==
    /\ Etcd!KeysInv /\ Postgres!TablesInv /\ Memory!StoreInv
    /\ part = "url" => Url!SettingsInv

=============================================================================
