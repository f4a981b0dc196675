--------------------------- MODULE InMemoryStore ----------------------------
(***************************************************************************)
(* The in-memory backend for one report kind (pkg/storage/inmemory): a Go  *)
(* map from text keys to compressed reports, looked at and changed under   *)
(* the mutex of the kind.  As in EtcdKeys, text is a sequence of letters,  *)
(* and namespaces and names are words without a slash.                     *)
(***************************************************************************)
EXTENDS Naturals, Sequences, SequencesExt

CONSTANTS
    Callers,        \* goroutines that call the store
    Kind,           \* the letter for the word each key of this kind begins with
    Keys,           \* namespace (empty for the cluster's kinds) and name of each report
    Reports,        \* the reports
    NoReport,       \* "there is no report"
    Nobody          \* "the mutex is free"

VARIABLES
    storage,    \* the map: a function on the text keys present
    mutex,      \* who holds it
    thread      \* each caller's place in its method, arguments and result

vars == <<storage, mutex, thread>>

\* "polr/<namespace>/<name>" or "cpolr/<name>".
key(k) == IF k.ns = <<>> THEN <<Kind, "/">> \o k.name
          ELSE <<Kind, "/">> \o k.ns \o <<"/">> \o k.name

\* The bytes in the map, and the report read back from them.
compressData(obj) == [lzw |-> obj]
decompressData(data) == data.lzw

\* db.Get; an entry that is missing reads as no report.
Lookup(text) == IF text \in DOMAIN storage THEN decompressData(storage[text]) ELSE NoReport

\* The promise of the interface, with a call's effect placed where it looks
\* at the map for the last time.
Promise(t) ==
    [st |-> IF t.pc = "idle" THEN "idle" ELSE IF t.pc = "unlock" THEN "done" ELSE "called",
     args |-> t.args, res |-> t.res]
Abstract == INSTANCE ReportStore WITH
    NsOf <- [k \in Keys |-> k.ns],
    AllNamespaces <- <<>>,
    StrictUpdate <- TRUE,
    Faults <- FALSE,
    db <- [k \in Keys |-> Lookup(key(k))],
    call <- [c \in Callers |-> Promise(thread[c])]

NoThread == [pc |-> "idle", args |-> Abstract!NoArgs, res |-> Abstract!Fails("none")]

-----------------------------------------------------------------------------
(* One method *)

Call(c, a) ==
    /\ thread[c].pc = "idle"
    /\ thread' = [thread EXCEPT ![c] = [pc |-> "lock", args |-> a, res |-> Abstract!Fails("none")]]
    /\ UNCHANGED <<storage, mutex>>

\* Mutant of Lock: the method does not wait for the mutex.
LockWithoutWaiting(c) ==
    /\ thread[c].pc = "lock"
    /\ mutex' = c
    /\ thread' = [thread EXCEPT ![c].pc = "look"]
    /\ UNCHANGED storage

Lock(c) ==
    /\ thread[c].pc = "lock" /\ mutex = Nobody
    /\ mutex' = c
    /\ thread' = [thread EXCEPT ![c].pc = "look"]
    /\ UNCHANGED storage

\* The method's result is fixed, the deferred Unlock is next.
Done(c, result) ==
    thread' = [thread EXCEPT ![c] = [pc |-> "unlock", args |-> @.args, res |-> result]]

\* The keys that List takes: of one namespace, by their beginning, or all.
Listed(ns) == {text \in DOMAIN storage : ns = <<>> \/ IsPrefix(<<Kind, "/">> \o ns \o <<"/">>, text)}

List(c) ==
    /\ thread[c].pc = "look" /\ thread[c].args.op = "List"
    /\ Done(c, [err |-> "none",
                found |-> [k \in Keys |-> IF key(k) \in Listed(thread[c].args.ns)
                                          THEN Lookup(key(k)) ELSE NoReport]])
    /\ UNCHANGED <<storage, mutex>>

Get(c) ==
    /\ thread[c].pc = "look" /\ thread[c].args.op = "Get"
    /\ LET found == Lookup(key(thread[c].args.key))
       IN IF found # NoReport
          THEN Done(c, [err |-> "none",
                        found |-> [k \in Keys |-> IF k = thread[c].args.key THEN found ELSE NoReport]])
          ELSE Done(c, Abstract!Fails("NotFound"))
    /\ UNCHANGED <<storage, mutex>>

\* Create, Update and Delete look whether the entry is there before they
\* change the map.
Look(c) ==
    /\ thread[c].pc = "look" /\ thread[c].args.op \in {"Create", "Update", "Delete"}
    /\ LET there == Lookup(key(thread[c].args.key)) # NoReport
       IN \/ /\ thread[c].args.op = "Create" /\ there
             /\ Done(c, Abstract!Fails("AlreadyExists"))
          \/ /\ thread[c].args.op # "Create" /\ ~there
             /\ Done(c, Abstract!Fails("NotFound"))
          \/ /\ thread[c].args.op = "Create" <=> ~there
             /\ thread' = [thread EXCEPT ![c].pc = "store"]
    /\ UNCHANGED <<storage, mutex>>

Store(c) ==
    /\ thread[c].pc = "store" /\ thread[c].args.op \in {"Create", "Update"}
    /\ LET entry == key(thread[c].args.key)
       IN storage' = [text \in DOMAIN storage \cup {entry} |->
                        IF text = entry THEN compressData(thread[c].args.obj) ELSE storage[text]]
    /\ Done(c, Abstract!Fails("none"))
    /\ UNCHANGED mutex

Delete(c) ==
    /\ thread[c].pc = "store" /\ thread[c].args.op = "Delete"
    /\ storage' = [text \in DOMAIN storage \ {key(thread[c].args.key)} |-> storage[text]]
    /\ Done(c, Abstract!Fails("none"))
    /\ UNCHANGED mutex

Unlock(c) ==
    /\ thread[c].pc = "unlock"
    /\ mutex' = Nobody
    /\ thread' = [thread EXCEPT ![c] = NoThread]
    /\ UNCHANGED storage

Init ==
    /\ storage = [text \in {} |-> NoReport]
    /\ mutex = Nobody
    /\ thread = [c \in Callers |-> NoThread]

Next == \E c \in Callers :
          \/ \E a \in Abstract!Args : Call(c, a)
          \/ Lock(c) \/ List(c) \/ Get(c) \/ Look(c) \/ Store(c) \/ Delete(c) \/ Unlock(c)

Spec == Init /\ [][Next]_vars

-----------------------------------------------------------------------------
(* Properties *)

\* The methods keep the promise of the storage interface: each call behaves
\* as if it happened at one moment, no two reports share an entry, and a list
\* of a namespace has no report of another.
KeepsPromise == Abstract!Spec

Threads == [pc : {"idle", "lock", "look", "store", "unlock"},
            args : Abstract!Args, res : Abstract!Results]

\* The inductive invariant behind KeepsPromise: a caller inside a method holds
\* the mutex, and what it saw of its entry is still true when it changes it.
StoreInv ==
    /\ \A text \in DOMAIN storage : storage[text] \in [lzw : Reports]
    /\ thread \in [Callers -> Threads]
    /\ \A c \in Callers : thread[c].pc \in {"look", "store", "unlock"} => mutex = c
    /\ \A c \in Callers : thread[c].pc = "store" =>
          /\ thread[c].args.op \in {"Create", "Update", "Delete"}
          /\ thread[c].args.op = "Create" <=> Lookup(key(thread[c].args.key)) = NoReport

=============================================================================
