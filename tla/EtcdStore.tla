----------------------------- MODULE EtcdStore ------------------------------
(***************************************************************************)
(* The etcd backend for one report kind (pkg/storage/etcd/store.go).       *)
(* Create and Update look at a key and put it in two requests to etcd; the *)
(* store's mutex, held from the first line of a method to its return, is   *)
(* what keeps the answer of the first true until the second.  The mutex    *)
(* belongs to one server process.                                          *)
(***************************************************************************)
CONSTANTS
    Callers, Keys, NsOf, AllNamespaces, Reports, NoReport, Faults,  \* as in ReportStore
    Procs,      \* server processes that use the same etcd
    ProcOf,     \* the process a caller runs in
    Nobody      \* "the mutex is free"

VARIABLES
    etcd,       \* what etcd holds under the keys of this kind
    mutex,      \* who holds the mutex of each process
    thread      \* each caller's place in its method, arguments and result

vars == <<etcd, mutex, thread>>

\* The promise of the interface, with a call's effect placed at the request
\* to etcd that decides it.
Promise(t) ==
    [st |-> IF t.pc = "idle" THEN "idle" ELSE IF t.pc = "unlock" THEN "done" ELSE "called",
     args |-> t.args, res |-> t.res]
Abstract == INSTANCE ReportStore WITH
    StrictUpdate <- TRUE,
    db <- etcd,
    call <- [c \in Callers |-> Promise(thread[c])]

Places == {"idle", "lock", "check", "put", "unlock"}
Threads == [pc : Places, args : Abstract!Args, res : Abstract!Results]
NoThread == [pc |-> "idle", args |-> Abstract!NoArgs, res |-> Abstract!Fails("none")]

ASSUME EtcdStoreAssumption ==
    /\ Keys # {}
    /\ NoReport \notin Reports
    /\ ProcOf \in [Callers -> Procs]
    /\ Nobody \notin Callers
    /\ Faults \in BOOLEAN

-----------------------------------------------------------------------------
(* One method *)

\* The method is called.
Call(c, a) ==
    /\ thread[c].pc = "idle"
    /\ thread' = [thread EXCEPT ![c] = [pc |-> "lock", args |-> a, res |-> Abstract!Fails("none")]]
    /\ UNCHANGED <<etcd, mutex>>

\* Mutant of Lock: the method does not wait for the mutex.
LockWithoutWaiting(c) ==
    /\ thread[c].pc = "lock"
    /\ mutex' = [mutex EXCEPT ![ProcOf[c]] = c]
    /\ thread' = [thread EXCEPT ![c].pc = "check"]
    /\ UNCHANGED etcd

\* o.Lock()
Lock(c) ==
    /\ thread[c].pc = "lock" /\ mutex[ProcOf[c]] = Nobody
    /\ mutex' = [mutex EXCEPT ![ProcOf[c]] = c]
    /\ thread' = [thread EXCEPT ![c].pc = "check"]
    /\ UNCHANGED etcd

\* The method's result is fixed, the deferred Unlock is next.
Done(c, result) ==
    thread' = [thread EXCEPT ![c] = [pc |-> "unlock", args |-> @.args, res |-> result]]

\* etcd fails the request without, or in doubt, with its effect.
EtcdFails(c) == Faults /\ Done(c, Abstract!Fails("unavailable"))

\* Get and List are one request; a List asks for the prefix of a namespace.
Get(c) ==
    /\ thread[c].pc = "check" /\ thread[c].args.op = "Get"
    /\ LET key == thread[c].args.key
       IN \/ /\ etcd[key] # NoReport
             /\ Done(c, [err |-> "none",
                         found |-> [k \in Keys |-> IF k = key THEN etcd[k] ELSE NoReport]])
          \/ etcd[key] = NoReport /\ Done(c, Abstract!Fails("NotFound"))
          \/ EtcdFails(c)
    /\ UNCHANGED <<etcd, mutex>>

\* Mutant of getPrefix: the namespace is left out of the prefix.
getPrefixOfKind(ns) == Keys

\* The keys that begin with the prefix of a namespace, or of the whole kind.
getPrefix(ns) == {k \in Keys : ns = AllNamespaces \/ NsOf[k] = ns}

List(c) ==
    /\ thread[c].pc = "check" /\ thread[c].args.op = "List"
    /\ \/ Done(c, [err |-> "none",
                   found |-> [k \in Keys |-> IF k \in getPrefix(thread[c].args.ns)
                                             THEN etcd[k] ELSE NoReport]])
       \/ EtcdFails(c)
    /\ UNCHANGED <<etcd, mutex>>

\* The first request of Create and of Update: is the key there?
CreateCheck(c) ==
    /\ thread[c].pc = "check" /\ thread[c].args.op = "Create"
    /\ \/ etcd[thread[c].args.key] # NoReport /\ Done(c, Abstract!Fails("AlreadyExists"))
       \/ etcd[thread[c].args.key] = NoReport /\ thread' = [thread EXCEPT ![c].pc = "put"]
       \/ EtcdFails(c)
    /\ UNCHANGED <<etcd, mutex>>

UpdateCheck(c) ==
    /\ thread[c].pc = "check" /\ thread[c].args.op = "Update"
    /\ \/ etcd[thread[c].args.key] = NoReport /\ Done(c, Abstract!Fails("NotFound"))
       \/ etcd[thread[c].args.key] # NoReport /\ thread' = [thread EXCEPT ![c].pc = "put"]
       \/ EtcdFails(c)
    /\ UNCHANGED <<etcd, mutex>>

\* The second request of both.
Put(c) ==
    /\ thread[c].pc = "put"
    /\ \/ /\ etcd' = [etcd EXCEPT ![thread[c].args.key] = thread[c].args.obj]
          /\ Done(c, Abstract!Fails("none")) \/ EtcdFails(c)
       \/ UNCHANGED etcd /\ EtcdFails(c)
    /\ UNCHANGED mutex

\* Mutant of Delete: the key is emptied, not removed.
DeleteEmpties(c) ==
    /\ thread[c].pc = "check" /\ thread[c].args.op = "Delete"
    /\ etcd' = [etcd EXCEPT ![thread[c].args.key] = "empty"]
    /\ Done(c, Abstract!Fails("none"))
    /\ UNCHANGED mutex

\* Delete is one request, whose response counts the deleted keys.
Delete(c) ==
    /\ thread[c].pc = "check" /\ thread[c].args.op = "Delete"
    /\ LET key == thread[c].args.key
       IN \/ /\ etcd' = [etcd EXCEPT ![key] = NoReport]
             /\ \/ Done(c, Abstract!Fails(IF etcd[key] = NoReport THEN "NotFound" ELSE "none"))
                \/ EtcdFails(c)
          \/ UNCHANGED etcd /\ EtcdFails(c)
    /\ UNCHANGED mutex

\* Mutant of Unlock: one way out of a method forgets the mutex.
UnlockUnlessRefused(c) ==
    /\ thread[c].pc = "unlock"
    /\ mutex' = IF thread[c].res.err = "AlreadyExists" THEN mutex
                ELSE [mutex EXCEPT ![ProcOf[c]] = Nobody]
    /\ thread' = [thread EXCEPT ![c] = NoThread]
    /\ UNCHANGED etcd

\* The deferred o.Unlock(), and the return to the caller.
Unlock(c) ==
    /\ thread[c].pc = "unlock"
    /\ mutex' = [mutex EXCEPT ![ProcOf[c]] = Nobody]
    /\ thread' = [thread EXCEPT ![c] = NoThread]
    /\ UNCHANGED etcd

\* A request to etcd and what follows it, the mutex being held.
Locked(c) == \/ Get(c) \/ List(c) \/ CreateCheck(c) \/ UpdateCheck(c)
             \/ Put(c) \/ Delete(c) \/ Unlock(c)

-----------------------------------------------------------------------------
Init ==
    /\ etcd \in [Keys -> Reports \cup {NoReport}]
    /\ mutex = [p \in Procs |-> Nobody]
    /\ thread = [c \in Callers |-> NoThread]

Next == \E c \in Callers : (\E a \in Abstract!Args : Call(c, a)) \/ Lock(c) \/ Locked(c)

Spec == Init /\ [][Next]_vars

\* etcd answers every request it is sent (the calls carry no deadline), and
\* the runtime's mutex does not starve a waiting goroutine.
Fairness == \A c \in Callers : WF_vars(Locked(c)) /\ SF_vars(Lock(c))

-----------------------------------------------------------------------------
(* Properties *)

\* Every variable has its type.
TypeOK ==
    /\ etcd \in [Keys -> Reports \cup {NoReport}]
    /\ mutex \in [Procs -> Callers \cup {Nobody}]
    /\ thread \in [Callers -> Threads]

\* What Create or Update saw of its key holds: absent for Create, present for
\* Update.
Checked(c) == thread[c].args.op = "Create" <=> etcd[thread[c].args.key] = NoReport

\* When Create or Update comes to put the key, what it saw of the key still
\* holds, so that Create overwrites nothing and Update brings nothing deleted
\* back.  (One server process.)
CheckStillTrue == \A c \in Callers : thread[c].pc = "put" => Checked(c)

\* With several server processes on one etcd the mutex no longer does this,
\* but it does all it can: what a Create or Update saw becomes false before
\* its put only by a request that another server makes.
OthersInterfere ==
    [][\A c \in Callers :
         /\ thread[c].pc = "put" /\ Checked(c)
         /\ thread'[c].pc = "put" /\ ~Checked(c)'
         => \E d \in Callers : /\ ProcOf[d] # ProcOf[c]
                               /\ thread[d].pc # "unlock" /\ thread'[d].pc = "unlock"]_vars

\* The methods keep the promise of the storage interface: each call behaves
\* as if it happened at one moment.  (One server process.)
KeepsPromise == Abstract!Spec

\* Every call of the store returns: no way out of a method keeps the mutex.
CallsReturn == \A c \in Callers : thread[c].pc # "idle" ~> thread[c].pc = "idle"

-----------------------------------------------------------------------------
(* The inductive invariants behind CheckStillTrue, OthersInterfere and      *)
(* KeepsPromise                                                             *)

\* All callers run in one server process.
OneServer == \A c, d \in Callers : ProcOf[c] = ProcOf[d]

\* Exactly the caller inside a method holds the mutex of its process.
MutexHeld ==
    \A c \in Callers : thread[c].pc \in {"check", "put", "unlock"}
                         <=> mutex[ProcOf[c]] = c

\* Only Create and Update come to the second request.
PutsOnly == \A c \in Callers : thread[c].pc = "put" => thread[c].args.op \in {"Create", "Update"}

\* Whatever the number of servers, and with one.
ServersInv == TypeOK /\ MutexHeld /\ PutsOnly
Inv == ServersInv /\ CheckStillTrue

-----------------------------------------------------------------------------
(* What makes CallsReturn true                                              *)

\* Whoever waits for a mutex, waits for a method of its own server that is past
\* its Lock and so waits for etcd only, however many servers and callers there
\* are: no mutex is left locked by a method that is gone, and no methods wait
\* for each other.
MutexServes ==
    \A p \in Procs : mutex[p] # Nobody =>
      ProcOf[mutex[p]] = p /\ thread[mutex[p]].pc \in {"check", "put", "unlock"}

=============================================================================
