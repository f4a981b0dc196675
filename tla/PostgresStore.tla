--------------------------- MODULE PostgresStore ----------------------------
(***************************************************************************)
(* The Postgres backend for one report kind (pkg/storage/db/polr.go and    *)
(* its three siblings) and its read replicas (multiDB.go).  Every write is *)
(* one statement on the primary, made under the mutex of the process.      *)
(* Reads take no mutex; they ask the replicas in a random order and the    *)
(* primary when all of them fail, and a replica answers with a state that  *)
(* the primary has had.  Delete reads, in the same way, before it writes.  *)
(* The kind's table is the rows of one clusterId: every statement names it.*)
(***************************************************************************)
EXTENDS Integers, Sequences, FiniteSets

CONSTANTS
    Callers, Keys, NsOf, AllNamespaces, Reports, NoReport, Faults,  \* as in ReportStore
    Procs,          \* server processes that use the same database
    ProcOf,         \* the process a caller runs in
    Nobody,         \* "the mutex is free"
    Replicas,       \* the read replicas
    BrokenStreams,  \* TRUE: a connection may break while rows are read
    MaxWrites       \* bound on the states of the primary

VARIABLES
    log,        \* the states the table has had on the primary
    pos,        \* how much of the log each replica has applied
    mutex,      \* who holds the mutex of each process
    thread      \* each caller's place in its method, arguments and result

vars == <<log, pos, mutex, thread>>

Primary == log[Len(log)]

\* The promise of the interface, with a call's effect placed at the statement
\* that decides it.
Promise(t) ==
    [st |-> IF t.pc = "idle" THEN "idle" ELSE IF t.pc = "return" THEN "done" ELSE "called",
     args |-> t.args, res |-> t.res]
Abstract == INSTANCE ReportStore WITH
    StrictUpdate <- FALSE,
    db <- Primary,
    call <- [c \in Callers |-> Promise(thread[c])]

ASSUME PostgresStoreAssumption ==
    /\ Keys # {}
    /\ NoReport \notin Reports
    /\ ProcOf \in [Callers -> Procs]
    /\ Nobody \notin Callers
    /\ Faults \in BOOLEAN /\ BrokenStreams \in BOOLEAN
    /\ MaxWrites \in Nat

Tables == [Keys -> Reports \cup {NoReport}]
Places == {"idle", "lock", "query", "exec", "return"}
Threads == [pc : Places, args : Abstract!Args, left : SUBSET Replicas, since : Nat \ {0},
            res : Abstract!Results]
NoThread == [pc |-> "idle", args |-> Abstract!NoArgs, left |-> {}, since |-> 1,
             res |-> Abstract!Fails("none")]

\* Create, Update and Delete hold the mutex from their first line to their
\* return; Get and List do not know of it.
Locks(a) == a.op \in {"Create", "Update", "Delete"}

\* A method that writes is under way.
Writing == {c \in Callers : thread[c].pc # "idle" /\ Locks(thread[c].args)}

-----------------------------------------------------------------------------
(* Reading *)

\* A read begins: all replicas are yet to be tried.  since, a ghost, is the
\* oldest state that one of them might show.
Oldest == CHOOSE i \in {pos[r] : r \in Replicas} \cup {Len(log)} :
            \A r \in Replicas : i <= pos[r]
Query(a) ==
    [pc |-> "query", args |-> a, left |-> Replicas, since |-> Oldest,
     res |-> Abstract!Fails("none")]

\* The method's result is fixed, its return (with the deferred Unlock) is next.
Done(c, result) ==
    thread' = [thread EXCEPT ![c] = [pc |-> "return", args |-> @.args, left |-> @.left,
                                     since |-> @.since, res |-> result]]
DbFails(c) == Faults /\ Done(c, Abstract!Fails("unavailable"))

\* The rest of Get once table d has answered the query: Scan finds a row, or
\* none, or fails.
Get(c, d) ==
    /\ thread[c].args.op = "Get"
    /\ LET key == thread[c].args.key
       IN \/ /\ d[key] # NoReport
             /\ Done(c, [err |-> "none",
                         found |-> [k \in Keys |-> IF k = key THEN d[k] ELSE NoReport]])
          \/ d[key] = NoReport /\ Done(c, Abstract!Fails("NotFound"))
          \/ DbFails(c)

\* The rows a List selects: those of a namespace, or all.
Where(ns) == {k \in Keys : ns = AllNamespaces \/ NsOf[k] = ns}

\* The rest of List: rows.Next also ends the loop when the connection breaks,
\* and rows.Err is not asked, so that what came before is the answer.
List(c, d) ==
    /\ thread[c].args.op = "List"
    /\ \/ \E shown \in SUBSET Where(thread[c].args.ns) :
            /\ shown = Where(thread[c].args.ns) \/ BrokenStreams
            /\ Done(c, [err |-> "none",
                        found |-> [k \in Keys |-> IF k \in shown THEN d[k] ELSE NoReport]])
       \/ DbFails(c)

\* The rest of the Get in Delete: an error of any kind ends the Delete (the
\* error is formatted, so errors.Is does not find sql.ErrNoRows in it).
DeleteRead(c, d) ==
    /\ thread[c].args.op = "Delete"
    /\ \/ d[thread[c].args.key] # NoReport /\ thread' = [thread EXCEPT ![c].pc = "exec"]
       \/ d[thread[c].args.key] = NoReport /\ Done(c, Abstract!Fails("NotFound"))
       \/ DbFails(c)

Rows(c, d) == Get(c, d) \/ List(c, d) \/ DeleteRead(c, d)

\* Mutant of TryReplica: the error of a replica passes for "no rows".
TryReplicaOnce(c) ==
    /\ thread[c].pc = "query"
    /\ \E r \in thread[c].left :
         \/ Rows(c, log[pos[r]])
         \/ Faults /\ Rows(c, Abstract!Nothing)
    /\ UNCHANGED <<log, pos, mutex>>

\* ReadQuery and ReadQueryRow: the next replica in the shuffled order answers
\* (no row is an answer), or fails and is passed over.
TryReplica(c) ==
    /\ thread[c].pc = "query"
    /\ \E r \in thread[c].left :
         \/ Rows(c, log[pos[r]])
         \/ Faults /\ thread' = [thread EXCEPT ![c].left = @ \ {r}]
    /\ UNCHANGED <<log, pos, mutex>>

\* ... and when there is none left, the primary.
QueryPrimary(c) ==
    /\ thread[c].pc = "query" /\ thread[c].left = {}
    /\ Rows(c, Primary) \/ DbFails(c)
    /\ UNCHANGED <<log, pos, mutex>>

-----------------------------------------------------------------------------
(* Writing, and the frame of a method *)

\* A method is called.
Call(c, a) ==
    /\ thread[c].pc = "idle"
    /\ Locks(a) => Len(log) + Cardinality(Writing) <= MaxWrites
    /\ thread' = [thread EXCEPT ![c] =
                    IF Locks(a)
                    THEN [pc |-> "lock", args |-> a, left |-> {}, since |-> 1,
                          res |-> Abstract!Fails("none")]
                    ELSE Query(a)]
    /\ UNCHANGED <<log, pos, mutex>>

\* Mutant of Lock: the method does not wait for the mutex.
LockWithoutWaiting(c) ==
    /\ thread[c].pc = "lock"
    /\ mutex' = [mutex EXCEPT ![ProcOf[c]] = c]
    /\ thread' = [thread EXCEPT ![c] =
                    IF @.args.op = "Delete" THEN Query(@.args) ELSE [@ EXCEPT !.pc = "exec"]]
    /\ UNCHANGED <<log, pos>>

\* p.Lock(); Delete goes on to read.
Lock(c) ==
    /\ thread[c].pc = "lock" /\ mutex[ProcOf[c]] = Nobody
    /\ mutex' = [mutex EXCEPT ![ProcOf[c]] = c]
    /\ thread' = [thread EXCEPT ![c] =
                    IF @.args.op = "Delete" THEN Query(@.args) ELSE [@ EXCEPT !.pc = "exec"]]
    /\ UNCHANGED <<log, pos>>

Writes(table) == log' = Append(log, table)

\* Mutant of Insert: the row is put in place of one that is there.
InsertOverwrites(c) ==
    /\ thread[c].args.op = "Create"
    /\ Writes([Primary EXCEPT ![thread[c].args.key] = thread[c].args.obj])
    /\ Done(c, Abstract!Fails("none")) \/ DbFails(c)

\* INSERT: the primary key refuses a row that is there.
Insert(c) ==
    /\ thread[c].args.op = "Create"
    /\ LET a == thread[c].args
       IN \/ /\ Primary[a.key] = NoReport
             /\ Writes([Primary EXCEPT ![a.key] = a.obj])
             /\ Done(c, Abstract!Fails("none")) \/ DbFails(c)
          \/ /\ Primary[a.key] # NoReport
             /\ UNCHANGED log
             /\ Done(c, Abstract!Fails("AlreadyExists"))

\* UPDATE: success, whether or not it found the row.
Update(c) ==
    /\ thread[c].args.op = "Update"
    /\ LET a == thread[c].args
       IN IF Primary[a.key] # NoReport
          THEN Writes([Primary EXCEPT ![a.key] = a.obj])
          ELSE UNCHANGED log
    /\ Done(c, Abstract!Fails("none")) \/ DbFails(c)

\* DELETE: the same.
Delete(c) ==
    /\ thread[c].args.op = "Delete"
    /\ LET a == thread[c].args
       IN IF Primary[a.key] # NoReport
          THEN Writes([Primary EXCEPT ![a.key] = NoReport])
          ELSE UNCHANGED log
    /\ Done(c, Abstract!Fails("none")) \/ DbFails(c)

\* PrimaryDB.Exec runs the statement, or fails before it had an effect.
Exec(c) ==
    /\ thread[c].pc = "exec"
    /\ \/ Insert(c) \/ Update(c) \/ Delete(c)
       \/ UNCHANGED log /\ DbFails(c)
    /\ UNCHANGED <<pos, mutex>>

\* Mutant of Return: Delete forgets the mutex when its Get finds no row.
ReturnUnlessMissing(c) ==
    /\ thread[c].pc = "return"
    /\ mutex' = IF Locks(thread[c].args) /\ thread[c].res.err # "NotFound"
                THEN [mutex EXCEPT ![ProcOf[c]] = Nobody] ELSE mutex
    /\ thread' = [thread EXCEPT ![c] = NoThread]
    /\ UNCHANGED <<log, pos>>

\* The method returns; the deferred Unlock runs first.
Return(c) ==
    /\ thread[c].pc = "return"
    /\ mutex' = IF Locks(thread[c].args) THEN [mutex EXCEPT ![ProcOf[c]] = Nobody] ELSE mutex
    /\ thread' = [thread EXCEPT ![c] = NoThread]
    /\ UNCHANGED <<log, pos>>

\* Mutant of Replicate: the replica is promoted to states of its own.
ReplicateAhead(r) ==
    /\ pos[r] <= MaxWrites
    /\ pos' = [pos EXCEPT ![r] = @ + 1]
    /\ UNCHANGED <<log, mutex, thread>>

\* A replica applies the next change of the primary.
Replicate(r) ==
    /\ pos[r] < Len(log)
    /\ pos' = [pos EXCEPT ![r] = @ + 1]
    /\ UNCHANGED <<log, mutex, thread>>

-----------------------------------------------------------------------------
Init ==
    /\ log \in {<<table>> : table \in Tables}
    /\ pos = [r \in Replicas |-> 1]
    /\ mutex = [p \in Procs |-> Nobody]
    /\ thread = [c \in Callers |-> NoThread]

\* What a method does on its own, once it does not wait for the mutex.
Step(c) == TryReplica(c) \/ QueryPrimary(c) \/ Exec(c) \/ Return(c)

Next ==
    \/ \E c \in Callers : (\E a \in Abstract!Args : Call(c, a)) \/ Lock(c) \/ Step(c)
    \/ \E r \in Replicas : Replicate(r)

Spec == Init /\ [][Next]_vars

\* Databases answer a statement or fail it, and the runtime's mutex does not
\* starve a waiting goroutine.  Nothing obliges a replica to catch up.
FairSpec == Spec /\ \A c \in Callers : WF_vars(Step(c)) /\ SF_vars(Lock(c))

-----------------------------------------------------------------------------
(* Properties *)

\* Every variable has its type; no replica is ahead of the primary.
TypeOK ==
    /\ log \in Seq(Tables) /\ log # <<>>
    /\ pos \in [Replicas -> 1..Len(log)]
    /\ mutex \in [Procs -> Callers \cup {Nobody}]
    /\ thread \in [Callers -> Threads]

\* The rows of table d that a call with arguments a asks for.
Asked(d, a) ==
    [k \in Keys |-> IF (a.op = "Get" /\ k = a.key) \/ (a.op = "List" /\ k \in Where(a.ns))
                    THEN d[k] ELSE NoReport]

\* What a finished method says of the table was so at one moment since it
\* began to read, if not on the primary then on the slowest replica.
WithinLag(t) ==
    t.pc = "return" =>
      /\ t.res.err = "none" /\ t.args.op \in {"Get", "List"} =>
           \E i \in t.since .. Len(log) :
             \A k \in Keys :
               \/ t.res.found[k] = Asked(log[i], t.args)[k]
               \/ BrokenStreams /\ t.args.op = "List" /\ t.res.found[k] = NoReport
      /\ t.res.err = "NotFound" =>
           \E i \in t.since .. Len(log) : log[i][t.args.key] = NoReport

\* A read shows one state that the table has had, no older than what the
\* slowest replica had when the read began and no mixture of several, however
\* many replicas failed on the way; a list may lack rows if its connection
\* broke.  In the same sense Get and Delete are right to say "not found".
ReadsWithinLag == \A c \in Callers : WithinLag(thread[c])

\* However many servers share the database and however far the replicas lag,
\* a report appears only by a Create, is replaced only by an Update and
\* vanishes only by a Delete, and no other report with it: no call undoes what
\* its statement has not found.
OnlyCreatesCreate ==
    [][log' # log =>
         \E c \in Callers :
           LET k == thread[c].args.key
           IN /\ thread[c].pc = "exec" /\ thread'[c].pc = "return"
              /\ thread[c].args.op = CASE Primary[k] = NoReport -> "Create"
                                       [] Primary'[k] = NoReport -> "Delete"
                                       [] OTHER -> "Update"
              /\ \A j \in Keys \ {k} : Primary'[j] = Primary[j]]_vars

\* Without replicas, with one server and whole answers, the methods keep the
\* promise of the storage interface: each call behaves as if it happened at
\* one moment, although reads do not take the mutex.
KeepsPromise == Abstract!Spec

\* Every call returns: the search for a replica that answers comes to an end,
\* and no way out of a method keeps the mutex.
CallsReturn == \A c \in Callers : thread[c].pc # "idle" ~> thread[c].pc = "idle"

-----------------------------------------------------------------------------
(* The inductive invariants behind ReadsWithinLag and KeepsPromise          *)

\* No replica that a read may still ask is behind where the read began.
Trusted(t) ==
    t.pc = "query" => t.since \in 1..Len(log) /\ \A r \in t.left : t.since <= pos[r]

ReadInv == TypeOK /\ \A c \in Callers : Trusted(thread[c]) /\ WithinLag(thread[c])

\* One server without replicas, and no connection that breaks within an answer.
Plain ==
    /\ \A c, d \in Callers : ProcOf[c] = ProcOf[d]
    /\ Replicas = {} /\ ~BrokenStreams

\* A method that writes holds the mutex of its process until it returns.
MutexHeld ==
    \A c \in Callers :
      thread[c].pc \in {"query", "exec", "return"} /\ Locks(thread[c].args) =>
        mutex[ProcOf[c]] = c

\* Only methods that write wait for the mutex and come to the statement.
WritesLock == \A c \in Callers : thread[c].pc \in {"lock", "exec"} => Locks(thread[c].args)

\* The row that Delete has read is there when it comes to delete it.
StillThere ==
    \A c \in Callers :
      thread[c].pc = "exec" /\ thread[c].args.op = "Delete" =>
        Primary[thread[c].args.key] # NoReport

\* A method that waits for the mutex has no result yet.
NoResultYet ==
    \A c \in Callers : thread[c].pc = "lock" => thread[c].res = Abstract!Fails("none")

WriteInv == TypeOK /\ MutexHeld /\ WritesLock /\ StillThere /\ NoResultYet

-----------------------------------------------------------------------------
(* What makes CallsReturn true                                              *)

\* The call is between its Lock and its Unlock.
Inside(t) == t.pc \in {"query", "exec", "return"} /\ Locks(t.args)

\* Whoever waits for a mutex, waits for a method of its own server that is past
\* its Lock and so waits for databases only, however many servers and replicas
\* there are: no mutex is left locked by a method that is gone, and no methods
\* wait for each other.
MutexServes ==
    \A p \in Procs : mutex[p] # Nobody => ProcOf[mutex[p]] = p /\ Inside(thread[mutex[p]])

LockInv == MutexHeld /\ WritesLock /\ MutexServes

\* From place t to place u: a later line of the method, its return, the next
\* call, or a replica fewer to be asked.
Onwards(t, u) ==
    \/ <<t.pc, u.pc>> \in {"idle"} \X {"lock", "query"} \cup {"lock"} \X {"query", "exec"}
                          \cup {"query"} \X {"exec", "return"}
                          \cup {<<"exec", "return">>, <<"return", "idle">>}
    \/ /\ t.pc = "query" /\ u.pc = "query" /\ u.args = t.args
       /\ u.left # t.left /\ u.left \subseteq t.left

\* A call never comes back to a line it has left: it asks no replica twice and
\* makes at most one statement on the primary, whatever fails on the way.
CallsGoForward == [][\A c \in Callers : thread'[c] # thread[c] => Onwards(thread[c], thread'[c])]_vars

=============================================================================
