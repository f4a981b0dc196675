------------------------ MODULE PostgresStoreProofs -------------------------
(***************************************************************************)
(* Proofs about PostgresStore, for any callers, keys, reports, servers and *)
(* replicas, with or without failures: what reads show of lagging replicas *)
(* and what writes may do to the table; and that without replicas, with    *)
(* one server and whole answers, the store implements the interface.       *)
(***************************************************************************)
EXTENDS PostgresStore, Induction, TLAPS

USE DEF Abstract!Nothing, Abstract!MaybeReports

-----------------------------------------------------------------------------
(* Types *)

LEMMA FailsType ==
  ASSUME NEW err \in {"none", "NotFound", "AlreadyExists", "unavailable"}
  PROVE  Abstract!Fails(err) \in Abstract!Results
  BY DEF Abstract!Fails, Abstract!Results, Abstract!Errors

LEMMA NoThreadType == NoThread \in Threads
  <1>1. Abstract!SomeKey \in Keys
    BY PostgresStoreAssumption DEF Abstract!SomeKey
  <1>2. Abstract!NoArgs \in Abstract!Args
    BY <1>1 DEF Abstract!NoArgs, Abstract!Args
  <1> QED
    BY <1>2, FailsType DEF NoThread, Threads, Places

\* What the arguments of a call look like.
LEMMA ArgsType ==
  ASSUME NEW a \in Abstract!Args
  PROVE  /\ a.op \in {"Create", "Update", "Get", "Delete", "List"}
         /\ a.op \in {"Create", "Update"} => a.obj \in Reports
         /\ a.op # "List" => a.key \in Keys
  BY DEF Abstract!Args

\* The log is never empty, and the table on the primary is one of its states.
LEMMA PrimaryType ==
  ASSUME TypeOK
  PROVE  Len(log) \in Nat /\ Len(log) >= 1 /\ Primary = log[Len(log)] /\ Primary \in Tables
  BY DEF TypeOK, Primary

\* What the parts of a caller's place are.
LEMMA ThreadType ==
  ASSUME TypeOK, NEW c \in Callers
  PROVE  /\ thread[c] \in Threads
         /\ thread[c].args \in Abstract!Args /\ thread[c].left \in SUBSET Replicas
         /\ thread[c].since \in Nat \ {0} /\ thread[c].res \in Abstract!Results
  BY DEF TypeOK, Threads

\* A read begins where its replicas are, or at the primary.
LEMMA OldestType ==
  ASSUME TypeOK
  PROVE  Oldest \in 1..Len(log) /\ \A r \in Replicas : Oldest <= pos[r]
  <1> DEFINE S == {pos[r] : r \in Replicas} \cup {Len(log)}
  <1>1. S \in SUBSET (1..Len(log)) /\ Len(log) \in S /\ S \in SUBSET Nat
    BY PrimaryType DEF TypeOK
  <1>2. \A r \in Replicas : pos[r] \in S
    OBVIOUS
  <1>3. PICK m \in S : \A x \in S : m <= x
    BY <1>1, Least
  <1>4. \E i \in S : \A r \in Replicas : i <= pos[r]
    BY <1>2, <1>3
  <1>5. Oldest \in S /\ \A r \in Replicas : Oldest <= pos[r]
    BY <1>4 DEF Oldest
  <1> QED
    BY <1>1, <1>5

\* The place of a caller that begins to read.
LEMMA QueryType ==
  ASSUME TypeOK, NEW a \in Abstract!Args
  PROVE  Query(a) \in Threads /\ Trusted(Query(a)) /\ Query(a).pc = "query"
  BY OldestType, FailsType, PrimaryType DEF Query, Threads, Places, Trusted

\* The place of a caller whose result is fixed.
Returned(t, result) == [pc |-> "return", args |-> t.args, left |-> t.left,
                        since |-> t.since, res |-> result]

LEMMA DoneThread ==
  ASSUME TypeOK, NEW c \in Callers, NEW result \in Abstract!Results, Done(c, result)
  PROVE  /\ thread' = [thread EXCEPT ![c] = Returned(thread[c], result)]
         /\ Returned(thread[c], result) \in Threads
  BY ThreadType DEF Done, Returned, Threads, Places

-----------------------------------------------------------------------------
(* The invariant of reads *)

\* The table's history only grows, and no replica goes back.
Grows ==
    /\ log' \in Seq(Tables) /\ log' # <<>> /\ Len(log') >= Len(log)
    /\ \A i \in 1..Len(log) : log'[i] = log[i]
    /\ pos' \in [Replicas -> 1..Len(log')]
    /\ \A r \in Replicas : pos'[r] >= pos[r]

LEMMA Stays ==
  ASSUME TypeOK, UNCHANGED <<log, pos>>
  PROVE  Grows
  BY PrimaryType DEF TypeOK, Grows

LEMMA Grown ==
  ASSUME TypeOK, Grows, NEW t \in Threads
  PROVE  /\ Trusted(t) => Trusted(t)'
         /\ WithinLag(t) => WithinLag(t)'
  <1>0. /\ t.since \in Nat \ {0} /\ t.left \in SUBSET Replicas
        /\ Len(log) \in Nat /\ Len(log') \in Nat /\ Len(log') >= Len(log)
    BY PrimaryType DEF Threads, Grows
  <1>1. ASSUME Trusted(t) PROVE Trusted(t)'
    <2>1. \A r \in Replicas : pos[r] \in Nat /\ pos'[r] \in Nat
      BY PrimaryType, <1>0 DEF TypeOK, Grows
    <2> QED
      BY <1>0, <1>1, <2>1 DEF Trusted, Grows
  <1>2. \A i \in t.since .. Len(log) : i \in 1..Len(log) /\ i \in t.since .. Len(log')
    BY <1>0
  <1>3. \A i \in t.since .. Len(log) : log'[i] = log[i] /\ i \in t.since .. Len(log')
    BY <1>2 DEF Grows
  <1>4. ASSUME WithinLag(t) PROVE WithinLag(t)'
    <2>1. ASSUME t.pc = "return", t.res.err = "none", t.args.op \in {"Get", "List"}
          PROVE  \E i \in t.since .. Len(log') :
                   \A k \in Keys :
                     \/ t.res.found[k] = Asked(log'[i], t.args)[k]
                     \/ BrokenStreams /\ t.args.op = "List" /\ t.res.found[k] = NoReport
      <3>1. PICK i \in t.since .. Len(log) :
              \A k \in Keys :
                \/ t.res.found[k] = Asked(log[i], t.args)[k]
                \/ BrokenStreams /\ t.args.op = "List" /\ t.res.found[k] = NoReport
        BY <1>4, <2>1 DEF WithinLag
      <3> QED
        BY <1>3, <3>1
    <2>2. ASSUME t.pc = "return", t.res.err = "NotFound"
          PROVE  \E i \in t.since .. Len(log') : log'[i][t.args.key] = NoReport
      <3>1. PICK i \in t.since .. Len(log) : log[i][t.args.key] = NoReport
        BY <1>4, <2>2 DEF WithinLag
      <3> QED
        BY <1>3, <3>1
    <2> QED
      BY <2>1, <2>2 DEF WithinLag
  <1> QED
    BY <1>1, <1>4

\* One caller's place changes and the history grows.
LEMMA ThreadStep ==
  ASSUME ReadInv, Grows, NEW c \in Callers, NEW t \in Threads,
         thread' = [thread EXCEPT ![c] = t],
         mutex' \in [Procs -> Callers \cup {Nobody}],
         Trusted(t)', WithinLag(t)'
  PROVE  ReadInv'
  <1>1. TypeOK
    BY DEF ReadInv
  <1>2. TypeOK'
    BY <1>1 DEF TypeOK, Grows
  <1>3. thread'[c] = t /\ \A d \in Callers : d # c => thread'[d] = thread[d]
    BY <1>1 DEF TypeOK
  <1>4. ASSUME NEW d \in Callers, d # c
        PROVE  Trusted(thread[d])' /\ WithinLag(thread[d])'
    <2>1. PICK u \in Threads : u = thread[d]
      BY <1>1, ThreadType
    <2>2. Trusted(u) /\ WithinLag(u)
      BY <2>1 DEF ReadInv
    <2>3. Trusted(u)' /\ WithinLag(u)'
      BY <1>1, <2>2, Grown
    <2>4. u = thread'[d]
      BY <1>3, <1>4, <2>1
    <2> QED
      BY <2>3, <2>4
  <1>5. Trusted(thread[c])' /\ WithinLag(thread[c])'
    BY <1>3
  <1> QED
    BY <1>2, <1>4, <1>5 DEF ReadInv

\* A caller's result is fixed, with a write or without.
LEMMA DoneStep ==
  ASSUME ReadInv, Grows, NEW c \in Callers, NEW result \in Abstract!Results,
         Done(c, result), UNCHANGED mutex,
         NEW t, t = Returned(thread[c], result), WithinLag(t)'
  PROVE  ReadInv'
  <1>1. TypeOK
    BY DEF ReadInv
  <1>2. t \in Threads /\ thread' = [thread EXCEPT ![c] = t]
    BY <1>1, DoneThread
  <1>3. Trusted(t)'
    BY DEF Returned, Trusted
  <1>4. mutex' \in [Procs -> Callers \cup {Nobody}]
    BY <1>1 DEF TypeOK
  <1> QED
    BY <1>2, <1>3, <1>4, ThreadStep

\* ... and says nothing of the table.
LEMMA QuietStep ==
  ASSUME ReadInv, Grows, NEW c \in Callers, NEW err \in {"none", "AlreadyExists", "unavailable"},
         Done(c, Abstract!Fails(err)), UNCHANGED mutex,
         err = "none" => thread[c].args.op \notin {"Get", "List"}
  PROVE  ReadInv'
  <1>1. PICK t : t = Returned(thread[c], Abstract!Fails(err))
    OBVIOUS
  <1>2. t.res.err = err /\ t.args = thread[c].args
    BY <1>1 DEF Returned, Abstract!Fails
  <1>3. WithinLag(t)'
    BY <1>2 DEF WithinLag
  <1>4. Abstract!Fails(err) \in Abstract!Results
    BY FailsType
  <1> QED
    BY <1>1, <1>3, <1>4, DoneStep

\* ... and says that a key is not there, which it was not at a moment since.
LEMMA MissingStep ==
  ASSUME ReadInv, NEW c \in Callers, NEW i \in thread[c].since .. Len(log),
         log[i][thread[c].args.key] = NoReport,
         Done(c, Abstract!Fails("NotFound")), UNCHANGED <<log, pos, mutex>>
  PROVE  ReadInv'
  <1>1. PICK t : t = Returned(thread[c], Abstract!Fails("NotFound"))
    OBVIOUS
  <1>2. t.res.err = "NotFound" /\ t.args = thread[c].args /\ t.since = thread[c].since
    BY <1>1 DEF Returned, Abstract!Fails
  <1>3. WithinLag(t)'
    BY <1>2 DEF WithinLag
  <1>4. Abstract!Fails("NotFound") \in Abstract!Results
    BY FailsType
  <1>5. Grows
    BY Stays DEF ReadInv
  <1> QED
    BY <1>1, <1>3, <1>4, <1>5, DoneStep

\* ... and shows rows of the table as it was at a moment since.
LEMMA ShownStep ==
  ASSUME ReadInv, NEW c \in Callers, NEW i \in thread[c].since .. Len(log),
         NEW found \in Tables,
         \A k \in Keys : \/ found[k] = Asked(log[i], thread[c].args)[k]
                         \/ BrokenStreams /\ thread[c].args.op = "List" /\ found[k] = NoReport,
         NEW result, result = [err |-> "none", found |-> found],
         Done(c, result), UNCHANGED <<log, pos, mutex>>
  PROVE  ReadInv'
  <1>1. result = [err |-> "none", found |-> found]
    OBVIOUS
  <1>2. PICK t : t = Returned(thread[c], result)
    OBVIOUS
  <1>3. /\ t.res.err = "none" /\ t.res.found = found
        /\ t.args = thread[c].args /\ t.since = thread[c].since
    BY <1>1, <1>2 DEF Returned
  <1>4. WithinLag(t)'
    BY <1>3 DEF WithinLag
  <1>5. result \in Abstract!Results
    BY <1>1 DEF Abstract!Results, Abstract!Errors, Tables
  <1>6. Grows
    BY Stays DEF ReadInv
  <1> QED
    BY <1>1, <1>2, <1>4, <1>5, <1>6, DoneStep

\* A database answers the query of a caller with a state of the table since
\* the caller began.
LEMMA RowsStep ==
  ASSUME ReadInv, NEW c \in Callers, thread[c].pc = "query",
         NEW i \in thread[c].since .. Len(log),
         Rows(c, log[i]), UNCHANGED <<log, pos, mutex>>
  PROVE  ReadInv'
  <1>0. TypeOK /\ thread[c].args \in Abstract!Args /\ log[i] \in Tables /\ Grows
    <2>1. TypeOK
      BY DEF ReadInv
    <2>2. i \in 1..Len(log)
      BY <2>1, ThreadType, PrimaryType
    <2> QED
      BY <2>1, <2>2, ThreadType, Stays DEF TypeOK
  <1> DEFINE a == thread[c].args
             d == log[i]
  <1>1. ASSUME DbFails(c) PROVE ReadInv'
    BY <1>0, <1>1, QuietStep DEF DbFails
  <1>2. CASE Get(c, d)
    <2>1. CASE Done(c, [err |-> "none",
                        found |-> [k \in Keys |-> IF k = a.key THEN d[k] ELSE NoReport]])
      <3>1. PICK f : f = [k \in Keys |-> IF k = a.key THEN d[k] ELSE NoReport]
        OBVIOUS
      <3>2. f \in Tables
        BY <1>0, <3>1 DEF Tables
      <3>3. \A k \in Keys : \/ f[k] = Asked(log[i], thread[c].args)[k]
                            \/ BrokenStreams /\ thread[c].args.op = "List" /\ f[k] = NoReport
        <4>1. a.op = "Get"
          BY <1>2 DEF Get
        <4>2. \A k \in Keys : f[k] = IF k = a.key THEN d[k] ELSE NoReport
          BY <3>1
        <4>3. \A k \in Keys : Asked(d, a)[k] = IF k = a.key THEN d[k] ELSE NoReport
          BY <4>1 DEF Asked
        <4> QED
          BY <4>2, <4>3
      <3>4. PICK result : result = [err |-> "none", found |-> f]
        OBVIOUS
      <3>5. Done(c, result)
        BY <2>1, <3>1, <3>4
      <3> QED
        BY <3>2, <3>3, <3>4, <3>5, ShownStep
    <2>2. CASE d[a.key] = NoReport /\ Done(c, Abstract!Fails("NotFound"))
      BY <2>2, MissingStep
    <2> QED
      BY <1>1, <1>2, <2>1, <2>2 DEF Get
  <1>3. CASE List(c, d)
    <2>1. ASSUME NEW shown \in SUBSET Where(a.ns),
                 shown = Where(a.ns) \/ BrokenStreams,
                 Done(c, [err |-> "none",
                          found |-> [k \in Keys |-> IF k \in shown THEN d[k] ELSE NoReport]])
          PROVE  ReadInv'
      <3>0. PICK f : f = [k \in Keys |-> IF k \in shown THEN d[k] ELSE NoReport]
        OBVIOUS
      <3>1. f \in Tables
        BY <1>0, <3>0 DEF Tables
      <3>2. a.op = "List"
        BY <1>3 DEF List
      <3>3. \A k \in Keys : Asked(d, a)[k] = IF k \in Where(a.ns) THEN d[k] ELSE NoReport
        BY <3>2 DEF Asked
      <3>4. \A k \in Keys : \/ f[k] = Asked(log[i], thread[c].args)[k]
                            \/ BrokenStreams /\ thread[c].args.op = "List" /\ f[k] = NoReport
        <4>1. \A k \in Keys : f[k] = IF k \in shown THEN d[k] ELSE NoReport
          BY <3>0
        <4>2. shown = Where(a.ns) \/ (BrokenStreams /\ shown \subseteq Where(a.ns))
          BY <2>1
        <4> QED
          BY <3>2, <3>3, <4>1, <4>2
      <3>5. PICK result : result = [err |-> "none", found |-> f]
        OBVIOUS
      <3>6. Done(c, result)
        BY <2>1, <3>0, <3>5
      <3> QED
        BY <3>1, <3>4, <3>5, <3>6, ShownStep
    <2> QED
      BY <1>1, <1>3, <2>1 DEF List
  <1>4. CASE DeleteRead(c, d)
    <2>1. CASE d[a.key] = NoReport /\ Done(c, Abstract!Fails("NotFound"))
      BY <2>1, MissingStep
    <2>2. CASE thread' = [thread EXCEPT ![c].pc = "exec"]
      <3>1. PICK t : t = [thread[c] EXCEPT !.pc = "exec"]
        OBVIOUS
      <3>2. t \in Threads /\ t.pc = "exec"
        BY <1>0, <3>1, ThreadType DEF Threads, Places
      <3>3. thread' = [thread EXCEPT ![c] = t]
        BY <1>0, <2>2, <3>1 DEF TypeOK
      <3>4. Trusted(t)' /\ WithinLag(t)'
        BY <3>2 DEF Trusted, WithinLag
      <3>5. mutex' \in [Procs -> Callers \cup {Nobody}]
        BY <1>0 DEF TypeOK
      <3> QED
        BY <1>0, <3>2, <3>3, <3>4, <3>5, ThreadStep
    <2> QED
      BY <1>1, <1>4, <2>1, <2>2 DEF DeleteRead
  <1> QED
    BY <1>2, <1>3, <1>4 DEF Rows

LEMMA TryReplicaStep ==
  ASSUME ReadInv, NEW c \in Callers, TryReplica(c)
  PROVE  ReadInv'
  <1>0. TypeOK /\ Trusted(thread[c]) /\ thread[c].pc = "query" /\ Grows
    BY Stays DEF ReadInv, TryReplica
  <1>1. PICK r \in thread[c].left :
          \/ Rows(c, log[pos[r]])
          \/ Faults /\ thread' = [thread EXCEPT ![c].left = @ \ {r}]
    BY DEF TryReplica
  <1>2. r \in Replicas /\ pos[r] \in thread[c].since .. Len(log)
    BY <1>0, <1>1, ThreadType, PrimaryType DEF TypeOK, Trusted
  <1>3. CASE Rows(c, log[pos[r]])
    BY <1>0, <1>2, <1>3, RowsStep DEF TryReplica
  <1>4. CASE thread' = [thread EXCEPT ![c].left = @ \ {r}]
    <2>1. PICK t : t = [thread[c] EXCEPT !.left = @ \ {r}]
      OBVIOUS
    <2>2. /\ t \in Threads /\ t.pc = "query" /\ t.since = thread[c].since
          /\ t.left \subseteq thread[c].left
      BY <1>0, <2>1, ThreadType DEF Threads
    <2>3. thread' = [thread EXCEPT ![c] = t]
      BY <1>0, <1>4, <2>1 DEF TypeOK
    <2>4. Trusted(t)' /\ WithinLag(t)'
      BY <1>0, <2>2 DEF Trusted, WithinLag, TryReplica
    <2>5. mutex' \in [Procs -> Callers \cup {Nobody}]
      BY <1>0 DEF TypeOK, TryReplica
    <2> QED
      BY <1>0, <2>2, <2>3, <2>4, <2>5, ThreadStep
  <1> QED
    BY <1>1, <1>3, <1>4

LEMMA QueryPrimaryStep ==
  ASSUME ReadInv, NEW c \in Callers, QueryPrimary(c)
  PROVE  ReadInv'
  <1>0. TypeOK /\ Trusted(thread[c]) /\ thread[c].pc = "query" /\ Grows
    BY Stays DEF ReadInv, QueryPrimary
  <1>1. Len(log) \in thread[c].since .. Len(log)
    BY <1>0, ThreadType, PrimaryType DEF Trusted
  <1>2. CASE Rows(c, Primary)
    BY <1>0, <1>1, <1>2, RowsStep DEF QueryPrimary, Primary
  <1>3. CASE DbFails(c)
    BY <1>0, <1>3, QuietStep DEF QueryPrimary, DbFails
  <1> QED
    BY <1>2, <1>3 DEF QueryPrimary

\* A write appends to the history.
LEMMA WriteGrows ==
  ASSUME TypeOK, NEW table \in Tables, Writes(table), UNCHANGED pos
  PROVE  Grows
  <1>1. log' = Append(log, table) /\ log \in Seq(Tables) /\ Len(log) \in Nat
    BY PrimaryType DEF Writes, TypeOK
  <1>2. log' \in Seq(Tables) /\ Len(log') = Len(log) + 1 /\ log' # <<>>
    BY <1>1
  <1>3. \A i \in 1..Len(log) : log'[i] = log[i]
    BY <1>1
  <1>4. \A r \in Replicas : pos[r] \in 1..Len(log) /\ pos[r] \in 1..Len(log')
    BY <1>1, <1>2 DEF TypeOK
  <1> QED
    BY <1>1, <1>2, <1>3, <1>4 DEF Grows, TypeOK

\* A statement is run, or fails, and its method says no more than that.
LEMMA ExecOutcome ==
  ASSUME TypeOK, NEW c \in Callers, Exec(c)
  PROVE  /\ UNCHANGED log \/ \E table \in Tables : Writes(table)
         /\ \E err \in {"none", "AlreadyExists", "unavailable"} :
              /\ Done(c, Abstract!Fails(err))
              /\ err = "none" => thread[c].args.op \notin {"Get", "List"}
         /\ UNCHANGED <<pos, mutex>>
  <1> DEFINE a == thread[c].args
  <1>0. a \in Abstract!Args /\ Primary \in Tables
    BY ThreadType, PrimaryType
  <1>1. ASSUME NEW k, NEW x \in Reports \cup {NoReport}
        PROVE  [Primary EXCEPT ![k] = x] \in Tables
    BY <1>0 DEF Tables
  <1>2. CASE Insert(c)
    BY <1>0, <1>1, <1>2, ArgsType DEF Insert, Exec, DbFails
  <1>3. CASE Update(c)
    BY <1>0, <1>1, <1>3, ArgsType DEF Update, Exec, DbFails
  <1>4. CASE Delete(c)
    BY <1>0, <1>1, <1>4, ArgsType DEF Delete, Exec, DbFails
  <1>5. CASE UNCHANGED log /\ DbFails(c)
    BY <1>5 DEF Exec, DbFails
  <1> QED
    BY <1>2, <1>3, <1>4, <1>5 DEF Exec

LEMMA ExecStep ==
  ASSUME ReadInv, NEW c \in Callers, Exec(c)
  PROVE  ReadInv'
  <1>1. TypeOK
    BY DEF ReadInv
  <1>2. Grows
    BY <1>1, ExecOutcome, WriteGrows, Stays
  <1> QED
    BY <1>1, <1>2, ExecOutcome, QuietStep

\* The other steps of a caller put it at a place where nothing is claimed, or
\* at the beginning of a read.
LEMMA PlaceStep ==
  ASSUME ReadInv, NEW c \in Callers, NEW t \in Threads,
         t.pc # "return", t.pc = "query" => Trusted(t),
         thread' = [thread EXCEPT ![c] = t],
         mutex' \in [Procs -> Callers \cup {Nobody}], UNCHANGED <<log, pos>>
  PROVE  ReadInv'
  <1>1. Grows
    BY Stays DEF ReadInv
  <1>2. Trusted(t)' /\ WithinLag(t)'
    BY DEF Trusted, WithinLag
  <1> QED
    BY <1>1, <1>2, ThreadStep

LEMMA CallStep ==
  ASSUME ReadInv, NEW c \in Callers, NEW a \in Abstract!Args, Call(c, a)
  PROVE  ReadInv'
  <1>0. TypeOK /\ mutex' \in [Procs -> Callers \cup {Nobody}]
    BY DEF ReadInv, TypeOK, Call
  <1>1. CASE Locks(a)
    <2>1. PICK t : t = [pc |-> "lock", args |-> a, left |-> {}, since |-> 1,
                        res |-> Abstract!Fails("none")]
      OBVIOUS
    <2>2. t \in Threads /\ t.pc = "lock"
      BY <2>1, FailsType DEF Threads, Places
    <2>3. thread' = [thread EXCEPT ![c] = t]
      BY <1>1, <2>1 DEF Call
    <2> QED
      BY <1>0, <2>2, <2>3, PlaceStep DEF Call
  <1>2. CASE ~Locks(a)
    <2>1. PICK t : t = Query(a)
      OBVIOUS
    <2>2. t \in Threads /\ t.pc = "query" /\ Trusted(t)
      BY <1>0, <2>1, QueryType
    <2>3. thread' = [thread EXCEPT ![c] = t]
      BY <1>2, <2>1 DEF Call
    <2> QED
      BY <1>0, <2>2, <2>3, PlaceStep DEF Call
  <1> QED
    BY <1>1, <1>2

LEMMA LockStep ==
  ASSUME ReadInv, NEW c \in Callers, Lock(c)
  PROVE  ReadInv'
  <1>0. /\ TypeOK /\ thread[c] \in Threads /\ thread[c].args \in Abstract!Args
        /\ mutex' \in [Procs -> Callers \cup {Nobody}]
    BY ThreadType, PostgresStoreAssumption DEF ReadInv, TypeOK, Lock
  <1>1. CASE thread[c].args.op = "Delete"
    <2>1. PICK t : t = Query(thread[c].args)
      OBVIOUS
    <2>2. t \in Threads /\ t.pc = "query" /\ Trusted(t)
      BY <1>0, <2>1, QueryType
    <2>3. thread' = [thread EXCEPT ![c] = t]
      BY <1>0, <1>1, <2>1 DEF Lock, TypeOK
    <2> QED
      BY <1>0, <2>2, <2>3, PlaceStep DEF Lock
  <1>2. CASE thread[c].args.op # "Delete"
    <2>1. PICK t : t = [thread[c] EXCEPT !.pc = "exec"]
      OBVIOUS
    <2>2. t \in Threads /\ t.pc = "exec"
      BY <1>0, <2>1 DEF Threads, Places
    <2>3. thread' = [thread EXCEPT ![c] = t]
      BY <1>0, <1>2, <2>1 DEF Lock, TypeOK
    <2> QED
      BY <1>0, <2>2, <2>3, PlaceStep DEF Lock
  <1> QED
    BY <1>1, <1>2

LEMMA ReturnStep ==
  ASSUME ReadInv, NEW c \in Callers, Return(c)
  PROVE  ReadInv'
  <1>1. NoThread \in Threads /\ NoThread.pc = "idle"
    BY NoThreadType DEF NoThread
  <1>2. mutex' \in [Procs -> Callers \cup {Nobody}]
    BY PostgresStoreAssumption DEF Return, ReadInv, TypeOK
  <1>3. thread' = [thread EXCEPT ![c] = NoThread]
    BY DEF Return
  <1> QED
    BY <1>1, <1>2, <1>3, PlaceStep DEF Return

LEMMA ReplicateStep ==
  ASSUME ReadInv, NEW r \in Replicas, Replicate(r)
  PROVE  ReadInv'
  <1>1. TypeOK
    BY DEF ReadInv
  <1>2. Grows /\ pos' \in [Replicas -> 1..Len(log)]
    BY <1>1, PrimaryType DEF Replicate, TypeOK, Grows
  <1>3. TypeOK'
    BY <1>1, <1>2 DEF Replicate, TypeOK
  <1>4. ASSUME NEW d \in Callers
        PROVE  Trusted(thread[d])' /\ WithinLag(thread[d])'
    <2>1. PICK u \in Threads : u = thread[d]
      BY <1>1, ThreadType
    <2>2. Trusted(u)' /\ WithinLag(u)'
      BY <1>1, <1>2, <2>1, Grown DEF ReadInv
    <2> QED
      BY <2>1, <2>2 DEF Replicate
  <1> QED
    BY <1>3, <1>4 DEF ReadInv

LEMMA ReadStep == ReadInv /\ [Next]_vars => ReadInv'
  <1> SUFFICES ASSUME ReadInv, [Next]_vars PROVE ReadInv'
    OBVIOUS
  <1>1. CASE Next
    BY <1>1, CallStep, LockStep, TryReplicaStep, QueryPrimaryStep, ExecStep, ReturnStep,
       ReplicateStep DEF Next, Step
  <1>2. CASE UNCHANGED vars
    BY <1>2 DEF vars, ReadInv, TypeOK, Trusted, WithinLag, Asked
  <1> QED
    BY <1>1, <1>2

LEMMA ReadInit == Init => ReadInv
  <1> SUFFICES ASSUME Init PROVE ReadInv
    OBVIOUS
  <1>1. TypeOK
    <2>1. PICK table \in Tables : log = <<table>>
      BY DEF Init
    <2>2. log \in Seq(Tables) /\ log # <<>> /\ Len(log) = 1
      BY <2>1
    <2> QED
      BY <2>2, NoThreadType DEF Init, TypeOK
  <1>2. \A c \in Callers : thread[c].pc = "idle"
    BY DEF Init, NoThread
  <1> QED
    BY <1>1, <1>2 DEF ReadInv, Trusted, WithinLag

\* Type correctness; in particular no replica is ahead of the primary.
THEOREM TypeCorrect == Spec => []TypeOK
  <1>1. Spec => []ReadInv
    BY ReadInit, ReadStep, PTL DEF Spec
  <1> QED
    BY <1>1, PTL DEF ReadInv

\* Whatever the number of replicas, their lag and their failures, a read shows
\* one state of the table, no older than what the slowest replica had when the
\* read began.
THEOREM ReadsRight == Spec => []ReadsWithinLag
  <1>1. ReadInv => ReadsWithinLag
    BY DEF ReadInv, ReadsWithinLag
  <1>2. Spec => []ReadInv
    BY ReadInit, ReadStep, PTL DEF Spec
  <1> QED
    BY <1>1, <1>2, PTL

-----------------------------------------------------------------------------
(* What writes may do to the table *)

\* After a statement that writes, the table is what it wrote.
LEMMA WritesPrimary ==
  ASSUME TypeOK, NEW table \in Tables, Writes(table)
  PROVE  Primary' = table
  BY PrimaryType DEF Writes, TypeOK, Primary

\* The place of a caller whose result is fixed, in the next state.
LEMMA DonePlace ==
  ASSUME TypeOK, NEW c \in Callers, NEW result, Done(c, result)
  PROVE  /\ thread'[c].pc = "return" /\ thread'[c].args = thread[c].args
         /\ \A d \in Callers : d # c => thread'[d] = thread[d]
  BY DEF Done, TypeOK

\* A statement changes at most the row of its key, and that in the way its
\* method is there for.
LEMMA ExecChanges ==
  ASSUME TypeOK, NEW c \in Callers, Exec(c), log' # log
  PROVE  LET k == thread[c].args.key
         IN /\ thread[c].pc = "exec" /\ thread'[c].pc = "return"
            /\ thread[c].args.op = CASE Primary[k] = NoReport -> "Create"
                                     [] Primary'[k] = NoReport -> "Delete"
                                     [] OTHER -> "Update"
            /\ \A j \in Keys \ {k} : Primary'[j] = Primary[j]
  <1> DEFINE a == thread[c].args
  <1>0. a \in Abstract!Args /\ Primary \in Tables
    BY ThreadType, PrimaryType
  <1>1. thread[c].pc = "exec" /\ thread'[c].pc = "return"
    BY ExecOutcome, DonePlace DEF Exec
  <1>2. ASSUME NEW x \in Reports \cup {NoReport}, a.key \in Keys,
               Writes([Primary EXCEPT ![a.key] = x])
        PROVE  Primary'[a.key] = x /\ \A j \in Keys \ {a.key} : Primary'[j] = Primary[j]
    <2>1. PICK table : table = [Primary EXCEPT ![a.key] = x]
      OBVIOUS
    <2>2. table \in Tables
      BY <1>0, <2>1 DEF Tables
    <2>3. Primary' = table
      BY <1>2, <2>1, <2>2, WritesPrimary
    <2> QED
      BY <1>0, <1>2, <2>1, <2>3 DEF Tables
  <1>3. CASE Insert(c)
    <2>1. /\ a.op = "Create" /\ Primary[a.key] = NoReport
          /\ Writes([Primary EXCEPT ![a.key] = a.obj])
      BY <1>3 DEF Insert
    <2>2. a.key \in Keys /\ a.obj \in Reports /\ a.obj # NoReport
      BY <1>0, <2>1, ArgsType, PostgresStoreAssumption
    <2> QED
      BY <1>1, <1>2, <2>1, <2>2
  <1>4. CASE Update(c)
    <2>1. /\ a.op = "Update" /\ Primary[a.key] # NoReport
          /\ Writes([Primary EXCEPT ![a.key] = a.obj])
      BY <1>4 DEF Update
    <2>2. a.key \in Keys /\ a.obj \in Reports /\ a.obj # NoReport
      BY <1>0, <2>1, ArgsType, PostgresStoreAssumption
    <2> QED
      BY <1>1, <1>2, <2>1, <2>2
  <1>5. CASE Delete(c)
    <2>1. /\ a.op = "Delete" /\ Primary[a.key] # NoReport
          /\ Writes([Primary EXCEPT ![a.key] = NoReport])
      BY <1>5 DEF Delete
    <2>2. a.key \in Keys
      BY <1>0, <2>1, ArgsType
    <2> QED
      BY <1>1, <1>2, <2>1, <2>2
  <1> QED
    BY <1>3, <1>4, <1>5 DEF Exec

\* No other step writes.
LEMMA ChangesStep ==
  ASSUME TypeOK, [Next]_vars, log' # log
  PROVE  \E c \in Callers : Exec(c)
  BY DEF Next, Step, Call, Lock, TryReplica, QueryPrimary, Return, Replicate, vars

\* However many servers and replicas there are, reports appear only by a
\* Create, are replaced only by an Update and vanish only by a Delete.
THEOREM WritesRight == Spec => OnlyCreatesCreate
  <1> DEFINE Safe == log' # log =>
               \E c \in Callers :
                 LET k == thread[c].args.key
                 IN /\ thread[c].pc = "exec" /\ thread'[c].pc = "return"
                    /\ thread[c].args.op = CASE Primary[k] = NoReport -> "Create"
                                             [] Primary'[k] = NoReport -> "Delete"
                                             [] OTHER -> "Update"
                    /\ \A j \in Keys \ {k} : Primary'[j] = Primary[j]
  <1>1. TypeOK /\ [Next]_vars => Safe
    BY ChangesStep, ExecChanges
  <1>2. TypeOK /\ [Next]_vars => [Safe]_vars
    BY <1>1
  <1> HIDE DEF Safe
  <1>3. Spec => [][Safe]_vars
    BY <1>2, TypeCorrect, PTL DEF Spec
  <1> QED
    BY <1>3 DEF Safe, OnlyCreatesCreate

-----------------------------------------------------------------------------
(* Nobody waits for a method that is gone, with any servers and replicas *)

\* A caller moves on without the mutex, and stays inside or outside.
LEMMA MovesOn ==
  ASSUME TypeOK, LockInv, NEW c \in Callers, UNCHANGED mutex,
         \A d \in Callers : d # c => thread'[d] = thread[d],
         Inside(thread'[c]) <=> Inside(thread[c]),
         thread'[c].pc \in {"lock", "exec"} => Locks(thread'[c].args)
  PROVE  LockInv'
  <1>1. \A d \in Callers : Inside(thread'[d]) <=> Inside(thread[d])
    OBVIOUS
  <1>2. MutexHeld'
    BY <1>1 DEF LockInv, MutexHeld, Inside, Locks
  <1>3. MutexServes'
    BY <1>1 DEF LockInv, MutexServes, Inside, Locks, TypeOK
  <1>4. WritesLock'
    BY DEF LockInv, WritesLock, Locks
  <1> QED
    BY <1>2, <1>3, <1>4 DEF LockInv

\* A caller takes the mutex of its process, or gives it back.
LEMMA MutexMoves ==
  ASSUME TypeOK, LockInv, NEW c \in Callers, NEW x \in {c, Nobody},
         mutex' = [mutex EXCEPT ![ProcOf[c]] = x],
         \A d \in Callers : d # c => thread'[d] = thread[d],
         mutex[ProcOf[c]] \in {c, Nobody},
         Inside(thread'[c]) <=> x = c,
         thread'[c].pc \in {"lock", "exec"} => Locks(thread'[c].args)
  PROVE  LockInv'
  <1>1. \A p \in Procs : mutex'[p] = IF p = ProcOf[c] THEN x ELSE mutex[p]
    BY DEF TypeOK
  <1>2. ProcOf[c] \in Procs /\ c # Nobody /\ \A d \in Callers : ProcOf[d] \in Procs /\ d # Nobody
    BY PostgresStoreAssumption
  <1>3. ASSUME NEW d \in Callers, Inside(thread'[d])
        PROVE  mutex'[ProcOf[d]] = d
    <2>1. CASE d = c
      BY <1>1, <1>2, <1>3, <2>1
    <2>2. CASE d # c
      <3>1. mutex[ProcOf[d]] = d
        BY <1>3, <2>2 DEF LockInv, MutexHeld, Inside
      <3> QED
        BY <1>1, <1>2, <2>2, <3>1
    <2> QED
      BY <2>1, <2>2
  <1>4. ASSUME NEW p \in Procs, mutex'[p] # Nobody
        PROVE  ProcOf[mutex'[p]] = p /\ Inside(thread'[mutex'[p]])
    <2>1. CASE p = ProcOf[c]
      BY <1>1, <1>4, <2>1
    <2>2. CASE p # ProcOf[c]
      <3>1. PICK d \in Callers : mutex[p] = d
        BY <1>1, <1>4, <2>2 DEF TypeOK
      <3>2. ProcOf[d] = p /\ Inside(thread[d])
        BY <1>2, <3>1 DEF LockInv, MutexServes
      <3>3. thread'[d] = thread[d]
        BY <2>2, <3>2
      <3> QED
        BY <1>1, <2>2, <3>1, <3>2, <3>3
    <2> QED
      BY <2>1, <2>2
  <1>5. MutexHeld'
    BY <1>3 DEF MutexHeld, Inside, Locks
  <1>6. MutexServes'
    BY <1>4 DEF MutexServes, Inside, Locks
  <1>7. WritesLock'
    BY DEF LockInv, WritesLock, Locks
  <1> QED
    BY <1>5, <1>6, <1>7 DEF LockInv

\* What an answer of a replica or of the primary leads to.
LEMMA RowsPlace ==
  ASSUME TypeOK, NEW c \in Callers, NEW d, Rows(c, d) \/ DbFails(c)
  PROVE  /\ thread'[c].args = thread[c].args
         /\ \/ thread'[c].pc = "return"
            \/ thread'[c].pc = "exec" /\ thread[c].args.op = "Delete"
         /\ \A e \in Callers : e # c => thread'[e] = thread[e]
  <1>1. ASSUME NEW result, Done(c, result)
        PROVE  /\ thread'[c].args = thread[c].args /\ thread'[c].pc = "return"
               /\ \A e \in Callers : e # c => thread'[e] = thread[e]
    BY <1>1, DonePlace
  <1>2. CASE thread[c].args.op = "Delete" /\ thread' = [thread EXCEPT ![c].pc = "exec"]
    BY <1>2 DEF TypeOK, Threads
  <1> QED
    BY <1>1, <1>2 DEF Rows, Get, List, DeleteRead, DbFails

\* A replica answers, or is passed over for good.
LEMMA TryPlace ==
  ASSUME TypeOK, NEW c \in Callers, TryReplica(c)
  PROVE  /\ thread[c].pc = "query" /\ UNCHANGED mutex /\ thread'[c].args = thread[c].args
         /\ \/ thread'[c].pc = "return"
            \/ thread'[c].pc = "exec" /\ thread[c].args.op = "Delete"
            \/ /\ thread'[c].pc = "query" /\ thread'[c].left # thread[c].left
               /\ thread'[c].left \subseteq thread[c].left
         /\ \A e \in Callers : e # c => thread'[e] = thread[e]
  <1>1. PICK r \in thread[c].left : \/ Rows(c, log[pos[r]])
                                    \/ thread' = [thread EXCEPT ![c].left = @ \ {r}]
    BY DEF TryReplica
  <1>2. thread[c].pc = "query" /\ UNCHANGED mutex
    BY DEF TryReplica
  <1>3. CASE Rows(c, log[pos[r]])
    BY <1>2, <1>3, RowsPlace
  <1>4. CASE thread' = [thread EXCEPT ![c].left = @ \ {r}]
    <2>1. thread[c] \in Threads
      BY ThreadType
    <2>2. PICK t : t = [thread[c] EXCEPT !.left = @ \ {r}]
      OBVIOUS
    <2>3. t.pc = thread[c].pc /\ t.args = thread[c].args /\ t.left = thread[c].left \ {r}
      BY <2>1, <2>2 DEF Threads
    <2>4. thread'[c] = t /\ \A e \in Callers : e # c => thread'[e] = thread[e]
      BY <1>4, <2>2 DEF TypeOK
    <2> QED
      BY <1>2, <2>3, <2>4
  <1> QED
    BY <1>1, <1>3, <1>4

\* A call takes its first step, or its Lock.
LEMMA CallPlace ==
  ASSUME TypeOK, NEW c \in Callers, NEW a \in Abstract!Args, Call(c, a)
  PROVE  /\ thread[c].pc = "idle" /\ UNCHANGED mutex /\ thread'[c].args = a
         /\ thread'[c].pc = IF Locks(a) THEN "lock" ELSE "query"
         /\ \A e \in Callers : e # c => thread'[e] = thread[e]
  BY DEF Call, Query, TypeOK

LEMMA LockPlace ==
  ASSUME TypeOK, NEW c \in Callers, Lock(c)
  PROVE  /\ thread[c].pc = "lock" /\ thread'[c].args = thread[c].args
         /\ thread'[c].pc = IF thread[c].args.op = "Delete" THEN "query" ELSE "exec"
         /\ mutex[ProcOf[c]] = Nobody /\ mutex' = [mutex EXCEPT ![ProcOf[c]] = c]
         /\ \A e \in Callers : e # c => thread'[e] = thread[e]
  <1>1. CASE thread[c].args.op = "Delete"
    BY <1>1 DEF Lock, Query, TypeOK
  <1>2. CASE thread[c].args.op # "Delete"
    BY <1>2 DEF Lock, TypeOK, Threads
  <1> QED
    BY <1>1, <1>2

LEMMA ReturnPlace ==
  ASSUME TypeOK, NEW c \in Callers, Return(c)
  PROVE  /\ thread[c].pc = "return" /\ thread'[c].pc = "idle"
         /\ \A e \in Callers : e # c => thread'[e] = thread[e]
  BY DEF Return, TypeOK, NoThread

LEMMA LockInvStep == TypeOK /\ LockInv /\ [Next]_vars => LockInv'
  <1> SUFFICES ASSUME TypeOK, LockInv, [Next]_vars PROVE LockInv'
    OBVIOUS
  <1>1. ASSUME NEW c \in Callers, NEW a \in Abstract!Args, Call(c, a)
        PROVE  LockInv'
    <2>1. /\ thread[c].pc = "idle" /\ UNCHANGED mutex /\ thread'[c].args = a
          /\ thread'[c].pc = IF Locks(a) THEN "lock" ELSE "query"
          /\ \A e \in Callers : e # c => thread'[e] = thread[e]
      BY <1>1, CallPlace
    <2>2. ~Inside(thread[c]) /\ ~Inside(thread'[c])
      BY <2>1 DEF Inside
    <2> QED
      BY <2>1, <2>2, MovesOn
  <1>2. ASSUME NEW c \in Callers, Lock(c)
        PROVE  LockInv'
    <2>1. Locks(thread[c].args)
      BY <1>2, LockPlace DEF LockInv, WritesLock
    <2>2. Inside(thread'[c])
      BY <1>2, <2>1, LockPlace DEF Inside
    <2> QED
      BY <1>2, <2>1, <2>2, LockPlace, MutexMoves
  <1>3. ASSUME NEW c \in Callers, TryReplica(c) \/ QueryPrimary(c)
        PROVE  LockInv'
    <2>1. /\ thread[c].pc = "query" /\ UNCHANGED mutex /\ thread'[c].args = thread[c].args
          /\ \/ thread'[c].pc \in {"query", "return"}
             \/ thread'[c].pc = "exec" /\ thread[c].args.op = "Delete"
          /\ \A e \in Callers : e # c => thread'[e] = thread[e]
      <3>1. CASE TryReplica(c)
        BY <3>1, TryPlace
      <3>2. CASE QueryPrimary(c)
        BY <3>2, RowsPlace DEF QueryPrimary
      <3> QED
        BY <1>3, <3>1, <3>2
    <2>2. Inside(thread'[c]) <=> Inside(thread[c])
      BY <2>1 DEF Inside
    <2>3. thread'[c].pc \in {"lock", "exec"} => Locks(thread'[c].args)
      BY <2>1 DEF Locks
    <2> QED
      BY <2>1, <2>2, <2>3, MovesOn
  <1>4. ASSUME NEW c \in Callers, Exec(c)
        PROVE  LockInv'
    <2>1. PICK result : Done(c, result)
      BY <1>4, ExecOutcome
    <2>2. thread[c].pc = "exec" /\ UNCHANGED mutex
      BY <1>4 DEF Exec
    <2>3. /\ thread'[c].pc = "return" /\ thread'[c].args = thread[c].args
          /\ \A d \in Callers : d # c => thread'[d] = thread[d]
      BY <2>1, DonePlace
    <2>4. Inside(thread'[c]) <=> Inside(thread[c])
      BY <2>2, <2>3 DEF Inside
    <2> QED
      BY <2>2, <2>3, <2>4, MovesOn
  <1>5. ASSUME NEW c \in Callers, Return(c)
        PROVE  LockInv'
    <2>1. ~Inside(thread'[c])
      BY <1>5, ReturnPlace DEF Inside
    <2>2. CASE Locks(thread[c].args)
      <3>1. mutex' = [mutex EXCEPT ![ProcOf[c]] = Nobody] /\ mutex[ProcOf[c]] = c
        BY <1>5, <2>2, ReturnPlace DEF Return, LockInv, MutexHeld
      <3>2. c # Nobody
        BY PostgresStoreAssumption
      <3> QED
        BY <1>5, <2>1, <3>1, <3>2, ReturnPlace, MutexMoves
    <2>3. CASE ~Locks(thread[c].args)
      <3>1. UNCHANGED mutex /\ ~Inside(thread[c])
        BY <1>5, <2>3 DEF Return, Inside
      <3> QED
        BY <1>5, <2>1, <3>1, ReturnPlace, MovesOn
    <2> QED
      BY <2>2, <2>3
  <1>6. CASE UNCHANGED <<mutex, thread>>
    BY <1>6 DEF LockInv, MutexHeld, WritesLock, MutexServes, Inside, Locks
  <1> QED
    BY <1>1, <1>2, <1>3, <1>4, <1>5, <1>6 DEF Next, Step, Replicate, vars

\* For any number of servers, callers and replicas, at any lag: a locked mutex
\* is that of a method in progress in the same server, past its Lock, so that
\* its next step waits for no caller.
THEOREM MutexNeverOrphaned == Spec => []MutexServes
  <1>1. Init => LockInv
    <2> SUFFICES ASSUME Init PROVE LockInv
      OBVIOUS
    <2>1. \A c \in Callers : thread[c].pc = "idle"
      BY DEF Init, NoThread
    <2> QED
      BY <2>1 DEF Init, LockInv, MutexHeld, WritesLock, MutexServes
  <1>2. LockInv => MutexServes
    BY DEF LockInv
  <1> QED
    BY <1>1, <1>2, LockInvStep, TypeCorrect, PTL DEF Spec

\* A call only goes forward: its search for a replica that answers asks none
\* twice, with any number of them, and it makes at most one statement.
THEOREM NoWayBack == Spec => CallsGoForward
  <1> DEFINE Forward == \A c \in Callers : thread'[c] # thread[c] => Onwards(thread[c], thread'[c])
  <1>1. TypeOK /\ [Next]_vars => [Forward]_vars
    <2> SUFFICES ASSUME TypeOK, Next, NEW c \in Callers, thread'[c] # thread[c]
                 PROVE  Onwards(thread[c], thread'[c])
      OBVIOUS
    <2>1. PICK d \in Callers : (\E a \in Abstract!Args : Call(d, a)) \/ Lock(d) \/ Step(d)
      BY DEF Next, Replicate
    <2>2. d = c
      <3>1. CASE Exec(d)
        BY <3>1, ExecOutcome, DonePlace
      <3>2. CASE QueryPrimary(d)
        BY <3>2, RowsPlace DEF QueryPrimary
      <3> QED
        BY <2>1, <3>1, <3>2, CallPlace, LockPlace, TryPlace, ReturnPlace DEF Step
    <2>3. ASSUME NEW a \in Abstract!Args, Call(c, a) PROVE Onwards(thread[c], thread'[c])
      BY <2>3, CallPlace DEF Onwards
    <2>4. CASE Lock(c)
      BY <2>4, LockPlace DEF Onwards
    <2>5. CASE TryReplica(c)
      BY <2>5, TryPlace DEF Onwards
    <2>6. CASE QueryPrimary(c)
      BY <2>6, RowsPlace DEF QueryPrimary, Onwards
    <2>7. CASE Exec(c)
      <3>1. PICK result : Done(c, result)
        BY <2>7, ExecOutcome
      <3>2. thread[c].pc = "exec"
        BY <2>7 DEF Exec
      <3> QED
        BY <3>1, <3>2, DonePlace DEF Onwards
    <2>8. CASE Return(c)
      BY <2>8, ReturnPlace DEF Onwards
    <2> QED
      BY <2>1, <2>2, <2>3, <2>4, <2>5, <2>6, <2>7, <2>8 DEF Step
  <1> HIDE DEF Forward
  <1>2. Spec => [][Forward]_vars
    BY <1>1, TypeCorrect, PTL DEF Spec
  <1> QED
    BY <1>2 DEF Forward, CallsGoForward

-----------------------------------------------------------------------------
(* One server without replicas: the invariant of writes *)

\* No two callers are between the Lock and the Unlock of methods that write.
LEMMA Exclusive ==
  ASSUME Plain, MutexHeld, NEW c \in Callers, NEW d \in Callers,
         thread[c].pc \in {"query", "exec", "return"}, Locks(thread[c].args),
         thread[d].pc \in {"query", "exec", "return"}, Locks(thread[d].args)
  PROVE  c = d
  BY DEF Plain, MutexHeld

\* A caller that writes comes to another place, and none of the others that
\* write is past its Lock.
LEMMA WriterStep ==
  ASSUME WriteInv, TypeOK', NEW c \in Callers, NEW t,
         thread'[c] = t, \A d \in Callers : d # c => thread'[d] = thread[d],
         mutex' \in {mutex, [mutex EXCEPT ![ProcOf[c]] = c], [mutex EXCEPT ![ProcOf[c]] = Nobody]},
         t.pc \in {"query", "exec", "return"} /\ Locks(t.args) => mutex'[ProcOf[c]] = c,
         t.pc \in {"lock", "exec"} => Locks(t.args),
         t.pc = "lock" => t.res = Abstract!Fails("none"),
         t.pc = "exec" /\ t.args.op = "Delete" => Primary'[t.args.key] # NoReport,
         mutex' # mutex \/ Primary' # Primary =>
           \A d \in Callers : thread[d].pc \in {"query", "exec", "return"}
                                /\ Locks(thread[d].args) => d = c
  PROVE  WriteInv'
  <1>1. \A d \in Callers : d # c /\ thread[d].pc \in {"query", "exec", "return"}
                             /\ Locks(thread[d].args) => mutex' = mutex /\ Primary' = Primary
    OBVIOUS
  <1>2. MutexHeld'
    BY <1>1 DEF WriteInv, MutexHeld, Locks
  <1>3. WritesLock'
    BY DEF WriteInv, WritesLock, Locks
  <1>4. ASSUME NEW d \in Callers, thread'[d].pc = "exec", thread'[d].args.op = "Delete"
        PROVE  Primary'[thread'[d].args.key] # NoReport
    <2>1. CASE d = c
      BY <1>4, <2>1
    <2>2. CASE d # c
      <3>1. thread'[d] = thread[d] /\ Locks(thread[d].args)
        BY <1>4, <2>2 DEF Locks
      <3>2. Primary' = Primary
        BY <1>1, <1>4, <2>2, <3>1
      <3> QED
        BY <1>4, <3>1, <3>2 DEF WriteInv, StillThere
    <2> QED
      BY <2>1, <2>2
  <1>5. NoResultYet'
    BY DEF WriteInv, NoResultYet
  <1> QED
    BY <1>2, <1>3, <1>4, <1>5 DEF WriteInv, StillThere

\* A caller's result is fixed, which changes the table only if it had the
\* mutex to itself.
LEMMA WriterDone ==
  ASSUME Plain, WriteInv, TypeOK', NEW c \in Callers, NEW result, Done(c, result), UNCHANGED mutex,
         thread[c].pc \in {"query", "exec"}, Primary' # Primary => thread[c].pc = "exec"
  PROVE  WriteInv'
  <1>1. /\ thread'[c].pc = "return" /\ thread'[c].args = thread[c].args
        /\ \A d \in Callers : d # c => thread'[d] = thread[d]
    BY DonePlace DEF WriteInv
  <1>2. Locks(thread[c].args) => mutex'[ProcOf[c]] = c
    BY DEF WriteInv, MutexHeld
  <1>3. Primary' # Primary => Locks(thread[c].args)
    BY DEF WriteInv, WritesLock
  <1>4. Primary' # Primary => \A d \in Callers : thread[d].pc \in {"query", "exec", "return"}
                                /\ Locks(thread[d].args) => d = c
    BY <1>3, Exclusive DEF WriteInv
  <1> QED
    BY <1>1, <1>2, <1>4, WriterStep

\* Every step keeps the invariant of writes.
LEMMA WriteStep ==
  ASSUME Plain
  PROVE  WriteInv /\ TypeOK' /\ [Next]_vars => WriteInv'
  <1> SUFFICES ASSUME WriteInv, TypeOK', [Next]_vars PROVE WriteInv'
    OBVIOUS
  <1>0. TypeOK /\ UNCHANGED log => Primary' = Primary
    BY DEF Primary
  <1>1. ASSUME NEW c \in Callers, NEW a \in Abstract!Args, Call(c, a)
        PROVE  WriteInv'
    <2>1. /\ thread'[c].pc \in {"lock", "query"} /\ thread'[c].args = a
          /\ thread'[c].pc = "lock" <=> Locks(a)
          /\ thread'[c].res = Abstract!Fails("none")
          /\ \A d \in Callers : d # c => thread'[d] = thread[d]
      BY <1>1 DEF Call, Query, WriteInv, TypeOK
    <2> QED
      BY <1>0, <1>1, <2>1, WriterStep DEF Call, WriteInv
  <1>2. ASSUME NEW c \in Callers, Lock(c)
        PROVE  WriteInv'
    <2>1. /\ thread'[c].args = thread[c].args
          /\ thread'[c].pc = IF thread[c].args.op = "Delete" THEN "query" ELSE "exec"
          /\ \A d \in Callers : d # c => thread'[d] = thread[d]
      <3>1. CASE thread[c].args.op = "Delete"
        BY <1>2, <3>1 DEF Lock, Query, WriteInv, TypeOK
      <3>2. CASE thread[c].args.op # "Delete"
        BY <1>2, <3>2 DEF Lock, WriteInv, TypeOK, Threads
      <3> QED
        BY <3>1, <3>2
    <2>2. mutex' = [mutex EXCEPT ![ProcOf[c]] = c] /\ mutex'[ProcOf[c]] = c
      BY <1>2, PostgresStoreAssumption DEF Lock, WriteInv, TypeOK
    <2>3. Locks(thread[c].args)
      BY <1>2 DEF Lock, WriteInv, WritesLock
    <2>4. \A d \in Callers : ~(thread[d].pc \in {"query", "exec", "return"}
                               /\ Locks(thread[d].args))
      BY <1>2, PostgresStoreAssumption DEF Lock, WriteInv, MutexHeld, Plain
    <2>5. Primary' = Primary
      BY <1>0, <1>2 DEF Lock, WriteInv
    <2> QED
      BY <2>1, <2>2, <2>3, <2>4, <2>5, WriterStep
  <1>3. ASSUME NEW c \in Callers, TryReplica(c)
        PROVE  FALSE
    BY <1>3, ThreadType DEF TryReplica, Plain, WriteInv
  <1>4. ASSUME NEW c \in Callers, QueryPrimary(c)
        PROVE  WriteInv'
    <2>1. Primary' = Primary /\ UNCHANGED mutex /\ thread[c].pc = "query"
      BY <1>0, <1>4 DEF QueryPrimary, WriteInv
    <2>2. ASSUME NEW result, Done(c, result) PROVE WriteInv'
      BY <2>1, <2>2, WriterDone
    <2>3. ASSUME /\ thread[c].args.op = "Delete" /\ Primary[thread[c].args.key] # NoReport
                 /\ thread' = [thread EXCEPT ![c].pc = "exec"]
          PROVE  WriteInv'
      <3>1. /\ thread'[c].pc = "exec" /\ thread'[c].args = thread[c].args
            /\ \A d \in Callers : d # c => thread'[d] = thread[d]
        BY <2>3 DEF WriteInv, TypeOK, Threads
      <3>2. mutex[ProcOf[c]] = c /\ Locks(thread[c].args)
        BY <2>1, <2>3 DEF WriteInv, MutexHeld, Locks
      <3> QED
        BY <2>1, <2>3, <3>1, <3>2, WriterStep
    <2> QED
      BY <1>4, <2>2, <2>3 DEF QueryPrimary, Rows, Get, List, DeleteRead, DbFails
  <1>5. ASSUME NEW c \in Callers, Exec(c)
        PROVE  WriteInv'
    <2>1. UNCHANGED mutex /\ thread[c].pc = "exec" /\ \E result : Done(c, result)
      BY <1>5, ExecOutcome DEF Exec, WriteInv
    <2> QED
      BY <2>1, WriterDone
  <1>6. ASSUME NEW c \in Callers, Return(c)
        PROVE  WriteInv'
    <2>1. thread'[c].pc = "idle" /\ \A d \in Callers : d # c => thread'[d] = thread[d]
      BY <1>6 DEF Return, WriteInv, TypeOK, NoThread
    <2>2. Primary' = Primary
      BY <1>0, <1>6 DEF Return, WriteInv
    <2>3. mutex' # mutex => Locks(thread[c].args) /\ thread[c].pc = "return"
      BY <1>6 DEF Return
    <2>4. mutex' # mutex => \A d \in Callers : thread[d].pc \in {"query", "exec", "return"}
                                                /\ Locks(thread[d].args) => d = c
      BY <2>3, Exclusive DEF WriteInv
    <2>5. mutex' \in {mutex, [mutex EXCEPT ![ProcOf[c]] = Nobody]}
      BY <1>6 DEF Return
    <2> QED
      BY <2>1, <2>2, <2>4, <2>5, WriterStep
  <1>7. ASSUME NEW r \in Replicas
        PROVE  FALSE
    BY <1>7 DEF Plain
  <1>8. CASE UNCHANGED vars
    BY <1>8 DEF vars, WriteInv, MutexHeld, WritesLock, StillThere, NoResultYet, Locks, Primary
  <1> QED
    BY <1>1, <1>2, <1>3, <1>4, <1>5, <1>6, <1>7, <1>8 DEF Next, Step

LEMMA WriteInit == Init => WriteInv
  <1> SUFFICES ASSUME Init PROVE WriteInv
    OBVIOUS
  <1>1. TypeOK
    BY ReadInit DEF ReadInv
  <1>2. \A c \in Callers : thread[c].pc = "idle"
    BY DEF Init, NoThread
  <1> QED
    BY <1>1, <1>2 DEF WriteInv, MutexHeld, WritesLock, StillThere, NoResultYet

\* With one server and no replicas, the methods that write exclude each other
\* and what Delete has read is still so when it deletes.
THEOREM WritesExclude == Plain => (Spec => []WriteInv)
  <1> SUFFICES ASSUME Plain PROVE Spec => []WriteInv
    OBVIOUS
  <1>1. WriteInv /\ TypeOK' /\ [Next]_vars => WriteInv'
    BY WriteStep
  <1> QED
    BY <1>1, WriteInit, TypeCorrect, PTL DEF Spec

-----------------------------------------------------------------------------
(* One server without replicas: the promise of the interface *)

\* A step that changes one caller's place, in the abstract store's terms.
LEMMA PromiseStep ==
  ASSUME TypeOK, NEW c \in Callers, NEW t, thread' = [thread EXCEPT ![c] = t]
  PROVE  [d \in Callers |-> Promise(thread[d])]' =
           [[d \in Callers |-> Promise(thread[d])] EXCEPT ![c] = Promise(t)]
  BY DEF TypeOK, Promise

\* What the abstract store does with each kind of call.
LEMMA AbstractCalls ==
  ASSUME NEW d, NEW a \in Abstract!Args
  PROVE  /\ a.op = "Get" => /\ Abstract!Succeeds(d, a) = (d[a.key] # NoReport)
                            /\ Abstract!After(d, a) = d
                            /\ Abstract!Selected(a) = {a.key}
         /\ a.op = "List" => /\ Abstract!Succeeds(d, a)
                             /\ Abstract!After(d, a) = d
                             /\ Abstract!Selected(a) = Where(a.ns)
         /\ a.op = "Create" => /\ Abstract!Succeeds(d, a) = (d[a.key] = NoReport)
                               /\ Abstract!After(d, a) = [d EXCEPT ![a.key] = a.obj]
                               /\ Abstract!Selected(a) = {}
         /\ a.op = "Update" => /\ Abstract!Succeeds(d, a)
                               /\ Abstract!After(d, a) = IF d[a.key] = NoReport THEN d
                                                         ELSE [d EXCEPT ![a.key] = a.obj]
                               /\ Abstract!Selected(a) = {}
         /\ a.op = "Delete" => /\ Abstract!Succeeds(d, a) = (d[a.key] # NoReport)
                               /\ Abstract!After(d, a) = [d EXCEPT ![a.key] = NoReport]
                               /\ Abstract!Selected(a) = {}
         /\ Abstract!Refusal(a) = IF a.op = "Create" THEN "AlreadyExists" ELSE "NotFound"
  <1>1. \A ns, m : ns \in {AllNamespaces, m} <=> ns = AllNamespaces \/ m = ns
    OBVIOUS
  <1>2. CASE a.op = "Get"
    BY <1>2 DEF Abstract!Succeeds, Abstract!After, Abstract!Selected, Abstract!Refusal
  <1>3. CASE a.op = "List"
    <2>1. Abstract!Selected(a) = {k \in Keys : a.ns \in {AllNamespaces, NsOf[k]}}
      BY <1>3 DEF Abstract!Selected
    <2>2. Abstract!Selected(a) = Where(a.ns)
      BY <1>1, <2>1 DEF Where
    <2> QED
      BY <1>3, <2>2 DEF Abstract!Succeeds, Abstract!After, Abstract!Refusal
  <1>4. CASE a.op = "Create"
    BY <1>4 DEF Abstract!Succeeds, Abstract!After, Abstract!Selected, Abstract!Refusal
  <1>5. CASE a.op = "Update"
    BY <1>5 DEF Abstract!Succeeds, Abstract!After, Abstract!Selected, Abstract!Refusal
  <1>6. CASE a.op = "Delete"
    BY <1>6 DEF Abstract!Succeeds, Abstract!After, Abstract!Selected, Abstract!Refusal
  <1> QED
    BY <1>2, <1>3, <1>4, <1>5, <1>6, ArgsType

\* A method that selects no key finds nothing.
LEMMA FoundNothing ==
  ASSUME NEW d, NEW a, Abstract!Selected(a) = {}
  PROVE  [err |-> "none", found |-> Abstract!Found(d, a)] = Abstract!Fails("none")
  BY DEF Abstract!Found, Abstract!Fails

\* Calling the store is the abstract Invoke.
LEMMA CallRefines ==
  ASSUME TypeOK, NEW c \in Callers, NEW a \in Abstract!Args, Call(c, a)
  PROVE  Abstract!Invoke(c, a)
  <1>1. PICK t : t = IF Locks(a) THEN [pc |-> "lock", args |-> a, left |-> {}, since |-> 1,
                                       res |-> Abstract!Fails("none")]
                     ELSE Query(a)
    OBVIOUS
  <1>2. Promise(t) = [st |-> "called", args |-> a, res |-> Abstract!Fails("none")]
    BY <1>1 DEF Promise, Query
  <1>3. [d \in Callers |-> Promise(thread[d])][c].st = "idle"
    BY DEF Call, Promise
  <1>4. thread' = [thread EXCEPT ![c] = t]
    BY <1>1 DEF Call
  <1>5. [d \in Callers |-> Promise(thread[d])]' =
           [[d \in Callers |-> Promise(thread[d])] EXCEPT ![c] = Promise(t)]
    BY <1>4, PromiseStep
  <1>6. Primary' = Primary
    BY DEF Call, Primary
  <1> QED
    BY <1>2, <1>3, <1>5, <1>6 DEF Abstract!Invoke

\* Going on from one place to another before the result is fixed is not
\* visible in the abstract store.
LEMMA StutterRefines ==
  ASSUME TypeOK, NEW c \in Callers, NEW t \in Threads,
         thread[c].pc \in {"lock", "query"}, t.pc \in {"query", "exec"},
         t.args = thread[c].args, t.res = thread[c].res,
         thread' = [thread EXCEPT ![c] = t], UNCHANGED log
  PROVE  UNCHANGED Abstract!vars
  <1>1. Promise(t) = Promise(thread[c])
    BY DEF Promise
  <1>2. [d \in Callers |-> Promise(thread[d])]' =
           [[d \in Callers |-> Promise(thread[d])] EXCEPT ![c] = Promise(t)]
    BY PromiseStep
  <1>3. [d \in Callers |-> Promise(thread[d])]' = [d \in Callers |-> Promise(thread[d])]
    BY <1>1, <1>2
  <1>4. Primary' = Primary
    BY DEF Primary
  <1> QED
    BY <1>3, <1>4 DEF Abstract!vars

\* Fixing the result of a method is the abstract Finish.
LEMMA DoneRefines ==
  ASSUME TypeOK, NEW c \in Callers, NEW result, thread[c].pc \in {"query", "exec"},
         Done(c, result)
  PROVE  /\ [d \in Callers |-> Promise(thread[d])][c].st = "called"
         /\ [d \in Callers |-> Promise(thread[d])][c].args = thread[c].args
         /\ Abstract!Finish(c, result)
  <1> DEFINE calls == [d \in Callers |-> Promise(thread[d])]
  <1>0. PICK t : t = Returned(thread[c], result)
    OBVIOUS
  <1>1. thread' = [thread EXCEPT ![c] = t]
    BY <1>0 DEF Done, Returned
  <1>2. Promise(t) = [st |-> "done", args |-> calls[c].args, res |-> result]
    BY <1>0 DEF Promise, Returned
  <1>3. calls[c].st = "called" /\ calls[c].args = thread[c].args
    BY DEF Promise
  <1>4. [d \in Callers |-> Promise(thread[d])]' =
           [[d \in Callers |-> Promise(thread[d])] EXCEPT ![c] = Promise(t)]
    BY <1>1, PromiseStep
  <1> QED
    BY <1>2, <1>3, <1>4 DEF Abstract!Finish

\* A statement that decides a call is the abstract Perform: it does what was
\* asked, or refuses, or fails and leaves the caller in doubt.
LEMMA PerformSucceeds ==
  ASSUME TypeOK, NEW c \in Callers, thread[c].pc \in {"query", "exec"},
         Abstract!Succeeds(Primary, thread[c].args),
         Primary' = Abstract!After(Primary, thread[c].args),
         Done(c, [err |-> "none", found |-> Abstract!Found(Primary, thread[c].args)])
  PROVE  Abstract!Perform(c)
  BY DoneRefines DEF Abstract!Perform

\* The refusal.
LEMMA PerformRefuses ==
  ASSUME TypeOK, NEW c \in Callers, thread[c].pc \in {"query", "exec"},
         ~Abstract!Succeeds(Primary, thread[c].args), Primary' = Primary,
         NEW err, err = Abstract!Refusal(thread[c].args), Done(c, Abstract!Fails(err))
  PROVE  Abstract!Perform(c)
  BY DoneRefines DEF Abstract!Perform

\* The failure.
LEMMA PerformFails ==
  ASSUME TypeOK, NEW c \in Callers, thread[c].pc \in {"query", "exec"}, DbFails(c),
         \/ Primary' = Primary
         \/ /\ Abstract!Succeeds(Primary, thread[c].args)
            /\ Primary' = Abstract!After(Primary, thread[c].args)
  PROVE  Abstract!Perform(c)
  BY DoneRefines DEF Abstract!Perform, DbFails

\* Returning from a method is the abstract Reply.
LEMMA ReturnRefines ==
  ASSUME TypeOK, NEW c \in Callers, Return(c)
  PROVE  Abstract!Reply(c)
  <1>1. Promise(NoThread) = Abstract!NoCall
    BY DEF Promise, NoThread, Abstract!NoCall
  <1>2. [d \in Callers |-> Promise(thread[d])][c].st = "done"
    BY DEF Return, Promise
  <1>3. [d \in Callers |-> Promise(thread[d])]' =
           [[d \in Callers |-> Promise(thread[d])] EXCEPT ![c] = Promise(NoThread)]
    BY PromiseStep DEF Return
  <1>4. Primary' = Primary
    BY DEF Return, Primary
  <1> QED
    BY <1>1, <1>2, <1>3, <1>4 DEF Abstract!Reply

\* A method that waits for the mutex gets it.
LEMMA LockRefines ==
  ASSUME WriteInv, NEW c \in Callers, Lock(c)
  PROVE  UNCHANGED Abstract!vars
  <1>0. TypeOK /\ thread[c] \in Threads /\ thread[c].pc = "lock"
    BY ThreadType DEF WriteInv, Lock
  <1>1. thread[c].res = Abstract!Fails("none") /\ UNCHANGED log
    BY <1>0 DEF WriteInv, NoResultYet, Lock
  <1>2. CASE thread[c].args.op = "Delete"
    <2>1. PICK t : t = Query(thread[c].args)
      OBVIOUS
    <2>2. /\ t \in Threads /\ t.pc = "query"
          /\ t.args = thread[c].args /\ t.res = Abstract!Fails("none")
      BY <1>0, <2>1, ThreadType, QueryType DEF Query
    <2>3. thread' = [thread EXCEPT ![c] = t]
      BY <1>0, <1>2, <2>1 DEF Lock, TypeOK
    <2> QED
      BY <1>0, <1>1, <2>2, <2>3, StutterRefines
  <1>3. CASE thread[c].args.op # "Delete"
    <2>1. PICK t : t = [thread[c] EXCEPT !.pc = "exec"]
      OBVIOUS
    <2>2. t \in Threads /\ t.pc = "exec" /\ t.args = thread[c].args /\ t.res = thread[c].res
      BY <1>0, <2>1 DEF Threads, Places
    <2>3. thread' = [thread EXCEPT ![c] = t]
      BY <1>0, <1>3, <2>1 DEF Lock, TypeOK
    <2> QED
      BY <1>0, <1>1, <2>2, <2>3, StutterRefines
  <1> QED
    BY <1>2, <1>3

\* The primary answers the query of a Get, a List or a Delete.
LEMMA QueryRefines ==
  ASSUME Plain, WriteInv, NEW c \in Callers, QueryPrimary(c)
  PROVE  Abstract!Perform(c) \/ UNCHANGED Abstract!vars
  <1> DEFINE a == thread[c].args
  <1>0. /\ TypeOK /\ thread[c] \in Threads /\ a \in Abstract!Args
        /\ thread[c].pc = "query" /\ UNCHANGED log
    BY ThreadType DEF WriteInv, QueryPrimary
  <1>1. Primary' = Primary
    BY <1>0 DEF Primary
  <1>2. CASE DbFails(c)
    BY <1>0, <1>1, <1>2, PerformFails
  <1>3. CASE Get(c, Primary)
    <2>1. /\ Abstract!Succeeds(Primary, a) = (Primary[a.key] # NoReport)
          /\ Abstract!After(Primary, a) = Primary
          /\ Abstract!Selected(a) = {a.key}
          /\ Abstract!Refusal(a) = "NotFound"
      BY <1>0, <1>3, AbstractCalls DEF Get
    <2>2. [k \in Keys |-> IF k = a.key THEN Primary[k] ELSE NoReport] = Abstract!Found(Primary, a)
      BY <2>1 DEF Abstract!Found
    <2>3. CASE /\ Primary[a.key] # NoReport
               /\ Done(c, [err |-> "none", found |-> Abstract!Found(Primary, a)])
      BY <1>0, <1>1, <2>1, <2>3, PerformSucceeds
    <2>4. CASE Primary[a.key] = NoReport /\ Done(c, Abstract!Fails("NotFound"))
      BY <1>0, <1>1, <2>1, <2>4, PerformRefuses
    <2> QED
      BY <1>2, <1>3, <2>2, <2>3, <2>4 DEF Get
  <1>4. CASE List(c, Primary)
    <2>1. /\ Abstract!Succeeds(Primary, a) /\ Abstract!After(Primary, a) = Primary
          /\ Abstract!Selected(a) = Where(a.ns)
      BY <1>0, <1>4, AbstractCalls DEF List
    <2>2. [k \in Keys |-> IF k \in Where(a.ns) THEN Primary[k] ELSE NoReport]
            = Abstract!Found(Primary, a)
      BY <2>1 DEF Abstract!Found
    <2>3. CASE Done(c, [err |-> "none", found |-> Abstract!Found(Primary, a)])
      BY <1>0, <1>1, <2>1, <2>3, PerformSucceeds
    <2>4. \/ DbFails(c)
          \/ Done(c, [err |-> "none",
                      found |-> [k \in Keys |-> IF k \in Where(a.ns) THEN Primary[k] ELSE NoReport]])
      BY <1>4 DEF List, Plain
    <2> QED
      BY <1>2, <2>2, <2>3, <2>4
  <1>5. CASE DeleteRead(c, Primary)
    <2>1. /\ Abstract!Succeeds(Primary, a) = (Primary[a.key] # NoReport)
          /\ Abstract!Refusal(a) = "NotFound"
      BY <1>0, <1>5, AbstractCalls DEF DeleteRead
    <2>2. CASE thread' = [thread EXCEPT ![c].pc = "exec"]
      <3>1. PICK t : t = [thread[c] EXCEPT !.pc = "exec"]
        OBVIOUS
      <3>2. t \in Threads /\ t.pc = "exec" /\ t.args = a /\ t.res = thread[c].res
        BY <1>0, <3>1 DEF Threads, Places
      <3>3. thread' = [thread EXCEPT ![c] = t]
        BY <1>0, <2>2, <3>1 DEF TypeOK
      <3> QED
        BY <1>0, <3>2, <3>3, StutterRefines
    <2>3. CASE Primary[a.key] = NoReport /\ Done(c, Abstract!Fails("NotFound"))
      BY <1>0, <1>1, <2>1, <2>3, PerformRefuses
    <2> QED
      BY <1>2, <1>5, <2>2, <2>3 DEF DeleteRead
  <1> QED
    BY <1>2, <1>3, <1>4, <1>5 DEF QueryPrimary, Rows

\* The statement of a Create, an Update or a Delete decides it.
LEMMA ExecRefines ==
  ASSUME WriteInv, NEW c \in Callers, Exec(c)
  PROVE  Abstract!Perform(c)
  <1> DEFINE a == thread[c].args
  <1>0. TypeOK /\ a \in Abstract!Args /\ thread[c].pc = "exec" /\ Primary \in Tables
    BY ThreadType, PrimaryType DEF WriteInv, Exec
  <1>1. UNCHANGED log => Primary' = Primary
    BY DEF Primary
  <1>2. ASSUME NEW x \in Reports \cup {NoReport}, Writes([Primary EXCEPT ![a.key] = x])
        PROVE  Primary' = [Primary EXCEPT ![a.key] = x]
    <2>1. [Primary EXCEPT ![a.key] = x] \in Tables
      BY <1>0 DEF Tables
    <2> QED
      BY <1>0, <1>2, <2>1, WritesPrimary
  <1>3. ASSUME Abstract!Succeeds(Primary, a), Primary' = Abstract!After(Primary, a),
               Abstract!Selected(a) = {}, Done(c, Abstract!Fails("none")) \/ DbFails(c)
        PROVE  Abstract!Perform(c)
    <2>1. [err |-> "none", found |-> Abstract!Found(Primary, a)] = Abstract!Fails("none")
      BY <1>3, FoundNothing
    <2>2. CASE Done(c, Abstract!Fails("none"))
      BY <1>0, <1>3, <2>1, <2>2, PerformSucceeds
    <2>3. CASE DbFails(c)
      BY <1>0, <1>3, <2>3, PerformFails
    <2> QED
      BY <1>3, <2>2, <2>3
  <1>4. CASE Insert(c)
    <2>1. /\ a.op = "Create" /\ a.obj \in Reports /\ Abstract!Selected(a) = {}
          /\ Abstract!Succeeds(Primary, a) = (Primary[a.key] = NoReport)
          /\ Abstract!After(Primary, a) = [Primary EXCEPT ![a.key] = a.obj]
          /\ Abstract!Refusal(a) = "AlreadyExists"
      BY <1>0, <1>4, AbstractCalls, ArgsType DEF Insert
    <2>2. CASE /\ Primary[a.key] = NoReport /\ Writes([Primary EXCEPT ![a.key] = a.obj])
               /\ Done(c, Abstract!Fails("none")) \/ DbFails(c)
      BY <1>2, <1>3, <2>1, <2>2
    <2>3. CASE /\ Primary[a.key] # NoReport /\ UNCHANGED log
               /\ Done(c, Abstract!Fails("AlreadyExists"))
      BY <1>0, <1>1, <2>1, <2>3, PerformRefuses
    <2> QED
      BY <1>4, <2>2, <2>3 DEF Insert
  <1>5. CASE Update(c)
    <2>1. /\ a.op = "Update" /\ a.obj \in Reports /\ Abstract!Selected(a) = {}
          /\ Abstract!Succeeds(Primary, a)
          /\ Abstract!After(Primary, a) = IF Primary[a.key] = NoReport THEN Primary
                                          ELSE [Primary EXCEPT ![a.key] = a.obj]
      BY <1>0, <1>5, AbstractCalls, ArgsType DEF Update
    <2>2. Primary' = Abstract!After(Primary, a)
      BY <1>1, <1>2, <1>5, <2>1 DEF Update
    <2> QED
      BY <1>3, <1>5, <2>1, <2>2 DEF Update
  <1>6. CASE Delete(c)
    <2>1. /\ a.op = "Delete" /\ Abstract!Selected(a) = {}
          /\ Abstract!Succeeds(Primary, a) = (Primary[a.key] # NoReport)
          /\ Abstract!After(Primary, a) = [Primary EXCEPT ![a.key] = NoReport]
      BY <1>0, <1>6, AbstractCalls DEF Delete
    <2>2. Primary[a.key] # NoReport
      BY <1>0, <2>1 DEF WriteInv, StillThere
    <2>3. Primary' = Abstract!After(Primary, a)
      BY <1>2, <1>6, <2>1, <2>2 DEF Delete
    <2> QED
      BY <1>3, <1>6, <2>1, <2>2, <2>3 DEF Delete
  <1>7. CASE UNCHANGED log /\ DbFails(c)
    BY <1>0, <1>1, <1>7, PerformFails
  <1> QED
    BY <1>4, <1>5, <1>6, <1>7 DEF Exec

\* Every step of the store is a step of the abstract one or invisible.
LEMMA StepRefines ==
  ASSUME Plain
  PROVE  WriteInv /\ [Next]_vars => [Abstract!Next]_(Abstract!vars)
  <1> SUFFICES ASSUME WriteInv, [Next]_vars PROVE [Abstract!Next]_(Abstract!vars)
    OBVIOUS
  <1>0. TypeOK
    BY DEF WriteInv
  <1>1. ASSUME NEW c \in Callers, NEW a \in Abstract!Args, Call(c, a)
        PROVE  Abstract!Next
    BY <1>0, <1>1, CallRefines DEF Abstract!Next
  <1>2. ASSUME NEW c \in Callers, Lock(c)
        PROVE  UNCHANGED Abstract!vars
    BY <1>2, LockRefines
  <1>3. ASSUME NEW c \in Callers, TryReplica(c)
        PROVE  FALSE
    BY <1>0, <1>3, ThreadType DEF TryReplica, Plain
  <1>4. ASSUME NEW c \in Callers, QueryPrimary(c) \/ Exec(c) \/ Return(c)
        PROVE  Abstract!Next \/ UNCHANGED Abstract!vars
    BY <1>0, <1>4, QueryRefines, ExecRefines, ReturnRefines DEF Abstract!Next
  <1>5. ASSUME NEW r \in Replicas
        PROVE  FALSE
    BY <1>5 DEF Plain
  <1>6. CASE UNCHANGED vars
    BY <1>6 DEF vars, Abstract!vars, Primary
  <1> QED
    BY <1>1, <1>2, <1>3, <1>4, <1>5, <1>6 DEF Next, Step

\* The store starts as the abstract one does.
LEMMA InitRefines == Init => Abstract!Init
  <1> SUFFICES ASSUME Init PROVE Abstract!Init
    OBVIOUS
  <1>1. Promise(NoThread) = Abstract!NoCall
    BY DEF Promise, NoThread, Abstract!NoCall
  <1>2. [c \in Callers |-> Promise(thread[c])] = [c \in Callers |-> Abstract!NoCall]
    BY <1>1 DEF Init
  <1>3. Primary \in Tables
    BY WriteInit, PrimaryType DEF WriteInv
  <1> QED
    BY <1>2, <1>3 DEF Abstract!Init, Tables

\* With one server, without replicas and with whole answers, each method of
\* the Postgres store behaves as if it happened at one moment: the Postgres
\* store implements the storage interface.
THEOREM Implements == Plain => (Spec => KeepsPromise)
  <1> SUFFICES ASSUME Plain PROVE Spec => Abstract!Spec
    BY DEF KeepsPromise
  <1>1. Spec => []WriteInv
    BY WritesExclude
  <1>2. WriteInv /\ [Next]_vars => [Abstract!Next]_(Abstract!vars)
    BY StepRefines
  <1> QED
    BY <1>1, <1>2, InitRefines, PTL DEF Spec, Abstract!Spec

=============================================================================
