-------------------------- MODULE EtcdStoreProofs ---------------------------
(***************************************************************************)
(* Proofs about EtcdStore, for any callers, keys, namespaces and reports   *)
(* and with or without failures of etcd: with one server process, what     *)
(* Create and Update saw of a key is still true when they put it, and so   *)
(* every method does what the storage interface promises in one step; and  *)
(* with any number of servers no mutex is left locked by nobody.           *)
(***************************************************************************)
EXTENDS EtcdStore, TLAPS

USE DEF Abstract!Nothing, Abstract!MaybeReports

\* The arguments and results that a caller starts with are well typed.
LEMMA FailsType ==
  ASSUME NEW err \in Abstract!Errors
  PROVE  Abstract!Fails(err) \in Abstract!Results
  BY DEF Abstract!Fails, Abstract!Results

\* A caller that is in no method has a well-typed place.
LEMMA NoThreadType == NoThread \in Threads
  <1>1. Abstract!SomeKey \in Keys
    BY EtcdStoreAssumption DEF Abstract!SomeKey
  <1>2. Abstract!NoArgs \in Abstract!Args
    BY <1>1 DEF Abstract!NoArgs, Abstract!Args
  <1>3. Abstract!Fails("none") \in Abstract!Results
    BY FailsType DEF Abstract!Errors
  <1> QED
    BY <1>2, <1>3 DEF NoThread, Threads, Places

\* What the arguments of a call look like.
LEMMA ArgsType ==
  ASSUME NEW a \in Abstract!Args
  PROVE  /\ a.op \in {"Create", "Update", "Get", "Delete", "List"}
         /\ a.op \in {"Create", "Update"} => a.obj \in Reports
         /\ a.op # "List" => a.key \in Keys
  BY DEF Abstract!Args

\* A step that changes one caller's place, in the abstract store's terms.
LEMMA PromiseStep ==
  ASSUME TypeOK, NEW c \in Callers, NEW t, thread' = [thread EXCEPT ![c] = t]
  PROVE  /\ [d \in Callers |-> Promise(thread[d])]' =
              [[d \in Callers |-> Promise(thread[d])] EXCEPT ![c] = Promise(t)]
         /\ thread'[c] = t
         /\ \A d \in Callers : d # c => thread'[d] = thread[d]
  BY DEF TypeOK, Promise

-----------------------------------------------------------------------------
(* The inductive invariant, for any number of servers *)

\* In one process there is at most one caller inside a method.
LEMMA Exclusive ==
  ASSUME ServersInv, NEW c \in Callers, NEW d \in Callers, ProcOf[c] = ProcOf[d],
         thread[c].pc \in {"check", "put", "unlock"},
         thread[d].pc \in {"check", "put", "unlock"}
  PROVE  c = d
  BY DEF ServersInv, MutexHeld

\* A caller inside a method goes on in it, to the put or to the end.
LEMMA InsideStep ==
  ASSUME ServersInv, NEW c \in Callers, NEW t \in Threads,
         thread[c].pc \in {"check", "put"},
         \/ t.pc = "unlock"
         \/ t.pc = "put" /\ t.args.op \in {"Create", "Update"},
         thread' = [thread EXCEPT ![c] = t],
         etcd' \in [Keys -> Reports \cup {NoReport}],
         UNCHANGED mutex
  PROVE  ServersInv'
  <1>1. thread'[c] = t /\ \A d \in Callers : d # c => thread'[d] = thread[d]
    BY DEF ServersInv, TypeOK
  <1>2. TypeOK'
    BY DEF ServersInv, TypeOK
  <1>3. MutexHeld' /\ PutsOnly'
    BY <1>1 DEF ServersInv, MutexHeld, PutsOnly
  <1> QED
    BY <1>2, <1>3 DEF ServersInv

\* A caller inside a method fixes its result.
LEMMA DoneStep ==
  ASSUME ServersInv, NEW c \in Callers, NEW result \in Abstract!Results,
         thread[c].pc \in {"check", "put"},
         Done(c, result),
         etcd' \in [Keys -> Reports \cup {NoReport}],
         UNCHANGED mutex
  PROVE  ServersInv'
  <1> DEFINE t == [pc |-> "unlock", args |-> thread[c].args, res |-> result]
  <1>1. t \in Threads /\ t.pc = "unlock"
    BY DEF ServersInv, TypeOK, Threads, Places
  <1>2. thread' = [thread EXCEPT ![c] = t]
    BY DEF Done
  <1> HIDE DEF t
  <1> QED
    BY <1>1, <1>2, InsideStep

\* A caller has seen what it needs and goes on to put the key.
LEMMA ToPutStep ==
  ASSUME ServersInv, NEW c \in Callers, thread[c].pc = "check",
         thread[c].args.op \in {"Create", "Update"},
         thread' = [thread EXCEPT ![c].pc = "put"],
         UNCHANGED <<etcd, mutex>>
  PROVE  ServersInv'
  <1> DEFINE t == [thread[c] EXCEPT !.pc = "put"]
  <1>1. t \in Threads /\ t.pc = "put" /\ t.args = thread[c].args
    BY DEF ServersInv, TypeOK, Threads, Places
  <1>2. thread' = [thread EXCEPT ![c] = t]
    BY DEF ServersInv, TypeOK
  <1>3. etcd' \in [Keys -> Reports \cup {NoReport}]
    BY DEF ServersInv, TypeOK
  <1> HIDE DEF t
  <1> QED
    BY <1>1, <1>2, <1>3, InsideStep

\* The results the methods compute are well typed.
LEMMA ResultTypes ==
  ASSUME TypeOK, NEW S
  PROVE  /\ \A err \in {"none", "NotFound", "AlreadyExists", "unavailable"} :
              Abstract!Fails(err) \in Abstract!Results
         /\ [err |-> "none", found |-> [k \in Keys |-> IF k \in S THEN etcd[k] ELSE NoReport]]
              \in Abstract!Results
  BY FailsType DEF TypeOK, Abstract!Results, Abstract!Errors

\* Every step of a method that holds the mutex keeps the invariant.
LEMMA LockedPreserves ==
  ASSUME ServersInv, NEW c \in Callers, Locked(c)
  PROVE  ServersInv'
  <1>0. /\ TypeOK /\ thread[c] \in Threads /\ thread[c].args \in Abstract!Args
        /\ etcd \in [Keys -> Reports \cup {NoReport}]
    BY DEF ServersInv, TypeOK, Threads
  <1>1. CASE Get(c)
    <2> DEFINE S == {thread[c].args.key}
               result == [err |-> "none",
                          found |-> [k \in Keys |-> IF k \in S THEN etcd[k] ELSE NoReport]]
    <2>1. result \in Abstract!Results
      BY <1>0, ResultTypes
    <2>2. result = [err |-> "none", found |-> [k \in Keys |->
                      IF k = thread[c].args.key THEN etcd[k] ELSE NoReport]]
      OBVIOUS
    <2>3. Done(c, result) \/ Done(c, Abstract!Fails("NotFound"))
            \/ Done(c, Abstract!Fails("unavailable"))
      BY <1>1, <2>2 DEF Get, EtcdFails
    <2> HIDE DEF result
    <2> QED
      BY <1>0, <1>1, <2>1, <2>3, ResultTypes, DoneStep DEF Get
  <1>2. CASE List(c)
    <2> DEFINE result == [err |-> "none",
                          found |-> [k \in Keys |-> IF k \in getPrefix(thread[c].args.ns)
                                                    THEN etcd[k] ELSE NoReport]]
    <2>1. result \in Abstract!Results
      BY <1>0, ResultTypes
    <2>2. Done(c, result) \/ Done(c, Abstract!Fails("unavailable"))
      BY <1>2 DEF List, EtcdFails
    <2> HIDE DEF result
    <2> QED
      BY <1>0, <1>2, <2>1, <2>2, ResultTypes, DoneStep DEF List
  <1>3. CASE CreateCheck(c)
    <2>1. CASE thread' = [thread EXCEPT ![c].pc = "put"]
               /\ etcd[thread[c].args.key] = NoReport
      BY <1>3, <2>1, ToPutStep DEF CreateCheck
    <2>2. CASE \E err \in {"AlreadyExists", "unavailable"} : Done(c, Abstract!Fails(err))
      BY <1>0, <1>3, <2>2, ResultTypes, DoneStep DEF CreateCheck
    <2> QED
      BY <1>3, <2>1, <2>2 DEF CreateCheck, EtcdFails
  <1>4. CASE UpdateCheck(c)
    <2>1. CASE thread' = [thread EXCEPT ![c].pc = "put"]
               /\ etcd[thread[c].args.key] # NoReport
      BY <1>4, <2>1, ToPutStep DEF UpdateCheck
    <2>2. CASE \E err \in {"NotFound", "unavailable"} : Done(c, Abstract!Fails(err))
      BY <1>0, <1>4, <2>2, ResultTypes, DoneStep DEF UpdateCheck
    <2> QED
      BY <1>4, <2>1, <2>2 DEF UpdateCheck, EtcdFails
  <1>5. CASE Put(c)
    <2>1. thread[c].args.obj \in Reports
      BY <1>0, <1>5, ArgsType DEF Put, ServersInv, PutsOnly
    <2>2. etcd' \in [Keys -> Reports \cup {NoReport}]
      BY <1>0, <1>5, <2>1 DEF Put
    <2>3. \E err \in {"none", "unavailable"} : Done(c, Abstract!Fails(err))
      BY <1>5 DEF Put, EtcdFails
    <2> QED
      BY <1>0, <1>5, <2>2, <2>3, ResultTypes, DoneStep DEF Put
  <1>6. CASE Delete(c)
    <2>1. etcd' \in [Keys -> Reports \cup {NoReport}]
      BY <1>0, <1>6 DEF Delete
    <2>2. \E err \in {"none", "NotFound", "unavailable"} : Done(c, Abstract!Fails(err))
      BY <1>6 DEF Delete, EtcdFails
    <2> QED
      BY <1>0, <1>6, <2>1, <2>2, ResultTypes, DoneStep DEF Delete
  <1>7. CASE Unlock(c)
    <2>1. thread'[c] = NoThread /\ NoThread.pc = "idle"
          /\ \A d \in Callers : d # c => thread'[d] = thread[d]
      BY <1>0, <1>7 DEF Unlock, TypeOK, NoThread
    <2>2. TypeOK'
      BY <1>0, <1>7, NoThreadType, EtcdStoreAssumption DEF Unlock, TypeOK
    <2>3. \A d \in Callers : mutex'[ProcOf[d]] = IF ProcOf[d] = ProcOf[c] THEN Nobody
                                               ELSE mutex[ProcOf[d]]
      BY <1>0, <1>7, EtcdStoreAssumption DEF Unlock, TypeOK
    <2>4. mutex[ProcOf[c]] = c
      BY <1>7 DEF Unlock, ServersInv, MutexHeld
    <2>5. MutexHeld'
      BY <2>1, <2>3, <2>4, EtcdStoreAssumption DEF ServersInv, MutexHeld
    <2>6. PutsOnly'
      BY <2>1 DEF ServersInv, PutsOnly
    <2> QED
      BY <2>2, <2>5, <2>6 DEF ServersInv
  <1> QED
    BY <1>1, <1>2, <1>3, <1>4, <1>5, <1>6, <1>7 DEF Locked

\* Calling a method keeps the invariant.
LEMMA CallPreserves ==
  ASSUME ServersInv, NEW c \in Callers, NEW a \in Abstract!Args, Call(c, a)
  PROVE  ServersInv'
  <1> DEFINE t == [pc |-> "lock", args |-> a, res |-> Abstract!Fails("none")]
  <1>1. t \in Threads /\ t.pc = "lock"
    <2>1. Abstract!Fails("none") \in Abstract!Results
      BY FailsType DEF Abstract!Errors
    <2> QED
      BY <2>1 DEF Threads, Places
  <1>2. thread' = [thread EXCEPT ![c] = t] /\ UNCHANGED <<etcd, mutex>>
    BY DEF Call
  <1> HIDE DEF t
  <1>3. thread'[c] = t /\ \A d \in Callers : d # c => thread'[d] = thread[d]
    BY <1>2 DEF ServersInv, TypeOK
  <1>4. TypeOK'
    BY <1>1, <1>2 DEF ServersInv, TypeOK
  <1> QED
    BY <1>1, <1>2, <1>3, <1>4 DEF Call, ServersInv, MutexHeld, PutsOnly

\* Taking the mutex keeps the invariant: nobody else of the process was inside.
LEMMA LockPreserves ==
  ASSUME ServersInv, NEW c \in Callers, Lock(c)
  PROVE  ServersInv'
  <1> DEFINE t == [thread[c] EXCEPT !.pc = "check"]
  <1>1. t \in Threads /\ t.pc = "check"
    BY DEF ServersInv, TypeOK, Threads, Places
  <1>2. thread' = [thread EXCEPT ![c] = t] /\ mutex' = [mutex EXCEPT ![ProcOf[c]] = c]
    BY DEF Lock, ServersInv, TypeOK
  <1>3. thread'[c] = t /\ \A d \in Callers : d # c => thread'[d] = thread[d]
    BY <1>2 DEF ServersInv, TypeOK
  <1>4. TypeOK'
    <2> HIDE DEF t
    <2>1. thread' \in [Callers -> Threads]
      BY <1>1, <1>2 DEF ServersInv, TypeOK
    <2>2. mutex' \in [Procs -> Callers \cup {Nobody}]
      BY <1>2, EtcdStoreAssumption DEF ServersInv, TypeOK
    <2> QED
      BY <2>1, <2>2 DEF Lock, ServersInv, TypeOK
  <1>5. \A d \in Callers : mutex'[ProcOf[d]] = IF ProcOf[d] = ProcOf[c] THEN c
                                             ELSE mutex[ProcOf[d]]
    BY <1>2, EtcdStoreAssumption DEF ServersInv, TypeOK
  <1>6. \A d \in Callers : ProcOf[d] = ProcOf[c] =>
                             thread[d].pc \notin {"check", "put", "unlock"}
    BY EtcdStoreAssumption DEF Lock, ServersInv, MutexHeld
  <1> HIDE DEF t
  <1>7. MutexHeld'
    BY <1>1, <1>3, <1>5, <1>6 DEF ServersInv, MutexHeld
  <1>8. PutsOnly'
    BY <1>1, <1>3 DEF ServersInv, PutsOnly
  <1> QED
    BY <1>4, <1>7, <1>8 DEF ServersInv

\* Every step keeps the invariant.
LEMMA ServersStep == ServersInv /\ [Next]_vars => ServersInv'
  <1> SUFFICES ASSUME ServersInv, [Next]_vars PROVE ServersInv'
    OBVIOUS
  <1>1. CASE Next
    BY <1>1, CallPreserves, LockPreserves, LockedPreserves DEF Next
  <1>2. CASE UNCHANGED vars
    BY <1>2 DEF vars, ServersInv, TypeOK, MutexHeld, PutsOnly
  <1> QED
    BY <1>1, <1>2

\* The invariants hold at the start: nobody is inside a method.
LEMMA InitInv == Init => Inv
  <1> SUFFICES ASSUME Init PROVE Inv
    OBVIOUS
  <1>1. TypeOK
    BY NoThreadType DEF Init, TypeOK
  <1>2. \A c \in Callers : thread[c].pc = "idle" /\ mutex[ProcOf[c]] = Nobody
    BY EtcdStoreAssumption DEF Init, NoThread
  <1> QED
    BY <1>1, <1>2, EtcdStoreAssumption DEF Inv, ServersInv, MutexHeld, PutsOnly, CheckStillTrue

\* The methods of the etcd store keep the invariant, whatever the number of
\* servers that use the same etcd.
THEOREM ServersInvariance == Spec => []ServersInv
  <1>1. Init => ServersInv
    BY InitInv DEF Inv
  <1> QED
    BY <1>1, ServersStep, PTL DEF Spec

\* Type correctness, whatever the number of servers.
THEOREM TypeCorrect == Spec => []TypeOK
  BY ServersInvariance, PTL DEF ServersInv

-----------------------------------------------------------------------------
(* Nobody waits for a method that is gone *)

\* A mutex is locked by a caller of its own process.
HeldByOwn == \A p \in Procs : mutex[p] # Nobody => ProcOf[mutex[p]] = p

LEMMA HeldByOwnStep == ServersInv /\ HeldByOwn /\ [Next]_vars => HeldByOwn'
  <1> SUFFICES ASSUME ServersInv, HeldByOwn, [Next]_vars PROVE HeldByOwn'
    OBVIOUS
  <1>1. CASE UNCHANGED mutex
    BY <1>1 DEF HeldByOwn
  <1>2. ASSUME NEW c \in Callers, NEW x \in {c, Nobody}, mutex' = [mutex EXCEPT ![ProcOf[c]] = x]
        PROVE  HeldByOwn'
    <2> SUFFICES ASSUME NEW p \in Procs, mutex'[p] # Nobody PROVE ProcOf[mutex'[p]] = p
      BY DEF HeldByOwn
    <2>1. mutex'[p] = IF p = ProcOf[c] THEN x ELSE mutex[p]
      BY <1>2, EtcdStoreAssumption DEF ServersInv, TypeOK
    <2> QED
      BY <2>1 DEF HeldByOwn
  <1>3. CASE Next
    <2>1. PICK c \in Callers : (\E a \in Abstract!Args : Call(c, a)) \/ Lock(c) \/ Locked(c)
      BY <1>3 DEF Next
    <2>2. CASE Lock(c)
      BY <1>2, <2>2 DEF Lock
    <2>3. CASE Unlock(c)
      BY <1>2, <2>3 DEF Unlock
    <2>4. CASE ~Lock(c) /\ ~Unlock(c)
      BY <1>1, <2>1, <2>4 DEF Call, Locked, Get, List, CreateCheck, UpdateCheck, Put, Delete
    <2> QED
      BY <2>2, <2>3, <2>4
  <1> QED
    BY <1>1, <1>3 DEF vars

\* For any number of servers and callers: a locked mutex is that of a method in
\* progress in the same server, past its Lock, so that its next step waits for
\* no caller.
THEOREM MutexNeverOrphaned == Spec => []MutexServes
  <1>1. Init => HeldByOwn
    BY DEF Init, HeldByOwn
  <1>2. ServersInv /\ HeldByOwn => MutexServes
    <2> SUFFICES ASSUME ServersInv, HeldByOwn, NEW p \in Procs, mutex[p] # Nobody
                 PROVE  ProcOf[mutex[p]] = p /\ thread[mutex[p]].pc \in {"check", "put", "unlock"}
      BY DEF MutexServes
    <2>1. PICK c \in Callers : mutex[p] = c
      BY DEF ServersInv, TypeOK
    <2> QED
      BY <2>1 DEF HeldByOwn, ServersInv, MutexHeld
  <1> QED
    BY <1>1, <1>2, HeldByOwnStep, ServersInvariance, PTL DEF Spec

-----------------------------------------------------------------------------
(* What a caller saw of its key, until it puts it *)

\* The other callers of a step of c: what they saw changes only if c wrote,
\* which it does inside a method and ends with.
LEMMA OthersStep ==
  ASSUME ServersInv, NEW c \in Callers,
         (\E a \in Abstract!Args : Call(c, a)) \/ Lock(c) \/ Locked(c)
  PROVE  /\ \A d \in Callers : d # c => thread'[d] = thread[d]
         /\ \/ UNCHANGED etcd
            \/ thread[c].pc \in {"check", "put"} /\ thread'[c].pc = "unlock"
  <1>0. thread \in [Callers -> Threads]
    BY DEF ServersInv, TypeOK
  <1>1. ASSUME NEW result, Done(c, result)
        PROVE  thread'[c].pc = "unlock" /\ \A d \in Callers : d # c => thread'[d] = thread[d]
    BY <1>0, <1>1 DEF Done
  <1>2. CASE (\E a \in Abstract!Args : Call(c, a)) \/ Lock(c) \/ Unlock(c)
    BY <1>0, <1>2 DEF Call, Lock, Unlock
  <1>3. CASE Get(c) \/ List(c)
    BY <1>1, <1>3 DEF Get, List, EtcdFails
  <1>4. CASE CreateCheck(c) \/ UpdateCheck(c)
    BY <1>0, <1>1, <1>4 DEF CreateCheck, UpdateCheck, EtcdFails
  <1>5. CASE Put(c)
    BY <1>1, <1>5 DEF Put, EtcdFails
  <1>6. CASE Delete(c)
    BY <1>1, <1>6 DEF Delete, EtcdFails
  <1> QED
    BY <1>2, <1>3, <1>4, <1>5, <1>6 DEF Locked

\* A caller comes to its put only from its check, having seen what it needs.
LEMMA ComesToPut ==
  ASSUME ServersInv, NEW c \in Callers,
         (\E a \in Abstract!Args : Call(c, a)) \/ Lock(c) \/ Locked(c),
         thread'[c].pc = "put"
  PROVE  Checked(c)'
  <1>0. thread \in [Callers -> Threads] /\ thread[c] \in Threads
    BY DEF ServersInv, TypeOK
  <1>1. ASSUME NEW result, Done(c, result)
        PROVE  thread'[c].pc = "unlock"
    BY <1>0, <1>1 DEF Done
  <1>2. ~Lock(c) /\ ~Unlock(c) /\ \A a \in Abstract!Args : ~Call(c, a)
    BY <1>0 DEF Call, Lock, Unlock, NoThread, Threads
  <1>3. ~Get(c) /\ ~List(c) /\ ~Put(c) /\ ~Delete(c)
    BY <1>1 DEF Get, List, Put, Delete, EtcdFails
  <1>4. CASE CreateCheck(c)
    <2>1. /\ etcd[thread[c].args.key] = NoReport /\ thread[c].args.op = "Create"
          /\ thread' = [thread EXCEPT ![c].pc = "put"] /\ etcd' = etcd
      BY <1>1, <1>4 DEF CreateCheck, EtcdFails
    <2>2. thread'[c].args = thread[c].args
      BY <1>0, <2>1 DEF Threads
    <2> QED
      BY <2>1, <2>2 DEF Checked
  <1>5. CASE UpdateCheck(c)
    <2>1. /\ etcd[thread[c].args.key] # NoReport /\ thread[c].args.op = "Update"
          /\ thread' = [thread EXCEPT ![c].pc = "put"] /\ etcd' = etcd
      BY <1>1, <1>5 DEF UpdateCheck, EtcdFails
    <2>2. thread'[c].args = thread[c].args
      BY <1>0, <2>1 DEF Threads
    <2> QED
      BY <2>1, <2>2 DEF Checked
  <1> QED
    BY <1>2, <1>3, <1>4, <1>5 DEF Locked

\* What a caller at its put saw becomes false only by a request of a caller
\* that is not excluded by the mutex: one of another process.
LEMMA InterferenceStep ==
  ASSUME ServersInv, [Next]_vars, NEW c \in Callers,
         thread'[c].pc = "put", ~Checked(c)',
         thread[c].pc = "put" => Checked(c)
  PROVE  /\ thread[c].pc = "put"
         /\ \E d \in Callers : /\ ProcOf[d] # ProcOf[c]
                              /\ thread[d].pc # "unlock" /\ thread'[d].pc = "unlock"
  <1>1. CASE UNCHANGED vars
    BY <1>1 DEF vars, Checked
  <1>2. CASE Next
    <2>1. PICK d \in Callers : (\E a \in Abstract!Args : Call(d, a)) \/ Lock(d) \/ Locked(d)
      BY <1>2 DEF Next
    <2>2. d # c
      BY <2>1, ComesToPut
    <2>3. thread'[c] = thread[c]
      BY <2>1, <2>2, OthersStep
    <2>4. thread[c].pc = "put" /\ Checked(c)
      BY <2>3
    <2>5. etcd' # etcd
      BY <2>3, <2>4 DEF Checked
    <2>6. thread[d].pc \in {"check", "put"} /\ thread'[d].pc = "unlock"
      BY <2>1, <2>5, OthersStep
    <2>7. ProcOf[d] # ProcOf[c]
      BY <2>2, <2>4, <2>6, Exclusive
    <2> QED
      BY <2>4, <2>6, <2>7
  <1> QED
    BY <1>1, <1>2

\* Whatever the number of servers that use the same etcd, what a Create or
\* Update saw of its key becomes false before its put only by a request of
\* another server.
THEOREM OnlyOthersInterfere == Spec => OthersInterfere
  <1> DEFINE Safe == \A c \in Callers :
               /\ thread[c].pc = "put" /\ Checked(c)
               /\ thread'[c].pc = "put" /\ ~Checked(c)'
               => \E d \in Callers : /\ ProcOf[d] # ProcOf[c]
                                     /\ thread[d].pc # "unlock" /\ thread'[d].pc = "unlock"
  <1>1. ServersInv /\ [Next]_vars => Safe
    BY InterferenceStep
  <1>2. ServersInv /\ [Next]_vars => [Safe]_vars
    BY <1>1
  <1> HIDE DEF Safe
  <1>3. Spec => [][Safe]_vars
    BY <1>2, ServersInvariance, PTL DEF Spec
  <1> QED
    BY <1>3 DEF Safe, OthersInterfere

\* With one server there is no such request.
LEMMA StepPreserves ==
  ASSUME OneServer
  PROVE  Inv /\ [Next]_vars => Inv'
  <1> SUFFICES ASSUME Inv, [Next]_vars PROVE Inv'
    OBVIOUS
  <1>1. ServersInv'
    BY ServersStep DEF Inv
  <1>2. ASSUME NEW c \in Callers, thread'[c].pc = "put", ~Checked(c)'
        PROVE  FALSE
    BY <1>2, InterferenceStep DEF Inv, CheckStillTrue, OneServer
  <1> QED
    BY <1>1, <1>2 DEF Inv, CheckStillTrue

\* The methods of the etcd store with one server process keep the invariant.
THEOREM Invariance == OneServer => (Spec => []Inv)
  <1> SUFFICES ASSUME OneServer PROVE Spec => []Inv
    OBVIOUS
  <1>1. Inv /\ [Next]_vars => Inv'
    BY StepPreserves
  <1> QED
    BY <1>1, InitInv, PTL DEF Spec

\* With one server process, what Create and Update saw of their key in the
\* first request to etcd is still true in the second.
THEOREM ChecksHold == OneServer => (Spec => []CheckStillTrue)
  BY Invariance, PTL DEF Inv

-----------------------------------------------------------------------------
(* The store keeps the promise of the interface *)

\* What the abstract store does with each kind of call.
LEMMA AbstractCalls ==
  ASSUME NEW d, NEW a \in Abstract!Args
  PROVE  /\ a.op = "Get" => /\ Abstract!Succeeds(d, a) = (d[a.key] # NoReport)
                            /\ Abstract!After(d, a) = d
                            /\ Abstract!Selected(a) = {a.key}
         /\ a.op = "List" => /\ Abstract!Succeeds(d, a)
                             /\ Abstract!After(d, a) = d
                             /\ Abstract!Selected(a) = getPrefix(a.ns)
         /\ a.op = "Create" => /\ Abstract!Succeeds(d, a) = (d[a.key] = NoReport)
                               /\ Abstract!After(d, a) = [d EXCEPT ![a.key] = a.obj]
                               /\ Abstract!Selected(a) = {}
         /\ a.op = "Update" => /\ Abstract!Succeeds(d, a) = (d[a.key] # NoReport)
                               /\ d[a.key] # NoReport =>
                                    Abstract!After(d, a) = [d EXCEPT ![a.key] = a.obj]
                               /\ Abstract!Selected(a) = {}
         /\ a.op = "Delete" => /\ Abstract!Succeeds(d, a) = (d[a.key] # NoReport)
                               /\ Abstract!After(d, a) = [d EXCEPT ![a.key] = NoReport]
                               /\ Abstract!Selected(a) = {}
         /\ Abstract!Refusal(a) = IF a.op = "Create" THEN "AlreadyExists" ELSE "NotFound"
  <1>1. \A ns, m : ns \in {AllNamespaces, m} <=> ns = AllNamespaces \/ m = ns
    OBVIOUS
  <1>2. CASE a.op = "Get"
    BY <1>2 DEF Abstract!Succeeds, Abstract!After, Abstract!Selected, Abstract!Refusal
  <1>3. CASE a.op = "List"
    <2>1. Abstract!Selected(a) = {k \in Keys : a.ns \in {AllNamespaces, NsOf[k]}}
      BY <1>3 DEF Abstract!Selected
    <2>2. Abstract!Selected(a) = getPrefix(a.ns)
      BY <1>1, <2>1 DEF getPrefix
    <2> QED
      BY <1>3, <2>2 DEF Abstract!Succeeds, Abstract!After, Abstract!Refusal
  <1>4. CASE a.op = "Create"
    BY <1>4 DEF Abstract!Succeeds, Abstract!After, Abstract!Selected, Abstract!Refusal
  <1>5. CASE a.op = "Update"
    BY <1>5 DEF Abstract!Succeeds, Abstract!After, Abstract!Selected, Abstract!Refusal
  <1>6. CASE a.op = "Delete"
    BY <1>6 DEF Abstract!Succeeds, Abstract!After, Abstract!Selected, Abstract!Refusal
  <1> QED
    BY <1>2, <1>3, <1>4, <1>5, <1>6, ArgsType

\* A call that selects no key finds nothing, whatever else it does.
LEMMA FoundNothing ==
  ASSUME NEW d, NEW a, Abstract!Selected(a) = {}
  PROVE  [err |-> "none", found |-> Abstract!Found(d, a)] = Abstract!Fails("none")
  BY DEF Abstract!Found, Abstract!Fails

\* Calling the store is the abstract Invoke.
LEMMA CallRefines ==
  ASSUME TypeOK, NEW c \in Callers, NEW a \in Abstract!Args, Call(c, a)
  PROVE  Abstract!Invoke(c, a)
  <1> DEFINE t == [pc |-> "lock", args |-> a, res |-> Abstract!Fails("none")]
  <1>1. Promise(t) = [st |-> "called", args |-> a, res |-> Abstract!Fails("none")]
    BY DEF Promise
  <1>2. [d \in Callers |-> Promise(thread[d])][c].st = "idle"
    BY DEF Call, Promise
  <1>3. thread' = [thread EXCEPT ![c] = t]
    BY DEF Call
  <1> HIDE DEF t
  <1>4. [d \in Callers |-> Promise(thread[d])]' =
           [[d \in Callers |-> Promise(thread[d])] EXCEPT ![c] = Promise(t)]
    BY <1>3, PromiseStep
  <1> QED
    BY <1>1, <1>2, <1>4 DEF Call, Abstract!Invoke

\* Waiting for the mutex, and going on from the first request to the second,
\* are not visible in the abstract store.
LEMMA StutterRefines ==
  ASSUME TypeOK, NEW c \in Callers, NEW pc \in {"check", "put"},
         thread[c].pc \in {"lock", "check"},
         thread' = [thread EXCEPT ![c].pc = pc], UNCHANGED etcd
  PROVE  UNCHANGED Abstract!vars
  <1> DEFINE t == [thread[c] EXCEPT !.pc = pc]
  <1>1. thread' = [thread EXCEPT ![c] = t]
    BY DEF TypeOK
  <1>2. Promise(t) = Promise(thread[c])
    BY DEF TypeOK, Threads, Promise
  <1> HIDE DEF t
  <1>3. [d \in Callers |-> Promise(thread[d])]' =
           [[d \in Callers |-> Promise(thread[d])] EXCEPT ![c] = Promise(t)]
    BY <1>1, PromiseStep
  <1>4. [d \in Callers |-> Promise(thread[d])]' = [d \in Callers |-> Promise(thread[d])]
    BY <1>2, <1>3
  <1> QED
    BY <1>4 DEF Abstract!vars

\* Fixing the result of a method is the abstract Finish.
LEMMA DoneRefines ==
  ASSUME TypeOK, NEW c \in Callers, NEW result, thread[c].pc \in {"check", "put"},
         Done(c, result)
  PROVE  /\ [d \in Callers |-> Promise(thread[d])][c].st = "called"
         /\ [d \in Callers |-> Promise(thread[d])][c].args = thread[c].args
         /\ Abstract!Finish(c, result)
  <1> DEFINE t == [pc |-> "unlock", args |-> thread[c].args, res |-> result]
             calls == [d \in Callers |-> Promise(thread[d])]
  <1>1. thread' = [thread EXCEPT ![c] = t]
    BY DEF Done
  <1>2. Promise(t) = [st |-> "done", args |-> calls[c].args, res |-> result]
    BY DEF Promise
  <1>3. calls[c].st = "called" /\ calls[c].args = thread[c].args
    BY DEF Promise
  <1> HIDE DEF t
  <1>4. [d \in Callers |-> Promise(thread[d])]' =
           [[d \in Callers |-> Promise(thread[d])] EXCEPT ![c] = Promise(t)]
    BY <1>1, PromiseStep
  <1> QED
    BY <1>2, <1>3, <1>4 DEF Abstract!Finish

\* A request to etcd that decides a call is the abstract Perform: it does
\* what was asked, or refuses, or fails and leaves the caller in doubt.
LEMMA PerformSucceeds ==
  ASSUME TypeOK, NEW c \in Callers, thread[c].pc \in {"check", "put"},
         Abstract!Succeeds(etcd, thread[c].args),
         etcd' = Abstract!After(etcd, thread[c].args),
         Done(c, [err |-> "none", found |-> Abstract!Found(etcd, thread[c].args)])
  PROVE  Abstract!Perform(c)
  BY DoneRefines DEF Abstract!Perform

\* The refusal.
LEMMA PerformRefuses ==
  ASSUME TypeOK, NEW c \in Callers, thread[c].pc \in {"check", "put"},
         ~Abstract!Succeeds(etcd, thread[c].args), etcd' = etcd,
         NEW err, err = Abstract!Refusal(thread[c].args), Done(c, Abstract!Fails(err))
  PROVE  Abstract!Perform(c)
  BY DoneRefines DEF Abstract!Perform

\* The failure.
LEMMA PerformFails ==
  ASSUME TypeOK, NEW c \in Callers, thread[c].pc \in {"check", "put"}, EtcdFails(c),
         \/ etcd' = etcd
         \/ /\ Abstract!Succeeds(etcd, thread[c].args)
            /\ etcd' = Abstract!After(etcd, thread[c].args)
  PROVE  Abstract!Perform(c)
  BY DoneRefines DEF Abstract!Perform, EtcdFails

\* Returning from a method is the abstract Reply.
LEMMA UnlockRefines ==
  ASSUME TypeOK, NEW c \in Callers, Unlock(c)
  PROVE  Abstract!Reply(c)
  <1>1. Promise(NoThread) = Abstract!NoCall
    BY DEF Promise, NoThread, Abstract!NoCall
  <1>2. [d \in Callers |-> Promise(thread[d])][c].st = "done"
    BY DEF Unlock, Promise
  <1>3. [d \in Callers |-> Promise(thread[d])]' =
           [[d \in Callers |-> Promise(thread[d])] EXCEPT ![c] = Promise(NoThread)]
    BY PromiseStep DEF Unlock
  <1> QED
    BY <1>1, <1>2, <1>3 DEF Unlock, Abstract!Reply

\* Every step inside a method is a step of the abstract store or invisible.
LEMMA LockedRefines ==
  ASSUME Inv, NEW c \in Callers, Locked(c)
  PROVE  Abstract!Perform(c) \/ Abstract!Reply(c) \/ UNCHANGED Abstract!vars
  <1> DEFINE a == thread[c].args
             found(S) == [k \in Keys |-> IF k \in S THEN etcd[k] ELSE NoReport]
  <1>0. TypeOK /\ a \in Abstract!Args /\ etcd \in [Keys -> Reports \cup {NoReport}]
    BY DEF Inv, ServersInv, TypeOK, Threads
  <1>1. ASSUME NEW S, Abstract!Selected(a) = S
        PROVE  Abstract!Found(etcd, a) = found(S)
    BY <1>1 DEF Abstract!Found
  <1>2. CASE Get(c)
    <2>1. found({a.key}) = [k \in Keys |-> IF k = a.key THEN etcd[k] ELSE NoReport]
      OBVIOUS
    <2>2. /\ Abstract!Found(etcd, a) = found({a.key})
          /\ Abstract!Succeeds(etcd, a) = (etcd[a.key] # NoReport)
          /\ Abstract!After(etcd, a) = etcd
          /\ Abstract!Refusal(a) = "NotFound"
      BY <1>0, <1>1, <1>2, AbstractCalls DEF Get
    <2>3. CASE /\ etcd[a.key] # NoReport
               /\ Done(c, [err |-> "none", found |-> Abstract!Found(etcd, a)])
      BY <1>0, <1>2, <2>2, <2>3, PerformSucceeds DEF Get
    <2>4. CASE etcd[a.key] = NoReport /\ Done(c, Abstract!Fails("NotFound"))
      BY <1>0, <1>2, <2>2, <2>4, PerformRefuses DEF Get
    <2>5. CASE EtcdFails(c)
      BY <1>0, <1>2, <2>5, PerformFails DEF Get
    <2> QED
      BY <1>2, <2>1, <2>2, <2>3, <2>4, <2>5 DEF Get
  <1>3. CASE List(c)
    <2>1. /\ Abstract!Found(etcd, a) = found(getPrefix(a.ns))
          /\ Abstract!Succeeds(etcd, a)
          /\ Abstract!After(etcd, a) = etcd
      BY <1>0, <1>1, <1>3, AbstractCalls DEF List
    <2>2. CASE Done(c, [err |-> "none", found |-> Abstract!Found(etcd, a)])
      BY <1>0, <1>3, <2>1, <2>2, PerformSucceeds DEF List
    <2>3. CASE EtcdFails(c)
      BY <1>0, <1>3, <2>3, PerformFails DEF List
    <2> QED
      BY <1>3, <2>1, <2>2, <2>3 DEF List
  <1>4. CASE CreateCheck(c)
    <2>1. CASE thread' = [thread EXCEPT ![c].pc = "put"]
      BY <1>0, <1>4, <2>1, StutterRefines DEF CreateCheck
    <2>2. CASE etcd[a.key] # NoReport /\ Done(c, Abstract!Fails("AlreadyExists"))
      <3>1. ~Abstract!Succeeds(etcd, a) /\ Abstract!Refusal(a) = "AlreadyExists"
        BY <1>0, <1>4, <2>2, AbstractCalls DEF CreateCheck
      <3> QED
        BY <1>0, <1>4, <2>2, <3>1, PerformRefuses DEF CreateCheck
    <2>3. CASE EtcdFails(c)
      BY <1>0, <1>4, <2>3, PerformFails DEF CreateCheck
    <2> QED
      BY <1>4, <2>1, <2>2, <2>3 DEF CreateCheck
  <1>5. CASE UpdateCheck(c)
    <2>1. CASE thread' = [thread EXCEPT ![c].pc = "put"]
      BY <1>0, <1>5, <2>1, StutterRefines DEF UpdateCheck
    <2>2. CASE etcd[a.key] = NoReport /\ Done(c, Abstract!Fails("NotFound"))
      <3>1. ~Abstract!Succeeds(etcd, a) /\ Abstract!Refusal(a) = "NotFound"
        BY <1>0, <1>5, <2>2, AbstractCalls DEF UpdateCheck
      <3> QED
        BY <1>0, <1>5, <2>2, <3>1, PerformRefuses DEF UpdateCheck
    <2>3. CASE EtcdFails(c)
      BY <1>0, <1>5, <2>3, PerformFails DEF UpdateCheck
    <2> QED
      BY <1>5, <2>1, <2>2, <2>3 DEF UpdateCheck
  <1>6. CASE Put(c)
    <2>1. a.op \in {"Create", "Update"} /\ (a.op = "Create" <=> etcd[a.key] = NoReport)
      BY <1>6 DEF Put, Inv, ServersInv, PutsOnly, CheckStillTrue, Checked
    <2>2. Abstract!Succeeds(etcd, a)
      BY <1>0, <2>1, AbstractCalls
    <2>3. /\ Abstract!After(etcd, a) = [etcd EXCEPT ![a.key] = a.obj]
          /\ Abstract!Selected(a) = {}
      BY <1>0, <2>1, AbstractCalls
    <2>4. [err |-> "none", found |-> Abstract!Found(etcd, a)] = Abstract!Fails("none")
      BY <2>3, FoundNothing
    <2>5. CASE EtcdFails(c)
      BY <1>0, <1>6, <2>2, <2>3, <2>5, PerformFails DEF Put
    <2>6. CASE Done(c, Abstract!Fails("none")) /\ etcd' = [etcd EXCEPT ![a.key] = a.obj]
      BY <1>0, <1>6, <2>2, <2>3, <2>4, <2>6, PerformSucceeds DEF Put
    <2> QED
      BY <1>6, <2>5, <2>6 DEF Put
  <1>7. CASE Delete(c)
    <2>1. /\ Abstract!Succeeds(etcd, a) = (etcd[a.key] # NoReport)
          /\ Abstract!After(etcd, a) = [etcd EXCEPT ![a.key] = NoReport]
          /\ Abstract!Selected(a) = {}
          /\ Abstract!Refusal(a) = "NotFound"
      BY <1>0, <1>7, AbstractCalls DEF Delete
    <2>2. [err |-> "none", found |-> Abstract!Found(etcd, a)] = Abstract!Fails("none")
      BY <2>1, FoundNothing
    <2>3. a.key \in Keys
      BY <1>0, <1>7, ArgsType DEF Delete
    <2>4. etcd[a.key] = NoReport => [etcd EXCEPT ![a.key] = NoReport] = etcd
      BY <1>0, <2>3
    <2>5. CASE EtcdFails(c)
      BY <1>0, <1>7, <2>1, <2>4, <2>5, PerformFails DEF Delete
    <2>6. CASE /\ Done(c, Abstract!Fails("none")) /\ etcd[a.key] # NoReport
               /\ etcd' = [etcd EXCEPT ![a.key] = NoReport]
      BY <1>0, <1>7, <2>1, <2>2, <2>6, PerformSucceeds DEF Delete
    <2>7. CASE /\ Done(c, Abstract!Fails("NotFound")) /\ etcd[a.key] = NoReport
               /\ etcd' = [etcd EXCEPT ![a.key] = NoReport]
      BY <1>0, <1>7, <2>1, <2>4, <2>7, PerformRefuses DEF Delete
    <2> QED
      BY <1>7, <2>5, <2>6, <2>7 DEF Delete
  <1>8. CASE Unlock(c)
    BY <1>0, <1>8, UnlockRefines
  <1> QED
    BY <1>2, <1>3, <1>4, <1>5, <1>6, <1>7, <1>8 DEF Locked

\* Every step of the store is a step of the abstract one or invisible.
LEMMA StepRefines == Inv /\ [Next]_vars => [Abstract!Next]_(Abstract!vars)
  <1> SUFFICES ASSUME Inv, [Next]_vars PROVE [Abstract!Next]_(Abstract!vars)
    OBVIOUS
  <1>0. TypeOK
    BY DEF Inv, ServersInv
  <1>1. ASSUME NEW c \in Callers, NEW a \in Abstract!Args, Call(c, a)
        PROVE  Abstract!Next
    BY <1>0, <1>1, CallRefines DEF Abstract!Next
  <1>2. ASSUME NEW c \in Callers, Lock(c)
        PROVE  UNCHANGED Abstract!vars
    BY <1>0, <1>2, StutterRefines DEF Lock
  <1>3. ASSUME NEW c \in Callers, Locked(c)
        PROVE  Abstract!Next \/ UNCHANGED Abstract!vars
    BY <1>3, LockedRefines DEF Abstract!Next
  <1>4. CASE UNCHANGED vars
    BY <1>4 DEF vars, Abstract!vars
  <1> QED
    BY <1>1, <1>2, <1>3, <1>4 DEF Next

\* The store starts as the abstract one does.
LEMMA InitRefines == Init => Abstract!Init
  <1> SUFFICES ASSUME Init PROVE Abstract!Init
    OBVIOUS
  <1>1. Promise(NoThread) = Abstract!NoCall
    BY DEF Promise, NoThread, Abstract!NoCall
  <1>2. [c \in Callers |-> Promise(thread[c])] = [c \in Callers |-> Abstract!NoCall]
    BY <1>1 DEF Init
  <1> QED
    BY <1>2 DEF Init, Abstract!Init

\* With one server process, each method of the etcd store behaves as if it
\* happened at one moment: the etcd store implements the storage interface.
THEOREM Implements == OneServer => (Spec => KeepsPromise)
  <1> SUFFICES ASSUME OneServer PROVE Spec => Abstract!Spec
    BY DEF KeepsPromise
  <1>1. Spec => []Inv
    BY Invariance
  <1> QED
    BY <1>1, InitRefines, StepRefines, PTL DEF Spec, Abstract!Spec

=============================================================================
