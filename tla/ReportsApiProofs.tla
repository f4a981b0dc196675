-------------------------- MODULE ReportsApiProofs --------------------------
(***************************************************************************)
(* Proofs about ReportsApi for any clients, keys, kinds, values, watchers  *)
(* and bounds, any store behaviour (StrictUpdate, MaxBehind, BrokenStreams,*)
(* Faults) and with or without server-side apply.                          *)
(*                                                                         *)
(* Each step of a handler is one of five kinds of step: it changes only    *)
(* the handler's locals (LocalStep), takes a resource version              *)
(* (TakeVersion), writes and goes on to broadcast (CommitStep), goes on to *)
(* broadcast without having written (NothingStep), or writes and fails     *)
(* (LostReplyStep).  One lemma for each shows that it preserves Inv.       *)
(***************************************************************************)
EXTENDS ReportsApi, TLAPS

\* A handler that has not been entered has well-typed locals.
LEMMA NoRequestType == NoRequest \in Requests
  <1>1. (CHOOSE k \in Keys : TRUE) \in Keys
    BY ReportsApiAssumption
  <1> QED
    BY <1>1 DEF NoRequest, Request, Requests, Steps, Ops, EventTypes, Answers

\* So has one that is entered for a given key.
LEMMA RequestType ==
  ASSUME NEW op \in Ops, NEW k \in Keys, NEW forced \in BOOLEAN, NEW dry \in BOOLEAN
  PROVE  Request(op, k, forced, dry) \in Requests
  BY DEF Request, Requests, Steps, Ops, EventTypes, Answers

\* What Return leaves behind: idle locals with the answer.
LEMMA ReturnType ==
  ASSUME NEW answer \in Answers
  PROVE  /\ [NoRequest EXCEPT !.resp = answer] \in Requests
         /\ [NoRequest EXCEPT !.resp = answer].pc = "idle"
  BY NoRequestType DEF Requests, NoRequest, Request

\* A write adds the state before it to those that replicas show, or not.
LEMMA BehindTyped ==
  ASSUME TypeOK, NEW k, NEW report, Write(k, report)
  PROVE  behind' \in SUBSET [Keys -> Reports \cup {NoReport}]
  <1>1. behind' \subseteq behind \cup {store}
    BY DEF Write
  <1> QED
    BY <1>1 DEF TypeOK

\* What is left to delete stays a set of keys.
LEMMA LeftTyped ==
  ASSUME TypeOK, NEW k, NEW report, NEW c \in Clients
  PROVE  /\ LeftAfter(k, report) \in [Clients -> SUBSET Keys]
         /\ [LeftAfter(k, report) EXCEPT ![c] = {}] \in [Clients -> SUBSET Keys]
  BY DEF TypeOK, LeftAfter

\* A step that changes one handler's locals, and does not enter or leave the
\* part between UseResourceVersion and broadcaster.Action with them.
LEMMA LocalStep ==
  ASSUME Inv, NEW c \in Clients, NEW r \in Requests,
         req' = [req EXCEPT ![c] = r],
         req[c].pc # "announce",
         r.pc \notin {"announce", "createStore", "updateStore"},
         left' \in [Clients -> SUBSET Keys],
         UNCHANGED <<store, behind, version, watch, used, unsettled>>
  PROVE  Inv'
  <1>1. TypeOK'
    BY DEF Inv, TypeOK
  <1>2. \A d \in Clients : d # c => req'[d] = req[d]
    BY DEF Inv, TypeOK
  <1>3. req'[c] = r
    BY DEF Inv, TypeOK
  <1>4. VersionsApart'
    BY <1>2, <1>3 DEF Inv, TypeOK, VersionsApart, HoldsVersion
  <1>5. \A d \in Clients, k \in Keys : Announcing(d, k)' <=> Announcing(d, k)
    BY <1>2, <1>3 DEF Announcing
  <1>6. EventsCurrent'
    BY <1>2, <1>3, <1>5 DEF Inv, EventsCurrent, Effect, Announcing
  <1>7. ViewsCurrent'
    BY <1>5 DEF Inv, ViewsCurrent
  <1> QED
    BY <1>1, <1>4, <1>6, <1>7 DEF Inv

\* A handler takes the counter's value for the report it is about to write.
LEMMA TakeVersion ==
  ASSUME Inv, NEW c \in Clients, NEW r \in Requests,
         req' = [req EXCEPT ![c] = r],
         req[c].pc # "announce", r.pc \in {"createStore", "updateStore"},
         r.obj \in Reports, r.obj.rv = version,
         version' = UseResourceVersion(version),
         UNCHANGED <<store, behind, watch, used, left, unsettled>>
  PROVE  Inv'
  <1>0. version' = version + 1 /\ version \in Nat
    BY DEF Inv, TypeOK, UseResourceVersion
  <1>1. TypeOK'
    BY <1>0 DEF Inv, TypeOK
  <1>2. \A d \in Clients : d # c => req'[d] = req[d]
    BY DEF Inv, TypeOK
  <1>3. req'[c] = r
    BY DEF Inv, TypeOK
  <1>4. VersionsApart'
    <2>1. ASSUME NEW n \in used' PROVE n < version'
      <3>1. n \in Nat /\ n < version
        BY <2>1 DEF Inv, TypeOK, VersionsApart
      <3> QED
        BY <1>0, <3>1
    <2>2. ASSUME NEW d \in Clients, HoldsVersion(d)'
          PROVE  req'[d].obj # NoReport /\ req'[d].obj.rv < version' /\ req'[d].obj.rv \notin used'
      <3>1. CASE d = c
        BY <1>0, <1>3, <3>1, ReportsApiAssumption DEF Inv, TypeOK, VersionsApart
      <3>2. CASE d # c
        <4>1. HoldsVersion(d)
          BY <1>2, <2>2, <3>2 DEF HoldsVersion
        <4>2. req[d].obj \in Reports
          BY <4>1 DEF Inv, TypeOK, Requests, VersionsApart
        <4>3. req[d].obj.rv \in Nat
          BY <4>2 DEF Reports
        <4> QED
          BY <1>0, <1>2, <3>2, <4>1, <4>3 DEF Inv, VersionsApart
      <3> QED
        BY <3>1, <3>2
    <2>3. ASSUME NEW d \in Clients, NEW e \in Clients, d # e,
                 HoldsVersion(d)', HoldsVersion(e)'
          PROVE  req'[d].obj.rv # req'[e].obj.rv
      <3>1. \A f \in Clients : f # c /\ HoldsVersion(f)' =>
              HoldsVersion(f) /\ req'[f].obj.rv < version /\ req[f].obj.rv \in Nat
        BY <1>2 DEF Inv, TypeOK, Requests, Reports, VersionsApart, HoldsVersion
      <3>2. CASE d = c
        BY <1>0, <1>3, <2>3, <3>1, <3>2
      <3>3. CASE e = c
        BY <1>0, <1>3, <2>3, <3>1, <3>3
      <3>4. CASE d # c /\ e # c
        BY <1>2, <2>3, <3>1, <3>4 DEF Inv, VersionsApart
      <3> QED
        BY <3>2, <3>3, <3>4
    <2> QED
      BY <2>1, <2>2, <2>3 DEF VersionsApart
  <1>5. \A d \in Clients, k \in Keys : Announcing(d, k)' <=> Announcing(d, k)
    BY <1>2, <1>3 DEF Announcing
  <1>6. EventsCurrent'
    BY <1>2, <1>3, <1>5 DEF Inv, EventsCurrent, Effect, Announcing
  <1>7. ViewsCurrent'
    BY <1>5 DEF Inv, ViewsCurrent
  <1> QED
    BY <1>1, <1>4, <1>6, <1>7 DEF Inv

\* The store takes a write and the handler goes on to broadcast it: the event
\* says what was written.
LEMMA CommitStep ==
  ASSUME Inv, NEW c \in Clients, NEW report \in Reports \cup {NoReport},
         NEW ev \in EventTypes, Commit(c, report, ev),
         req[c].pc # "announce",
         \/ ev = "Deleted" /\ report = NoReport
         \/ ev # "Deleted" /\ report = req[c].obj /\ HoldsVersion(c),
         UNCHANGED <<version, watch>>
  PROVE  Inv'
  <1> DEFINE r == [req[c] EXCEPT !.ev = ev, !.pc = "announce"]
             key == req[c].key
  <1>0. req[c] \in Requests /\ key \in Keys
    BY DEF Inv, TypeOK, Requests
  <1>1. /\ req' = [req EXCEPT ![c] = r]
        /\ r \in Requests /\ r.pc = "announce" /\ r.key = key
        /\ r.ev = ev /\ r.obj = req[c].obj
    BY <1>0 DEF Commit, Goto, Requests, Steps
  <1>2. /\ \A d \in Clients : d # c => req'[d] = req[d]
        /\ req'[c] = r
    BY <1>1 DEF Inv, TypeOK
  <1>3. /\ store' = [store EXCEPT ![key] = report]
        /\ used' = IF report = NoReport THEN used ELSE used \cup {report.rv}
    BY DEF Commit, Write
  <1>4. report # NoReport => /\ HoldsVersion(c) /\ report = req[c].obj
                             /\ report.rv \in Nat /\ report.rv < version
    BY DEF Inv, VersionsApart, Reports
  <1>5. unsettled' = IF \E d \in Clients \ {c} : Announcing(d, key)
                     THEN unsettled \cup {key} ELSE unsettled \ {key}
    BY DEF Commit, SettleAfterWrite
  <1>6. TypeOK'
    <2>1. store' \in [Keys -> Reports \cup {NoReport}]
      BY <1>0, <1>3 DEF Inv, TypeOK
    <2>2. used' \in SUBSET Nat
      BY <1>3, <1>4 DEF Inv, TypeOK
    <2>3. unsettled' \in SUBSET Keys
      BY <1>0, <1>5 DEF Inv, TypeOK
    <2>4. behind' \in SUBSET [Keys -> Reports \cup {NoReport}]
      BY BehindTyped DEF Commit, Inv
    <2>5. left' \in [Clients -> SUBSET Keys]
      BY LeftTyped DEF Commit, Inv
    <2> QED
      BY <1>1, <2>1, <2>2, <2>3, <2>4, <2>5 DEF Inv, TypeOK
  <1>7. VersionsApart'
    <2>1. ASSUME NEW n \in used' PROVE n < version'
      BY <1>3, <1>4 DEF Inv, VersionsApart
    <2>2. \A d \in Clients : HoldsVersion(d)' => d # c /\ HoldsVersion(d)
      BY <1>1, <1>2 DEF HoldsVersion
    <2>3. ASSUME NEW d \in Clients, HoldsVersion(d)'
          PROVE  /\ req'[d].obj # NoReport
                 /\ req'[d].obj.rv < version' /\ req'[d].obj.rv \notin used'
      BY <1>2, <1>3, <1>4, <2>2, <2>3 DEF Inv, VersionsApart
    <2>4. ASSUME NEW d \in Clients, NEW e \in Clients,
                 HoldsVersion(d)', HoldsVersion(e)', d # e
          PROVE  req'[d].obj.rv # req'[e].obj.rv
      BY <1>2, <2>2, <2>4 DEF Inv, VersionsApart
    <2> QED
      BY <2>1, <2>3, <2>4 DEF VersionsApart
  <1>8. \A k \in Keys : k = key => Announcing(c, k)'
    BY <1>1, <1>2 DEF Announcing
  <1>9. ASSUME NEW k \in Keys, k # key
        PROVE  /\ \A d \in Clients : Announcing(d, k)' <=> Announcing(d, k)
               /\ store'[k] = store[k]
               /\ k \in unsettled' <=> k \in unsettled
    <2>1. \A d \in Clients : Announcing(d, k)' <=> Announcing(d, k)
      BY <1>1, <1>2, <1>9 DEF Announcing
    <2>2. store'[k] = store[k]
      BY <1>0, <1>3, <1>9 DEF Inv, TypeOK
    <2>3. k \in unsettled' <=> k \in unsettled
      BY <1>5, <1>9
    <2> QED
      BY <2>1, <2>2, <2>3
  <1>10. EventsCurrent'
    <2> SUFFICES ASSUME NEW d \in Clients, NEW k \in Keys,
                        Announcing(d, k)', k \notin unsettled'
                 PROVE  Effect(req[d])' = store'[k]
      BY DEF EventsCurrent
    <2>1. CASE k = key /\ d = c
      <3>1. store'[key] = report
        BY <1>0, <1>3 DEF Inv, TypeOK
      <3>2. Effect(req[c])' = report
        BY <1>1, <1>2, <2>1 DEF Effect
      <3> QED
        BY <2>1, <3>1, <3>2
    <2>2. CASE k = key /\ d # c
      BY <1>2, <1>5, <2>2 DEF Announcing
    <2>3. CASE k # key
      <3>1. d # c
        BY <1>1, <1>2, <2>3 DEF Announcing
      <3> QED
        BY <1>2, <1>9, <2>3, <3>1 DEF Inv, EventsCurrent, Effect
    <2> QED
      BY <2>1, <2>2, <2>3
  <1>11. ViewsCurrent'
    <2> SUFFICES ASSUME NEW w \in Watchers, NEW k \in Keys,
                        watch[w].st # "off", watch[w].kind = KindOf[k],
                        k \notin watch[w].blind, k \notin unsettled'
                 PROVE  watch[w].view[k] = store'[k] \/ \E d \in Clients : Announcing(d, k)'
      BY DEF ViewsCurrent
    <2>1. CASE k = key
      BY <1>8, <2>1
    <2>2. CASE k # key
      <3>1. watch[w].view[k] = store[k] \/ \E d \in Clients : Announcing(d, k)
        BY <1>9, <2>2 DEF Inv, ViewsCurrent
      <3> QED
        BY <1>9, <2>2, <3>1
    <2> QED
      BY <2>1, <2>2
  <1> QED
    BY <1>6, <1>7, <1>10, <1>11 DEF Inv

\* A handler goes on to broadcast although nothing was written: its key is
\* unsettled, and nothing else changes.
LEMMA NothingStep ==
  ASSUME Inv, NEW c \in Clients, NEW ev \in EventTypes, AnnounceNothing(c, ev),
         req[c].pc # "announce",
         UNCHANGED <<version, watch>>
  PROVE  Inv'
  <1> DEFINE r == [req[c] EXCEPT !.ev = ev, !.pc = "announce"]
             key == req[c].key
  <1>0. req[c] \in Requests /\ key \in Keys
    BY DEF Inv, TypeOK, Requests
  <1>1. req' = [req EXCEPT ![c] = r] /\ r \in Requests /\ r.pc = "announce" /\ r.key = key
    BY <1>0 DEF AnnounceNothing, Goto, Requests, Steps
  <1>2. /\ \A d \in Clients : d # c => req'[d] = req[d]
        /\ req'[c] = r
    BY <1>1 DEF Inv, TypeOK
  <1>3. /\ store' = store /\ behind' = behind /\ used' = used /\ left' = left
        /\ unsettled' = unsettled \cup {key}
    BY DEF AnnounceNothing
  <1>4. TypeOK'
    BY <1>0, <1>1, <1>3 DEF Inv, TypeOK
  <1>5. VersionsApart'
    BY <1>1, <1>2, <1>3 DEF Inv, VersionsApart, HoldsVersion
  <1>6. \A d \in Clients, k \in Keys : k # key => (Announcing(d, k)' <=> Announcing(d, k))
    BY <1>1, <1>2 DEF Announcing
  <1>7. EventsCurrent'
    BY <1>1, <1>2, <1>3, <1>6 DEF Inv, EventsCurrent, Effect, Announcing
  <1>8. ViewsCurrent'
    BY <1>3, <1>6 DEF Inv, ViewsCurrent
  <1> QED
    BY <1>4, <1>5, <1>7, <1>8 DEF Inv

\* The store takes a write and the handler is told that it failed.
LEMMA LostReplyStep ==
  ASSUME Inv, NEW c \in Clients, NEW report \in Reports \cup {NoReport},
         NEW answer \in Answers, FailAfterWrite(c, report, answer),
         req[c].pc # "announce",
         report # NoReport => report = req[c].obj /\ HoldsVersion(c),
         UNCHANGED <<version, watch>>
  PROVE  Inv'
  <1> DEFINE r == [NoRequest EXCEPT !.resp = answer]
             key == req[c].key
  <1>0. req[c] \in Requests /\ key \in Keys
    BY DEF Inv, TypeOK, Requests
  <1>1. req' = [req EXCEPT ![c] = r] /\ r \in Requests /\ r.pc = "idle"
    BY ReturnType DEF FailAfterWrite, Return
  <1>2. /\ \A d \in Clients : d # c => req'[d] = req[d]
        /\ req'[c] = r
    BY <1>1 DEF Inv, TypeOK
  <1>3. /\ store' = [store EXCEPT ![key] = report]
        /\ used' = IF report = NoReport THEN used ELSE used \cup {report.rv}
        /\ unsettled' = unsettled \cup {key}
    BY DEF FailAfterWrite, Write
  <1>4. report # NoReport => /\ HoldsVersion(c) /\ report = req[c].obj
                             /\ report.rv \in Nat /\ report.rv < version
    BY DEF Inv, VersionsApart, Reports
  <1>5. TypeOK'
    <2>1. store' \in [Keys -> Reports \cup {NoReport}]
      BY <1>0, <1>3 DEF Inv, TypeOK
    <2>2. used' \in SUBSET Nat
      BY <1>3, <1>4 DEF Inv, TypeOK
    <2>3. behind' \in SUBSET [Keys -> Reports \cup {NoReport}]
      BY BehindTyped DEF FailAfterWrite, Inv
    <2>4. left' \in [Clients -> SUBSET Keys]
      BY LeftTyped DEF FailAfterWrite, Inv
    <2> QED
      BY <1>0, <1>1, <1>3, <2>1, <2>2, <2>3, <2>4 DEF Inv, TypeOK
  <1>6. VersionsApart'
    <2>1. ASSUME NEW n \in used' PROVE n < version'
      BY <1>3, <1>4 DEF Inv, VersionsApart
    <2>2. \A d \in Clients : HoldsVersion(d)' => d # c /\ HoldsVersion(d)
      BY <1>1, <1>2 DEF HoldsVersion
    <2>3. ASSUME NEW d \in Clients, HoldsVersion(d)'
          PROVE  /\ req'[d].obj # NoReport
                 /\ req'[d].obj.rv < version' /\ req'[d].obj.rv \notin used'
      BY <1>2, <1>3, <1>4, <2>2, <2>3 DEF Inv, VersionsApart
    <2>4. ASSUME NEW d \in Clients, NEW e \in Clients,
                 HoldsVersion(d)', HoldsVersion(e)', d # e
          PROVE  req'[d].obj.rv # req'[e].obj.rv
      BY <1>2, <2>2, <2>4 DEF Inv, VersionsApart
    <2> QED
      BY <2>1, <2>3, <2>4 DEF VersionsApart
  <1>7. \A d \in Clients, k \in Keys : Announcing(d, k)' <=> Announcing(d, k)
    BY <1>1, <1>2 DEF Announcing
  <1>8. \A k \in Keys : k \notin unsettled' => k \notin unsettled /\ store'[k] = store[k]
    BY <1>0, <1>3 DEF Inv, TypeOK
  <1>9. EventsCurrent'
    <2> SUFFICES ASSUME NEW d \in Clients, NEW k \in Keys,
                        Announcing(d, k)', k \notin unsettled'
                 PROVE  Effect(req[d])' = store'[k]
      BY DEF EventsCurrent
    <2>1. d # c
      BY <1>1, <1>2 DEF Announcing
    <2> QED
      BY <1>2, <1>7, <1>8, <2>1 DEF Inv, EventsCurrent, Effect
  <1>10. ViewsCurrent'
    BY <1>7, <1>8 DEF Inv, ViewsCurrent
  <1> QED
    BY <1>5, <1>6, <1>9, <1>10 DEF Inv

\* A handler that answers with an error and has changed nothing.
LEMMA FailStep ==
  ASSUME Inv, NEW c \in Clients, NEW answer \in Answers, Fail(c, answer),
         req[c].pc # "announce", UNCHANGED <<version, watch>>
  PROVE  Inv'
  <1>1. left' \in [Clients -> SUBSET Keys]
    BY DEF Fail, Inv, TypeOK
  <1> QED
    BY <1>1, LocalStep, ReturnType DEF Fail, Return

\* A handler that returns before it has written anything.
LEMMA ReturnStep ==
  ASSUME Inv, NEW c \in Clients, NEW answer \in Answers, Return(c, answer),
         req[c].pc # "announce",
         left' \in [Clients -> SUBSET Keys],
         UNCHANGED <<store, behind, version, watch, used, unsettled>>
  PROVE  Inv'
  BY LocalStep, ReturnType DEF Return

-----------------------------------------------------------------------------
(* The handlers *)

\* Get changes nothing but the answer.
LEMMA GetPreserves ==
  ASSUME Inv, NEW c \in Clients, NEW kind \in Kinds, Get(c, kind)
  PROVE  Inv'
  <1>1. PICK answer \in {"NotFound", "ok"} : Return(c, answer)
    BY DEF Get
  <1> QED
    BY <1>1, ReturnStep DEF Get, Idle, Answers, Inv, TypeOK

\* List changes nothing but the answer.
LEMMA ListPreserves ==
  ASSUME Inv, NEW c \in Clients, NEW kind \in Kinds, List(c, kind)
  PROVE  Inv'
  BY ReturnStep DEF List, Idle, Answers, Inv, TypeOK

\* Create takes a version that nobody holds and nothing was written with.
LEMMA CreateBeginPreserves ==
  ASSUME Inv, NEW c \in Clients, NEW kind \in Kinds, NEW unnamed \in Answers,
         CreateBegin(c, kind, unnamed)
  PROVE  Inv'
  <1>0. /\ req[c].pc # "announce" /\ left' \in [Clients -> SUBSET Keys]
        /\ UNCHANGED <<store, behind, watch, used, left, unsettled>>
    BY DEF CreateBegin, Issues, Idle, Inv, TypeOK
  <1>1. CASE (\E answer \in Answers : Return(c, answer)) /\ UNCHANGED version
    BY <1>0, <1>1, ReturnStep
  <1>2. CASE /\ \E k \in KeysOf(kind), v \in Values :
                  Goto(c, [Request("create", k, FALSE, FALSE)
                             EXCEPT !.obj = [rv |-> version, val |-> v]], "createStore")
             /\ version' = UseResourceVersion(version)
    <2>1. PICK k \in KeysOf(kind), v \in Values :
            Goto(c, [Request("create", k, FALSE, FALSE)
                       EXCEPT !.obj = [rv |-> version, val |-> v]], "createStore")
      BY <1>2
    <2> DEFINE o == [rv |-> version, val |-> v]
               q == Request("create", k, FALSE, FALSE)
               r == [q EXCEPT !.obj = o, !.pc = "createStore"]
    <2>2. o \in Reports /\ o.rv = version
      BY DEF Reports, Inv, TypeOK
    <2>3. q \in Requests
      BY RequestType DEF KeysOf, Ops
    <2> HIDE DEF o, q
    <2>4. r \in Requests /\ r.pc = "createStore" /\ r.obj = o
      BY <2>2, <2>3 DEF Requests, Steps
    <2>5. req' = [req EXCEPT ![c] = r]
      BY <2>1, <2>3 DEF Goto, Requests, o, q
    <2> QED
      BY <1>0, <1>2, <2>2, <2>4, <2>5, TakeVersion
  <1> QED
    BY <1>1, <1>2 DEF CreateBegin, Answers

\* Create's store call writes, or fails and leaves the key unsettled or as it was.
LEMMA CreateStorePreserves ==
  ASSUME Inv, NEW c \in Clients, NEW kind \in Kinds, NEW exists \in Answers,
         CreateStore(c, kind, exists)
  PROVE  Inv'
  <1>0. /\ req[c].pc # "announce" /\ HoldsVersion(c)
        /\ req[c].obj \in Reports \cup {NoReport}
        /\ UNCHANGED <<version, watch>>
    BY DEF CreateStore, HoldsVersion, Inv, TypeOK, Requests
  <1>1. CASE Commit(c, req[c].obj, "Added")
    BY <1>0, <1>1, CommitStep DEF EventTypes
  <1>2. CASE Fail(c, exists)
    BY <1>0, <1>2, FailStep
  <1>3. CASE FailAfterWrite(c, req[c].obj, exists)
    BY <1>0, <1>3, LostReplyStep
  <1> QED
    BY <1>1, <1>2, <1>3 DEF CreateStore

\* Update's read of the old report decides only where the handler goes.
LEMMA UpdateBeginPreserves ==
  ASSUME Inv, NEW c \in Clients, NEW kind \in Kinds, UpdateBegin(c, kind)
  PROVE  Inv'
  <1>0. /\ req[c].pc # "announce" /\ left' \in [Clients -> SUBSET Keys]
        /\ UNCHANGED <<store, behind, version, watch, used, unsettled>>
    BY DEF UpdateBegin, Issues, Idle, Inv, TypeOK
  <1>1. CASE Return(c, "error")
    BY <1>0, <1>1, ReturnStep DEF Answers
  <1>2. CASE \E k \in KeysOf(kind), forced, dry \in BOOLEAN :
               Goto(c, Request("update", k, forced, dry), "updateMerge")
    <2>1. PICK k \in KeysOf(kind), forced \in BOOLEAN, dry \in BOOLEAN :
            Goto(c, Request("update", k, forced, dry), "updateMerge")
      BY <1>2
    <2> DEFINE q == Request("update", k, forced, dry)
    <2>2. q \in Requests
      BY RequestType DEF KeysOf, Ops
    <2> HIDE DEF q
    <2>3. [q EXCEPT !.pc = "updateMerge"] \in Requests
          /\ [q EXCEPT !.pc = "updateMerge"].pc = "updateMerge"
      BY <2>2 DEF Requests, Steps
    <2>4. req' = [req EXCEPT ![c] = [q EXCEPT !.pc = "updateMerge"]]
      BY <2>1 DEF Goto, q
    <2> QED
      BY <1>0, <2>3, <2>4, LocalStep
  <1> QED
    BY <1>1, <1>2 DEF UpdateBegin

\* Update takes a version that nobody holds and nothing was written with.
LEMMA UpdateMergePreserves ==
  ASSUME Inv, NEW c \in Clients, NEW kind \in Kinds, UpdateMerge(c, kind)
  PROVE  Inv'
  <1>0. /\ req[c].pc # "announce" /\ left' \in [Clients -> SUBSET Keys]
        /\ UNCHANGED <<store, behind, watch, used, left, unsettled>>
    BY DEF UpdateMerge, Inv, TypeOK
  <1>1. CASE (\E answer \in Answers : Return(c, answer)) /\ UNCHANGED version
    BY <1>0, <1>1, ReturnStep
  <1>2. CASE /\ \E v \in Values :
                  Goto(c, [req[c] EXCEPT !.obj = [rv |-> version, val |-> v]], "updateStore")
             /\ version' = UseResourceVersion(version)
    <2>1. PICK v \in Values :
            Goto(c, [req[c] EXCEPT !.obj = [rv |-> version, val |-> v]], "updateStore")
      BY <1>2
    <2> DEFINE o == [rv |-> version, val |-> v]
               r == [req[c] EXCEPT !.obj = o, !.pc = "updateStore"]
    <2>2. o \in Reports /\ o.rv = version
      BY DEF Reports, Inv, TypeOK
    <2>3. req[c] \in Requests
      BY DEF Inv, TypeOK
    <2>5. req' = [req EXCEPT ![c] = r]
      BY <2>1, <2>3 DEF Goto, Requests
    <2> HIDE DEF o
    <2>4. r \in Requests /\ r.pc = "updateStore" /\ r.obj = o
      BY <2>2, <2>3 DEF Requests, Steps
    <2> QED
      BY <1>0, <1>2, <2>2, <2>4, <2>5, TakeVersion
  <1> QED
    BY <1>1, <1>2 DEF UpdateMerge, Answers

\* Update's store call writes, or unsettles the key when it broadcasts without writing.
LEMMA UpdateStorePreserves ==
  ASSUME Inv, NEW c \in Clients, NEW kind \in Kinds, UpdateStore(c, kind)
  PROVE  Inv'
  <1>0. /\ req[c].pc # "announce" /\ HoldsVersion(c)
        /\ req[c].obj \in Reports \cup {NoReport}
        /\ UNCHANGED <<version, watch>>
    BY DEF UpdateStore, HoldsVersion, Inv, TypeOK, Requests
  <1>1. CASE Commit(c, req[c].obj, "Modified")
    BY <1>0, <1>1, CommitStep DEF EventTypes
  <1>2. CASE AnnounceNothing(c, "Modified")
    BY <1>0, <1>2, NothingStep DEF EventTypes
  <1>3. CASE Fail(c, "BadRequest")
    BY <1>0, <1>3, FailStep DEF Answers
  <1>4. CASE FailAfterWrite(c, req[c].obj, "BadRequest")
    BY <1>0, <1>4, LostReplyStep DEF Answers
  <1> QED
    BY <1>1, <1>2, <1>3, <1>4 DEF UpdateStore

\* The read and the validation that Delete starts with, alone or for one
\* report of a collection.
LEMMA DeleteReadStep ==
  ASSUME Inv, NEW c \in Clients, NEW r \in Requests, DeleteRead(c, r),
         req[c].pc # "announce",
         left' \in [Clients -> SUBSET Keys],
         UNCHANGED <<store, behind, version, watch, used, unsettled>>
  PROVE  Inv'
  <1>1. CASE \E answer \in {"NotFound", "BadRequest", "ok"} : Return(c, answer)
    BY <1>1, ReturnStep DEF Answers
  <1>2. CASE Goto(c, r, "deleteStore")
    <2>1. [r EXCEPT !.pc = "deleteStore"] \in Requests
          /\ [r EXCEPT !.pc = "deleteStore"].pc = "deleteStore"
      BY DEF Requests, Steps
    <2> QED
      BY <1>2, <2>1, LocalStep DEF Goto
  <1> QED
    BY <1>1, <1>2 DEF DeleteRead

\* Delete's read of the report decides only where the handler goes.
LEMMA DeleteBeginPreserves ==
  ASSUME Inv, NEW c \in Clients, NEW kind \in Kinds, DeleteBegin(c, kind)
  PROVE  Inv'
  <1>1. PICK k \in KeysOf(kind), dry \in BOOLEAN :
          DeleteRead(c, Request("delete", k, FALSE, dry))
    BY DEF DeleteBegin
  <1>2. Request("delete", k, FALSE, dry) \in Requests
    BY RequestType DEF KeysOf, Ops
  <1>3. /\ req[c].pc # "announce" /\ left' \in [Clients -> SUBSET Keys]
        /\ UNCHANGED <<store, behind, version, watch, used, unsettled>>
    BY DEF DeleteBegin, Issues, Idle, Inv, TypeOK
  <1> QED
    BY <1>1, <1>2, <1>3, DeleteReadStep

\* Delete's store call removes the report and goes on to broadcast that.
LEMMA DeleteStorePreserves ==
  ASSUME Inv, NEW c \in Clients, NEW kind \in Kinds, DeleteStore(c, kind)
  PROVE  Inv'
  <1>0. req[c].pc # "announce" /\ UNCHANGED <<version, watch>>
    BY DEF DeleteStore
  <1>1. CASE Commit(c, NoReport, "Deleted")
    BY <1>0, <1>1, CommitStep DEF EventTypes
  <1>2. CASE Fail(c, "BadRequest")
    BY <1>0, <1>2, FailStep DEF Answers
  <1>3. CASE FailAfterWrite(c, NoReport, "BadRequest")
    BY <1>0, <1>3, LostReplyStep DEF Answers
  <1> QED
    BY <1>1, <1>2, <1>3 DEF DeleteStore

\* A list shows reports of its kind.
LEMMA ListedKeys ==
  ASSUME NEW s, NEW kind, NEW ns, NEW selector, NEW shown \in Listed(s, kind, ns, selector)
  PROVE  shown \in SUBSET Keys
  <1>1. PICK rows \in Arriving(Rows(s, kind, ns)) :
          shown = {k \in rows : allowObjectListWatch(s[k], selector)}
    BY DEF Listed
  <1>2. rows \subseteq Rows(s, kind, ns)
    BY DEF Arriving
  <1> QED
    BY <1>1, <1>2 DEF Rows, KeysOf

\* DeleteCollection starts with the keys that it has listed.
LEMMA CollectBeginPreserves ==
  ASSUME Inv, NEW c \in Clients, NEW kind \in Kinds, NEW namespaces,
         CollectBegin(c, kind, namespaces)
  PROVE  Inv'
  <1> DEFINE some == CHOOSE k \in KeysOf(kind) : TRUE
  <1>0. /\ req[c].pc # "announce"
        /\ UNCHANGED <<store, behind, version, watch, used, unsettled>>
    BY DEF CollectBegin, Issues, Idle
  <1>1. some \in Keys
    BY DEF CollectBegin, KeysOf
  <1> HIDE DEF some
  <1>2. CASE \E answer \in {"BadRequest", "ok"} : Return(c, answer) /\ UNCHANGED left
    <2>1. left' \in [Clients -> SUBSET Keys]
      BY <1>2 DEF Inv, TypeOK
    <2> QED
      BY <1>0, <1>2, <2>1, ReturnStep DEF Answers
  <1>3. CASE \E listed \in SUBSET Keys :
               /\ Goto(c, [Request("deleteCollection", some, FALSE, FALSE)
                             EXCEPT !.todo = listed], "collect")
               /\ ToDelete(c, listed)
    <2>1. PICK listed \in SUBSET Keys :
            /\ Goto(c, [Request("deleteCollection", some, FALSE, FALSE)
                          EXCEPT !.todo = listed], "collect")
            /\ ToDelete(c, listed)
      BY <1>3
    <2> DEFINE q == Request("deleteCollection", some, FALSE, FALSE)
               r == [q EXCEPT !.todo = listed, !.pc = "collect"]
    <2>2. q \in Requests
      BY <1>1, RequestType DEF Ops
    <2>3. left' \in [Clients -> SUBSET Keys]
      BY <2>1 DEF ToDelete, Inv, TypeOK
    <2>4. req' = [req EXCEPT ![c] = r]
      BY <2>1 DEF Goto
    <2> HIDE DEF q
    <2>5. r \in Requests /\ r.pc = "collect"
      BY <2>2 DEF Requests, Steps
    <2> QED
      BY <1>0, <2>3, <2>4, <2>5, LocalStep
  <1> QED
    BY <1>2, <1>3, ListedKeys DEF CollectBegin, some

\* DeleteCollection goes on to the next key, or returns.
LEMMA CollectNextPreserves ==
  ASSUME Inv, NEW c \in Clients, NEW kind \in Kinds, CollectNext(c, kind)
  PROVE  Inv'
  <1>0. /\ req[c].pc # "announce" /\ req[c] \in Requests
        /\ left' \in [Clients -> SUBSET Keys]
        /\ UNCHANGED <<store, behind, version, watch, used, unsettled>>
    BY DEF CollectNext, Inv, TypeOK
  <1>1. CASE Return(c, "ok")
    BY <1>0, <1>1, ReturnStep DEF Answers
  <1>2. CASE \E k \in req[c].todo :
               DeleteRead(c, [req[c] EXCEPT !.key = k, !.todo = @ \ {k}])
    <2>1. PICK k \in req[c].todo :
            DeleteRead(c, [req[c] EXCEPT !.key = k, !.todo = @ \ {k}])
      BY <1>2
    <2>2. [req[c] EXCEPT !.key = k, !.todo = @ \ {k}] \in Requests
      BY <1>0 DEF Requests
    <2> QED
      BY <1>0, <2>1, <2>2, DeleteReadStep
  <1> QED
    BY <1>1, <1>2 DEF CollectNext

\* broadcaster.Action: whoever is told of a settled key learns what the store
\* holds, whoever misses an event that it did not know of is blind to the key.
LEMMA AnnouncePreserves ==
  ASSUME Inv, NEW c \in Clients, NEW kind \in Kinds, Announce(c, kind)
  PROVE  Inv'
  <1> DEFINE key == req[c].key
             told(wt) == [wt EXCEPT !.view = [@ EXCEPT ![key] = Effect(req[c])],
                                 !.blind = @ \ {key}]
             missed(wt) == [wt EXCEPT !.blind = IF wt.view[key] = Effect(req[c])
                                                THEN @ ELSE @ \cup {key}]
  <1>0. /\ req[c] \in Requests /\ key \in Keys /\ KindOf[key] = kind
        /\ req[c].pc = "announce"
        /\ UNCHANGED <<store, behind, version, used, left, unsettled>>
    BY DEF Inv, TypeOK, Requests, Announce, KeysOf
  <1>1. Effect(req[c]) \in Reports \cup {NoReport}
    BY <1>0 DEF Effect, Requests
  <1>2. PICK r \in Requests : r.pc \in {"idle", "collect"} /\ req' = [req EXCEPT ![c] = r]
    <2>1. CASE Return(c, "ok")
      BY <2>1, ReturnType DEF Return, Answers
    <2>2. CASE Goto(c, [req[c] EXCEPT !.ev = "none"], "collect")
      <3>1. /\ [req[c] EXCEPT !.ev = "none", !.pc = "collect"] \in Requests
            /\ [req[c] EXCEPT !.ev = "none", !.pc = "collect"].pc = "collect"
        BY <1>0 DEF Requests, Steps, EventTypes
      <3> QED
        BY <2>2, <3>1 DEF Goto
    <2> QED
      BY <2>1, <2>2 DEF Announce
  <1>3. /\ \A d \in Clients : d # c => req'[d] = req[d]
        /\ req'[c] = r
    BY <1>2 DEF Inv, TypeOK
  <1>4. watch' = [w \in Watchers |->
                    IF watch[w].kind # kind THEN watch[w]
                    ELSE CASE watch[w].st = "on" -> told(watch[w])
                           [] watch[w].st = "listed" -> missed(watch[w])
                           [] OTHER -> watch[w]]
    BY DEF Announce
  <1>5. ASSUME NEW w \in Watchers
        PROVE  /\ watch'[w] \in Watches
               /\ watch'[w].st = watch[w].st /\ watch'[w].kind = watch[w].kind
               /\ \A k \in Keys : k # key =>
                    /\ watch'[w].view[k] = watch[w].view[k]
                    /\ k \in watch'[w].blind <=> k \in watch[w].blind
               /\ watch[w].kind = kind /\ watch[w].st = "on" =>
                    watch'[w].view[key] = Effect(req[c])
               /\ watch[w].kind = kind /\ watch[w].st = "listed" =>
                    key \in watch'[w].blind \/ watch'[w].view[key] = Effect(req[c])
    <2>0. watch[w] \in Watches
      BY DEF Inv, TypeOK
    <2>1. CASE watch[w].kind = kind /\ watch[w].st = "on"
      <3>1. watch'[w] = told(watch[w])
        BY <1>4, <2>1
      <3>2. /\ watch[w].view \in [Keys -> Reports \cup {NoReport}]
            /\ watch[w].blind \in SUBSET Keys
        BY <2>0 DEF Watches
      <3>3. /\ watch'[w].view = [watch[w].view EXCEPT ![key] = Effect(req[c])]
            /\ watch'[w].blind = watch[w].blind \ {key}
            /\ watch'[w].st = watch[w].st /\ watch'[w].kind = watch[w].kind
        BY <2>0, <3>1 DEF Watches
      <3>4. watch'[w] \in Watches
        <4> DEFINE nv == [watch[w].view EXCEPT ![key] = Effect(req[c])]
                   nb == watch[w].blind \ {key}
        <4>1. nv \in [Keys -> Reports \cup {NoReport}] /\ nb \in SUBSET Keys
          BY <1>0, <1>1, <3>2
        <4>2. watch'[w] = [watch[w] EXCEPT !.view = nv, !.blind = nb]
          BY <3>1
        <4> HIDE DEF nv, nb
        <4> QED
          BY <2>0, <4>1, <4>2 DEF Watches
      <3> QED
        BY <1>0, <2>1, <3>2, <3>3, <3>4
    <2>2. CASE watch[w].kind = kind /\ watch[w].st = "listed"
      <3>1. watch'[w] = missed(watch[w])
        BY <1>4, <2>2
      <3> QED
        BY <1>0, <1>1, <2>0, <2>2, <3>1 DEF Watches
    <2>3. CASE watch[w].kind # kind \/ watch[w].st = "off"
      <3>1. watch'[w] = watch[w]
        BY <1>4, <2>3
      <3> QED
        BY <2>0, <2>3, <3>1
    <2> QED
      BY <2>0, <2>1, <2>2, <2>3 DEF Watches
  <1>6. TypeOK'
    <2>1. watch' \in [Watchers -> Watches]
      BY <1>4, <1>5
    <2> QED
      BY <1>0, <1>2, <2>1 DEF Inv, TypeOK
  <1>7. VersionsApart'
    BY <1>0, <1>2, <1>3 DEF Inv, VersionsApart, HoldsVersion
  <1>8. EventsCurrent'
    <2> SUFFICES ASSUME NEW d \in Clients, NEW k \in Keys,
                        Announcing(d, k)', k \notin unsettled'
                 PROVE  Effect(req[d])' = store'[k]
      BY DEF EventsCurrent
    <2>1. d # c
      BY <1>2, <1>3 DEF Announcing
    <2>2. Announcing(d, k) /\ k \notin unsettled
      BY <1>0, <1>3, <2>1 DEF Announcing
    <2> QED
      BY <1>0, <1>3, <2>1, <2>2 DEF Inv, EventsCurrent, Effect
  <1>9. ViewsCurrent'
    <2> SUFFICES ASSUME NEW w \in Watchers, NEW k \in Keys,
                        watch'[w].st # "off", watch'[w].kind = KindOf[k],
                        k \notin watch'[w].blind, k \notin unsettled'
                 PROVE  watch'[w].view[k] = store'[k] \/ \E d \in Clients : Announcing(d, k)'
      BY DEF ViewsCurrent
    <2>1. CASE k = key
      <3>1. Effect(req[c]) = store[k]
        BY <1>0, <2>1 DEF Inv, EventsCurrent, Announcing
      <3>2. watch[w].st \in {"on", "listed"} /\ watch[w].kind = kind
        BY <1>0, <1>5, <2>1 DEF Inv, TypeOK, Watches
      <3> QED
        BY <1>0, <1>5, <2>1, <3>1, <3>2
    <2>2. CASE k # key
      <3>1. watch[w].view[k] = store[k] \/ \E d \in Clients : Announcing(d, k)
        BY <1>0, <1>5, <2>2 DEF Inv, ViewsCurrent
      <3>2. \A d \in Clients : Announcing(d, k) => Announcing(d, k)'
        BY <1>3, <2>2 DEF Announcing
      <3> QED
        BY <1>0, <1>5, <2>2, <3>1, <3>2
    <2> QED
      BY <2>1, <2>2
  <1> QED
    BY <1>6, <1>7, <1>8, <1>9 DEF Inv

-----------------------------------------------------------------------------
(* Watch, and the process *)

\* A watcher that has just connected, and one that has gone.
LEMMA NoWatchType == NoWatch \in Watches
  BY DEF NoWatch, Watches, Kinds

\* A step that replaces one watch by one that knows every settled key it is
\* not blind to.
LEMMA WatchStep ==
  ASSUME Inv, NEW w \in Watchers, NEW wt \in Watches,
         watch' = [watch EXCEPT ![w] = wt],
         \A k \in Keys : /\ wt.st # "off" /\ wt.kind = KindOf[k]
                         /\ k \notin wt.blind /\ k \notin unsettled
                         => wt.view[k] = store[k] \/ \E c \in Clients : Announcing(c, k),
         UNCHANGED <<store, behind, version, req, used, left, unsettled>>
  PROVE  Inv'
  <1>1. TypeOK'
    BY DEF Inv, TypeOK
  <1>2. VersionsApart'
    BY DEF Inv, VersionsApart, HoldsVersion
  <1>3. EventsCurrent'
    BY DEF Inv, EventsCurrent, Effect, Announcing
  <1>4. \A x \in Watchers : watch'[x] = IF x = w THEN wt ELSE watch[x]
    BY DEF Inv, TypeOK
  <1>5. \A c \in Clients, k \in Keys : Announcing(c, k)' <=> Announcing(c, k)
    BY DEF Announcing
  <1>6. ViewsCurrent'
    BY <1>4, <1>5 DEF Inv, ViewsCurrent
  <1> QED
    BY <1>1, <1>2, <1>3, <1>6 DEF Inv

\* A watch that begins is blind to what it has not listed.
LEMMA WatchBeginPreserves ==
  ASSUME Inv, NEW w \in Watchers, NEW kind \in Kinds, NEW namespaces,
         WatchBegin(w, kind, namespaces)
  PROVE  Inv'
  <1>0. UNCHANGED <<store, behind, version, req, used, left, unsettled>>
    BY DEF WatchBegin
  <1>1. CASE watch' = [watch EXCEPT ![w] =
                  [NoWatch EXCEPT !.st = "on", !.kind = kind, !.blind = KeysOf(kind)]]
    <2> DEFINE wt == [NoWatch EXCEPT !.st = "on", !.kind = kind, !.blind = KeysOf(kind)]
    <2>1. wt \in Watches /\ wt.kind = kind /\ wt.blind = KeysOf(kind)
      BY NoWatchType DEF Watches, KeysOf
    <2>2. \A k \in Keys : wt.kind = KindOf[k] => k \in wt.blind
      BY <2>1 DEF KeysOf
    <2> HIDE DEF wt
    <2> QED
      BY <1>0, <1>1, <2>1, <2>2, WatchStep DEF wt
  <1> DEFINE Seen(ns, s, shown) ==
               [st |-> "listed", kind |-> kind,
                view |-> [k \in Keys |-> IF k \in shown THEN s[k] ELSE NoReport],
                blind |-> {k \in KeysOf(kind) : \/ ns \notin {AllNamespaces, NsOf[k]}
                                                \/ s[k] # store[k]
                                                \/ s[k] # NoReport /\ k \notin shown}]
  <1>2. ASSUME NEW ns, NEW s \in States, NEW shown \in SUBSET Keys,
               watch' = [watch EXCEPT ![w] = Seen(ns, s, shown)]
        PROVE  Inv'
    <2> DEFINE view == [k \in Keys |-> IF k \in shown THEN s[k] ELSE NoReport]
               blind == {k \in KeysOf(kind) : \/ ns \notin {AllNamespaces, NsOf[k]}
                                              \/ s[k] # store[k]
                                              \/ s[k] # NoReport /\ k \notin shown}
               wt == [st |-> "listed", kind |-> kind, view |-> view, blind |-> blind]
    <2>2. view \in [Keys -> Reports \cup {NoReport}] /\ blind \in SUBSET Keys
      <3>1. s \in [Keys -> Reports \cup {NoReport}]
        BY DEF States, Inv, TypeOK
      <3> QED
        BY <3>1 DEF KeysOf
    <2>3. \A k \in KeysOf(kind) : k \notin blind => view[k] = store[k]
      BY DEF KeysOf
    <2>4. watch' = [watch EXCEPT ![w] = wt]
      BY <1>2
    <2> HIDE DEF view, blind
    <2>5. /\ wt \in Watches
          /\ wt.kind = kind /\ wt.view = view /\ wt.blind = blind
      BY <2>2 DEF Watches
    <2> HIDE DEF wt
    <2>6. \A k \in Keys : wt.kind = KindOf[k] /\ k \notin wt.blind => wt.view[k] = store[k]
      BY <2>3, <2>5 DEF KeysOf
    <2> QED
      BY <1>0, <2>4, <2>5, <2>6, WatchStep
  <1> QED
    <2>1. CASE \E ns \in namespaces, selector \in SUBSET Values, s \in States :
               \E shown \in Listed(s, kind, ns, selector) :
                 watch' = [watch EXCEPT ![w] = Seen(ns, s, shown)]
      <3>1. PICK ns \in namespaces, selector \in SUBSET Values, s \in States :
                 \E shown \in Listed(s, kind, ns, selector) :
                   watch' = [watch EXCEPT ![w] = Seen(ns, s, shown)]
        BY <2>1
      <3>2. PICK shown \in Listed(s, kind, ns, selector) :
              watch' = [watch EXCEPT ![w] = Seen(ns, s, shown)]
        BY <3>1
      <3> HIDE DEF Seen
      <3>3. shown \in SUBSET Keys
        BY ListedKeys
      <3> QED
        BY <1>2, <3>2, <3>3
    <2> QED
      BY <1>1, <2>1, Zenon DEF WatchBegin

\* A watch that registers goes on with what it has listed.
LEMMA WatchRegisterPreserves ==
  ASSUME Inv, NEW w \in Watchers, NEW kind \in Kinds, WatchRegister(w, kind)
  PROVE  Inv'
  <1> DEFINE wt == [watch[w] EXCEPT !.st = "on"]
  <1>1. watch[w] \in Watches /\ watch[w].st = "listed"
    BY DEF WatchRegister, Inv, TypeOK
  <1>2. watch' = [watch EXCEPT ![w] = wt]
    BY <1>1 DEF WatchRegister, Inv, TypeOK
  <1>3. /\ wt \in Watches /\ wt.kind = watch[w].kind
        /\ wt.view = watch[w].view /\ wt.blind = watch[w].blind
    BY <1>1 DEF Watches
  <1> HIDE DEF wt
  <1>4. \A k \in Keys : /\ wt.kind = KindOf[k] /\ k \notin wt.blind /\ k \notin unsettled
                        => wt.view[k] = store[k] \/ \E c \in Clients : Announcing(c, k)
    BY <1>1, <1>3 DEF Inv, ViewsCurrent
  <1> QED
    BY <1>2, <1>3, <1>4, WatchStep DEF WatchRegister

\* A watch that ends claims nothing.
LEMMA WatchStopPreserves ==
  ASSUME Inv, NEW w \in Watchers, WatchStop(w)
  PROVE  Inv'
  <1>1. NoWatch.st = "off"
    BY DEF NoWatch
  <1> QED
    BY <1>1, NoWatchType, WatchStep DEF WatchStop

\* The state after a start, the first one or a later one.
Started ==
    /\ store \in [Keys -> Reports \cup {NoReport}]
    /\ behind \in SUBSET [Keys -> Reports \cup {NoReport}]
    /\ version \in StartVersions
    /\ req = [c \in Clients |-> NoRequest]
    /\ watch = [w \in Watchers |-> NoWatch]
    /\ used = {} /\ unsettled = {}
    /\ left = [c \in Clients |-> {}]

\* A start leaves no event to come and no watcher that could be wrong.
LEMMA StartInv == Started => Inv
  <1> SUFFICES ASSUME Started PROVE Inv
    OBVIOUS
  <1> USE DEF Started
  <1>1. version \in Nat
    BY ReportsApiAssumption DEF StartVersions, SetResourceVersion, NewVersioning
  <1>2. TypeOK
    BY <1>1, NoRequestType, NoWatchType DEF TypeOK
  <1>3. (\A c \in Clients : req[c].pc = "idle") /\ (\A w \in Watchers : watch[w].st = "off")
    BY DEF NoRequest, Request, NoWatch
  <1> QED
    BY <1>2, <1>3 DEF Inv, VersionsApart, HoldsVersion, EventsCurrent, ViewsCurrent,
                      Announcing

-----------------------------------------------------------------------------
(* The theorems *)

\* Every handler of every kind preserves the invariant.
LEMMA ClientPreserves ==
  ASSUME Inv, NEW c \in Clients, ClientNext(c)
  PROVE  Inv'
  <1> USE DEF Kinds
  <1>0. {"Conflict", "AlreadyExists", "BadRequest"} \subseteq Answers
    BY DEF Answers
  <1>1. CASE PolrGet(c) \/ PolrList(c)
    BY <1>1, GetPreserves, ListPreserves DEF PolrGet, PolrList
  <1>2. CASE PolrCreate(c)
    BY <1>0, <1>2, CreateBeginPreserves, CreateStorePreserves DEF PolrCreate
  <1>3. CASE PolrUpdate(c)
    BY <1>3, UpdateBeginPreserves, UpdateMergePreserves, UpdateStorePreserves DEF PolrUpdate
  <1>4. CASE PolrDelete(c) \/ PolrDeleteCollection(c)
    BY <1>4, DeleteBeginPreserves, DeleteStorePreserves, CollectBeginPreserves,
       CollectNextPreserves DEF PolrDelete, PolrDeleteCollection
  <1>5. CASE CpolrGet(c) \/ CpolrList(c)
    BY <1>5, GetPreserves, ListPreserves DEF CpolrGet, CpolrList
  <1>6. CASE CpolrCreate(c)
    BY <1>0, <1>6, CreateBeginPreserves, CreateStorePreserves DEF CpolrCreate
  <1>7. CASE CpolrUpdate(c)
    BY <1>7, UpdateBeginPreserves, UpdateMergePreserves, UpdateStorePreserves DEF CpolrUpdate
  <1>8. CASE CpolrDelete(c) \/ CpolrDeleteCollection(c)
    BY <1>8, DeleteBeginPreserves, DeleteStorePreserves, CollectBeginPreserves,
       CollectNextPreserves DEF CpolrDelete, CpolrDeleteCollection
  <1>9. CASE EphrGet(c) \/ EphrList(c)
    BY <1>9, GetPreserves, ListPreserves DEF EphrGet, EphrList
  <1>10. CASE EphrCreate(c)
    BY <1>0, <1>10, CreateBeginPreserves, CreateStorePreserves DEF EphrCreate
  <1>11. CASE EphrUpdate(c)
    BY <1>11, UpdateBeginPreserves, UpdateMergePreserves, UpdateStorePreserves DEF EphrUpdate
  <1>12. CASE EphrDelete(c) \/ EphrDeleteCollection(c)
    BY <1>12, DeleteBeginPreserves, DeleteStorePreserves, CollectBeginPreserves,
       CollectNextPreserves DEF EphrDelete, EphrDeleteCollection
  <1>13. CASE CephrGet(c) \/ CephrList(c)
    BY <1>13, GetPreserves, ListPreserves DEF CephrGet, CephrList
  <1>14. CASE CephrCreate(c)
    BY <1>0, <1>14, CreateBeginPreserves, CreateStorePreserves DEF CephrCreate
  <1>15. CASE CephrUpdate(c)
    BY <1>15, UpdateBeginPreserves, UpdateMergePreserves, UpdateStorePreserves DEF CephrUpdate
  <1>16. CASE CephrDelete(c) \/ CephrDeleteCollection(c)
    BY <1>16, DeleteBeginPreserves, DeleteStorePreserves, CollectBeginPreserves,
       CollectNextPreserves DEF CephrDelete, CephrDeleteCollection
  <1>17. CASE \E kind \in Kinds : Announce(c, kind)
    BY <1>17, AnnouncePreserves
  <1> QED
    BY <1>1, <1>2, <1>3, <1>4, <1>5, <1>6, <1>7, <1>8,
       <1>9, <1>10, <1>11, <1>12, <1>13, <1>14, <1>15, <1>16, <1>17 DEF ClientNext

\* So does every step of a watch.
LEMMA WatcherPreserves ==
  ASSUME Inv, NEW w \in Watchers, WatcherNext(w)
  PROVE  Inv'
  <1> USE DEF Kinds
  <1>1. CASE PolrWatch(w)
    BY <1>1, WatchBeginPreserves, WatchRegisterPreserves DEF PolrWatch
  <1>2. CASE CpolrWatch(w)
    BY <1>2, WatchBeginPreserves, WatchRegisterPreserves DEF CpolrWatch
  <1>3. CASE EphrWatch(w)
    BY <1>3, WatchBeginPreserves, WatchRegisterPreserves DEF EphrWatch
  <1>4. CASE CephrWatch(w)
    BY <1>4, WatchBeginPreserves, WatchRegisterPreserves DEF CephrWatch
  <1>5. CASE WatchStop(w)
    BY <1>5, WatchStopPreserves
  <1> QED
    BY <1>1, <1>2, <1>3, <1>4, <1>5 DEF WatcherNext

\* The same of a state that a step leads to.
LEMMA StartInvPrime == Started' => Inv'
  BY StartInv, PTL

\* Nothing the process does, restarts included, leaves the invariant.
LEMMA StepPreserves == Inv /\ [Next]_vars => Inv'
  <1> SUFFICES ASSUME Inv, [Next]_vars PROVE Inv'
    OBVIOUS
  <1>1. CASE \E c \in Clients : ClientNext(c)
    BY <1>1, ClientPreserves
  <1>2. CASE \E w \in Watchers : WatcherNext(w)
    BY <1>2, WatcherPreserves
  <1>3. CASE Restart
    <2>1. /\ store' \in [Keys -> Reports \cup {NoReport}]
          /\ behind' \in SUBSET [Keys -> Reports \cup {NoReport}]
      BY <1>3 DEF Restart, Inv, TypeOK
    <2> QED
      BY <1>3, <2>1, StartInvPrime DEF Restart, Started
  <1>4. CASE UNCHANGED vars
    <2>1. TypeOK'
      BY <1>4 DEF Inv, TypeOK, vars
    <2>2. VersionsApart' /\ EventsCurrent' /\ ViewsCurrent'
      BY <1>4 DEF Inv, vars, VersionsApart, HoldsVersion, EventsCurrent, ViewsCurrent,
                  Announcing, Effect
    <2> QED
      BY <2>1, <2>2 DEF Inv
  <1> QED
    BY <1>1, <1>2, <1>3, <1>4 DEF Next

\* The inductive invariant holds throughout, for every value of the constants.
THEOREM Invariance == Spec => []Inv
  <1>1. Init => Inv
    <2> SUFFICES ASSUME Init PROVE Inv
      OBVIOUS
    <2>1. /\ store \in [Keys -> Reports \cup {NoReport}]
          /\ behind \in SUBSET [Keys -> Reports \cup {NoReport}]
      BY DEF Init
    <2> QED
      BY <2>1, StartInv DEF Init, Started
  <1> QED
    BY <1>1, StepPreserves, PTL DEF Spec

\* Type correctness of the four REST storages.
THEOREM TypeCorrect == Spec => []TypeOK
  BY Invariance, PTL DEF Inv

\* However handlers, watches, store failures and restarts interleave, a watch
\* client is wrong about a key only if it is blind to it, the key is
\* unsettled, or an event of it is still on its way (polr.go Watch, and the
\* broadcaster.Action calls of Create, Update and Delete).
THEOREM Convergence == Spec => []WatchersConverge
  <1>1. Inv => WatchersConverge
    BY DEF Inv, ViewsCurrent, WatchersConverge
  <1> QED
    BY <1>1, Invariance, PTL

\* One process never writes two reports with the same resource version, of
\* any kinds and in any interleaving (versioning.go, polr.go createPolr and
\* updatePolr).
THEOREM VersionsFresh == Spec => FreshVersions
  <1> DEFINE Fresh == \A k \in Keys :
               store'[k] # store[k] /\ store'[k] # NoReport => store'[k].rv \notin used
  <1>1. ASSUME Inv, Next PROVE Fresh
    <2>1. ASSUME store' # store
          PROVE  \E c \in Clients : \E report \in {req[c].obj, NoReport} :
                   /\ Write(req[c].key, report)
                   /\ report # NoReport => HoldsVersion(c) /\ report = req[c].obj
      <3>1. CASE \E c \in Clients : ClientNext(c)
        <4>1. PICK c \in Clients : ClientNext(c)
          BY <3>1
        <4>2. \E kind \in Kinds, exists \in Answers :
                CreateStore(c, kind, exists) \/ UpdateStore(c, kind) \/ DeleteStore(c, kind)
          BY <2>1, <4>1
             DEF ClientNext, Kinds, Answers, PolrGet, PolrList, PolrCreate, PolrUpdate,
                 PolrDelete, PolrDeleteCollection, CpolrGet, CpolrList, CpolrCreate,
                 CpolrUpdate, CpolrDelete, CpolrDeleteCollection, EphrGet, EphrList,
                 EphrCreate, EphrUpdate, EphrDelete, EphrDeleteCollection, CephrGet,
                 CephrList, CephrCreate, CephrUpdate, CephrDelete, CephrDeleteCollection,
                 Get, List, CreateBegin, UpdateBegin, UpdateMerge, DeleteBegin,
                 CollectBegin, CollectNext, Announce
        <4> QED
          BY <2>1, <4>2
             DEF CreateStore, UpdateStore, DeleteStore, Commit, Fail, FailAfterWrite,
                 AnnounceNothing, HoldsVersion
      <3>2. CASE \E w \in Watchers : WatcherNext(w)
        BY <2>1, <3>2 DEF WatcherNext, PolrWatch, CpolrWatch, EphrWatch, CephrWatch,
                          WatchBegin, WatchRegister, WatchStop
      <3>3. CASE Restart
        BY <2>1, <3>3 DEF Restart
      <3> QED
        BY <1>1, <3>1, <3>2, <3>3 DEF Next
    <2> SUFFICES ASSUME NEW k \in Keys, store'[k] # store[k], store'[k] # NoReport
                 PROVE  store'[k].rv \notin used
      OBVIOUS
    <2>2. PICK c \in Clients : \E report \in {req[c].obj, NoReport} :
            /\ Write(req[c].key, report)
            /\ report # NoReport => HoldsVersion(c) /\ report = req[c].obj
      BY <2>1
    <2>3. PICK report \in {req[c].obj, NoReport} :
            /\ Write(req[c].key, report)
            /\ report # NoReport => HoldsVersion(c) /\ report = req[c].obj
      BY <2>2
    <2>4. store'[k] = report
      BY <1>1, <2>3 DEF Write, Inv, TypeOK
    <2> QED
      BY <1>1, <2>3, <2>4 DEF Inv, VersionsApart
  <1>2. Inv /\ [Next]_vars => [Fresh]_vars
    BY <1>1
  <1> QED
    BY <1>2, Invariance, PTL DEF Spec, FreshVersions

-----------------------------------------------------------------------------
(* What the answers promise *)

\* The handlers that change their locals only, and those that go to the store.
ReadingStep(c, kind) ==
    \/ Get(c, kind) \/ List(c, kind) \/ UpdateBegin(c, kind) \/ UpdateMerge(c, kind)
    \/ DeleteBegin(c, kind) \/ CollectNext(c, kind) \/ Announce(c, kind)
    \/ \E namespaces : CollectBegin(c, kind, namespaces)
    \/ \E unnamed \in Answers : CreateBegin(c, kind, unnamed)
WritingStep(c, kind) ==
    \/ \E exists \in Answers \ {"ok"} : CreateStore(c, kind, exists)
    \/ UpdateStore(c, kind) \/ DeleteStore(c, kind)

\* The four kinds have the same handlers.
LEMMA ClientSteps ==
  ASSUME NEW c \in Clients, ClientNext(c)
  PROVE  \E kind \in Kinds : ReadingStep(c, kind) \/ WritingStep(c, kind)
  <1> USE DEF Kinds, ReadingStep, WritingStep
  <1>0. {"Conflict", "AlreadyExists", "BadRequest"} \subseteq Answers \ {"ok"}
    BY DEF Answers
  <1>1. CASE \/ PolrGet(c) \/ PolrList(c) \/ PolrCreate(c) \/ PolrUpdate(c)
             \/ PolrDelete(c) \/ PolrDeleteCollection(c)
    BY <1>0, <1>1 DEF PolrGet, PolrList, PolrCreate, PolrUpdate, PolrDelete,
                      PolrDeleteCollection
  <1>2. CASE \/ CpolrGet(c) \/ CpolrList(c) \/ CpolrCreate(c) \/ CpolrUpdate(c)
             \/ CpolrDelete(c) \/ CpolrDeleteCollection(c)
    BY <1>0, <1>2 DEF CpolrGet, CpolrList, CpolrCreate, CpolrUpdate, CpolrDelete,
                      CpolrDeleteCollection
  <1>3. CASE \/ EphrGet(c) \/ EphrList(c) \/ EphrCreate(c) \/ EphrUpdate(c)
             \/ EphrDelete(c) \/ EphrDeleteCollection(c)
    BY <1>0, <1>3 DEF EphrGet, EphrList, EphrCreate, EphrUpdate, EphrDelete,
                      EphrDeleteCollection
  <1>4. CASE \/ CephrGet(c) \/ CephrList(c) \/ CephrCreate(c) \/ CephrUpdate(c)
             \/ CephrDelete(c) \/ CephrDeleteCollection(c)
    BY <1>0, <1>4 DEF CephrGet, CephrList, CephrCreate, CephrUpdate, CephrDelete,
                      CephrDeleteCollection
  <1>5. CASE \E kind \in Kinds : Announce(c, kind)
    BY <1>5
  <1> QED
    BY <1>1, <1>2, <1>3, <1>4, <1>5 DEF ClientNext

\* A step that leaves one handler with locals that are in step.
LEMMA LocalsStep ==
  ASSUME TypeOK, LocalsInStep, NEW c \in Clients, NEW r,
         req' = [req EXCEPT ![c] = r], InStep(r, used'), used \subseteq used'
  PROVE  LocalsInStep'
  <1> SUFFICES ASSUME NEW d \in Clients PROVE InStep(req'[d], used')
    BY DEF LocalsInStep, InStep
  <1>1. CASE d = c
    BY <1>1 DEF TypeOK
  <1>2. CASE d # c
    <2>1. req'[d] = req[d]
      BY <1>2 DEF TypeOK
    <2>2. InStep(req[d], used)
      BY DEF LocalsInStep
    <2> QED
      BY <2>1, <2>2 DEF InStep
  <1> QED
    BY <1>1, <1>2

\* A handler that returns has nothing left to promise.
LEMMA ReturnLocals ==
  ASSUME TypeOK, LocalsInStep, NEW c \in Clients, NEW answer \in Answers,
         Return(c, answer), used \subseteq used'
  PROVE  LocalsInStep'
  <1> DEFINE r == [NoRequest EXCEPT !.resp = answer]
  <1>1. r.pc = "idle"
    BY ReturnType
  <1>2. req' = [req EXCEPT ![c] = r]
    BY DEF Return
  <1> HIDE DEF r
  <1>3. InStep(r, used')
    BY <1>1 DEF InStep
  <1> QED
    BY <1>2, <1>3, LocalsStep

\* Create goes to the store with a report, unless it is a dry run.
LEMMA CreateBeginLocals ==
  ASSUME TypeOK, LocalsInStep, NEW c \in Clients, NEW kind \in Kinds,
         NEW unnamed \in Answers, CreateBegin(c, kind, unnamed)
  PROVE  LocalsInStep'
  <1>0. used' = used
    BY DEF CreateBegin
  <1>1. CASE \E answer \in Answers : Return(c, answer)
    BY <1>0, <1>1, ReturnLocals
  <1>2. CASE \E k \in KeysOf(kind), v \in Values :
               Goto(c, [Request("create", k, FALSE, FALSE)
                          EXCEPT !.obj = [rv |-> version, val |-> v]], "createStore")
    <2>1. PICK k \in KeysOf(kind), v \in Values :
            Goto(c, [Request("create", k, FALSE, FALSE)
                       EXCEPT !.obj = [rv |-> version, val |-> v]], "createStore")
      BY <1>2
    <2> DEFINE r == [Request("create", k, FALSE, FALSE)
                       EXCEPT !.obj = [rv |-> version, val |-> v], !.pc = "createStore"]
    <2>2. req' = [req EXCEPT ![c] = r]
      BY <2>1 DEF Goto, Request
    <2>3. r.pc = "createStore" /\ r.op = "create" /\ ~r.dry
      BY DEF Request
    <2> HIDE DEF r
    <2>4. InStep(r, used')
      BY <2>3 DEF InStep
    <2> QED
      BY <1>0, <2>2, <2>4, LocalsStep
  <1> QED
    BY <1>1, <1>2 DEF CreateBegin, Answers

\* Update reads and goes on to merge.
LEMMA UpdateBeginLocals ==
  ASSUME TypeOK, LocalsInStep, NEW c \in Clients, NEW kind \in Kinds, UpdateBegin(c, kind)
  PROVE  LocalsInStep'
  <1>0. used' = used
    BY DEF UpdateBegin
  <1>1. CASE Return(c, "error")
    BY <1>0, <1>1, ReturnLocals DEF Answers
  <1>2. CASE \E k \in KeysOf(kind), forced, dry \in BOOLEAN :
               Goto(c, Request("update", k, forced, dry), "updateMerge")
    <2>1. PICK k \in KeysOf(kind), forced \in BOOLEAN, dry \in BOOLEAN :
            Goto(c, Request("update", k, forced, dry), "updateMerge")
      BY <1>2
    <2> DEFINE r == [Request("update", k, forced, dry) EXCEPT !.pc = "updateMerge"]
    <2>2. req' = [req EXCEPT ![c] = r]
      BY <2>1 DEF Goto
    <2>3. r.pc = "updateMerge" /\ r.op = "update"
      BY DEF Request
    <2> HIDE DEF r
    <2>4. InStep(r, used')
      BY <2>3 DEF InStep
    <2> QED
      BY <1>0, <2>2, <2>4, LocalsStep
  <1> QED
    BY <1>1, <1>2 DEF UpdateBegin

\* Update goes to the store only when it writes.
LEMMA UpdateMergeLocals ==
  ASSUME TypeOK, LocalsInStep, NEW c \in Clients, NEW kind \in Kinds, UpdateMerge(c, kind)
  PROVE  LocalsInStep'
  <1>0. used' = used /\ req[c] \in Requests /\ req[c].pc = "updateMerge"
        /\ InStep(req[c], used)
    BY DEF UpdateMerge, TypeOK, LocalsInStep
  <1>1. CASE \E answer \in Answers : Return(c, answer)
    BY <1>0, <1>1, ReturnLocals
  <1>2. CASE /\ UpdateWrites(req[c])
             /\ \E v \in Values :
                  Goto(c, [req[c] EXCEPT !.obj = [rv |-> version, val |-> v]], "updateStore")
    <2>1. PICK v \in Values :
            Goto(c, [req[c] EXCEPT !.obj = [rv |-> version, val |-> v]], "updateStore")
      BY <1>2
    <2> DEFINE r == [req[c] EXCEPT !.obj = [rv |-> version, val |-> v], !.pc = "updateStore"]
    <2>2. req' = [req EXCEPT ![c] = r]
      BY <1>0, <2>1 DEF Goto, Requests
    <2>3. /\ r.pc = "updateStore" /\ r.op = req[c].op
          /\ r.forced = req[c].forced /\ r.dry = req[c].dry
      BY <1>0 DEF Requests
    <2> HIDE DEF r
    <2>4. InStep(r, used')
      BY <1>0, <1>2, <2>3 DEF InStep, UpdateWrites
    <2> QED
      BY <1>0, <2>2, <2>4, LocalsStep
  <1> QED
    BY <1>1, <1>2 DEF UpdateMerge, Answers

\* Delete goes to the store unless it is a dry run.
LEMMA DeleteReadLocals ==
  ASSUME TypeOK, LocalsInStep, NEW c \in Clients, NEW r \in Requests, DeleteRead(c, r),
         r.op \in {"delete", "deleteCollection"}, used' = used
  PROVE  LocalsInStep'
  <1>1. CASE \E answer \in {"NotFound", "BadRequest", "ok"} : Return(c, answer)
    BY <1>1, ReturnLocals DEF Answers
  <1>2. CASE ~r.dry /\ Goto(c, r, "deleteStore")
    <2> DEFINE q == [r EXCEPT !.pc = "deleteStore"]
    <2>1. req' = [req EXCEPT ![c] = q]
      BY <1>2 DEF Goto
    <2>2. q.pc = "deleteStore" /\ q.op = r.op /\ q.dry = r.dry
      BY DEF Requests
    <2> HIDE DEF q
    <2>3. InStep(q, used')
      BY <1>2, <2>2 DEF InStep
    <2> QED
      BY <2>1, <2>3, LocalsStep
  <1> QED
    BY <1>1, <1>2 DEF DeleteRead, Requests

\* Delete of one report.
LEMMA DeleteBeginLocals ==
  ASSUME TypeOK, LocalsInStep, NEW c \in Clients, NEW kind \in Kinds, DeleteBegin(c, kind)
  PROVE  LocalsInStep'
  <1>1. PICK k \in KeysOf(kind), dry \in BOOLEAN :
          DeleteRead(c, Request("delete", k, FALSE, dry))
    BY DEF DeleteBegin
  <1>2. Request("delete", k, FALSE, dry) \in Requests
    BY RequestType DEF KeysOf, Ops
  <1>3. Request("delete", k, FALSE, dry).op = "delete"
    BY DEF Request
  <1> QED
    BY <1>1, <1>2, <1>3, DeleteReadLocals DEF DeleteBegin

\* DeleteCollection starts deleting unless it is a dry run.
LEMMA CollectBeginLocals ==
  ASSUME TypeOK, LocalsInStep, NEW c \in Clients, NEW kind \in Kinds, NEW namespaces,
         CollectBegin(c, kind, namespaces)
  PROVE  LocalsInStep'
  <1> DEFINE some == CHOOSE k \in KeysOf(kind) : TRUE
  <1>0. used' = used
    BY DEF CollectBegin
  <1>1. CASE \E answer \in {"BadRequest", "ok"} : Return(c, answer)
    BY <1>0, <1>1, ReturnLocals DEF Answers
  <1>2. CASE \E todo :
               Goto(c, [Request("deleteCollection", some, FALSE, FALSE)
                          EXCEPT !.todo = todo], "collect")
    <2>1. PICK todo :
            Goto(c, [Request("deleteCollection", some, FALSE, FALSE)
                       EXCEPT !.todo = todo], "collect")
      BY <1>2
    <2> DEFINE r == [Request("deleteCollection", some, FALSE, FALSE)
                       EXCEPT !.todo = todo, !.pc = "collect"]
    <2>2. req' = [req EXCEPT ![c] = r]
      BY <2>1 DEF Goto, Request
    <2>3. r.pc = "collect" /\ r.op = "deleteCollection" /\ ~r.dry
      BY DEF Request
    <2> HIDE DEF r
    <2>4. InStep(r, used')
      BY <2>3 DEF InStep
    <2> QED
      BY <1>0, <2>2, <2>4, LocalsStep
  <1> HIDE DEF some
  <1> QED
    BY <1>1, <1>2 DEF CollectBegin, some

\* DeleteCollection deletes the next report as Delete does.
LEMMA CollectNextLocals ==
  ASSUME TypeOK, LocalsInStep, NEW c \in Clients, NEW kind \in Kinds, CollectNext(c, kind)
  PROVE  LocalsInStep'
  <1>0. used' = used /\ req[c] \in Requests /\ req[c].pc = "collect"
        /\ InStep(req[c], used)
    BY DEF CollectNext, TypeOK, LocalsInStep
  <1>1. CASE Return(c, "ok")
    BY <1>0, <1>1, ReturnLocals DEF Answers
  <1>2. CASE \E k \in req[c].todo :
               DeleteRead(c, [req[c] EXCEPT !.key = k, !.todo = @ \ {k}])
    <2>1. PICK k \in req[c].todo :
            DeleteRead(c, [req[c] EXCEPT !.key = k, !.todo = @ \ {k}])
      BY <1>2
    <2> DEFINE r == [req[c] EXCEPT !.key = k, !.todo = @ \ {k}]
    <2>2. r \in Requests /\ r.op = req[c].op
      BY <1>0 DEF Requests
    <2>3. r.op = "deleteCollection"
      BY <1>0, <2>2 DEF InStep
    <2> QED
      BY <1>0, <2>1, <2>2, <2>3, DeleteReadLocals
  <1> QED
    BY <1>1, <1>2 DEF CollectNext

\* After the broadcast, DeleteCollection goes on and the others return.
LEMMA AnnounceLocals ==
  ASSUME TypeOK, LocalsInStep, NEW c \in Clients, NEW kind \in Kinds, Announce(c, kind)
  PROVE  LocalsInStep'
  <1>0. used' = used /\ req[c] \in Requests /\ req[c].pc = "announce"
        /\ InStep(req[c], used)
    BY DEF Announce, TypeOK, LocalsInStep
  <1>1. CASE Return(c, "ok")
    BY <1>0, <1>1, ReturnLocals DEF Answers
  <1>2. CASE /\ req[c].op = "deleteCollection"
             /\ Goto(c, [req[c] EXCEPT !.ev = "none"], "collect")
    <2> DEFINE r == [req[c] EXCEPT !.ev = "none", !.pc = "collect"]
    <2>1. req' = [req EXCEPT ![c] = r]
      BY <1>0, <1>2 DEF Goto, Requests
    <2>2. r.pc = "collect" /\ r.op = req[c].op /\ r.dry = req[c].dry
      BY <1>0 DEF Requests
    <2> HIDE DEF r
    <2>3. InStep(r, used')
      BY <1>0, <1>2, <2>2 DEF InStep
    <2> QED
      BY <1>0, <2>1, <2>3, LocalsStep
  <1> QED
    BY <1>1, <1>2 DEF Announce

\* The store took the write: what the handler is about to broadcast is what
\* it has written.
LEMMA CommitLocals ==
  ASSUME TypeOK, LocalsInStep, NEW c \in Clients, NEW report, NEW ev \in EventTypes,
         Commit(c, report, ev),
         \/ req[c].op = "create" /\ ev = "Added" /\ report = req[c].obj /\ report # NoReport
         \/ req[c].op = "update" /\ ev = "Modified" /\ report = req[c].obj /\ report # NoReport
         \/ req[c].op \in {"delete", "deleteCollection"} /\ ~req[c].dry
  PROVE  LocalsInStep'
  <1> DEFINE r == [req[c] EXCEPT !.ev = ev, !.pc = "announce"]
  <1>0. req[c] \in Requests
    BY DEF TypeOK
  <1>1. req' = [req EXCEPT ![c] = r]
    BY <1>0 DEF Commit, Goto, Requests
  <1>2. /\ r.pc = "announce" /\ r.op = req[c].op /\ r.ev = ev
        /\ r.obj = req[c].obj /\ r.dry = req[c].dry
    BY <1>0 DEF Requests
  <1>3. used' = IF report = NoReport THEN used ELSE used \cup {report.rv}
    BY DEF Commit, Write
  <1> HIDE DEF r
  <1>4. InStep(r, used')
    BY <1>2, <1>3 DEF InStep
  <1>5. used \subseteq used'
    BY <1>3
  <1> QED
    BY <1>1, <1>4, <1>5, LocalsStep

\* Nothing was written: only an update that is forced, or whose store does not
\* report missing rows, gets here.
LEMMA NothingLocals ==
  ASSUME TypeOK, LocalsInStep, NEW c \in Clients, AnnounceNothing(c, "Modified"),
         req[c].op = "update", req[c].forced \/ ~StrictUpdate
  PROVE  LocalsInStep'
  <1> DEFINE r == [req[c] EXCEPT !.ev = "Modified", !.pc = "announce"]
  <1>0. req[c] \in Requests
    BY DEF TypeOK
  <1>1. req' = [req EXCEPT ![c] = r] /\ used' = used
    BY <1>0 DEF AnnounceNothing, Goto, Requests
  <1>2. /\ r.pc = "announce" /\ r.op = req[c].op /\ r.ev = "Modified"
        /\ r.forced = req[c].forced
    BY <1>0 DEF Requests
  <1> HIDE DEF r
  <1>3. InStep(r, used')
    BY <1>2 DEF InStep
  <1> QED
    BY <1>1, <1>3, LocalsStep

\* A store call that fails, with or without effect, ends the request.
LEMMA FailLocals ==
  ASSUME TypeOK, LocalsInStep, NEW c \in Clients, NEW answer \in Answers, NEW report,
         Fail(c, answer) \/ FailAfterWrite(c, report, answer)
  PROVE  LocalsInStep'
  <1>1. Return(c, answer) /\ used \subseteq used'
    BY DEF Fail, FailAfterWrite, Write
  <1> QED
    BY <1>1, ReturnLocals

\* A store call leaves the handler with locals that are in step.
LEMMA WritingLocals ==
  ASSUME Inv, LocalsInStep, NEW c \in Clients, NEW kind \in Kinds, WritingStep(c, kind)
  PROVE  LocalsInStep'
  <1>0. TypeOK /\ InStep(req[c], used) /\ (HoldsVersion(c) => req[c].obj # NoReport)
    BY DEF Inv, LocalsInStep, VersionsApart
  <1>1. CASE \E exists \in Answers \ {"ok"} : CreateStore(c, kind, exists)
    <2>1. PICK exists \in Answers : CreateStore(c, kind, exists)
      BY <1>1
    <2>2. req[c].op = "create" /\ req[c].obj # NoReport
      BY <1>0, <2>1 DEF CreateStore, InStep, HoldsVersion
    <2>3. CASE Commit(c, req[c].obj, "Added")
      BY <1>0, <2>2, <2>3, CommitLocals DEF EventTypes
    <2>4. CASE Fail(c, exists) \/ FailAfterWrite(c, req[c].obj, exists)
      BY <1>0, <2>4, FailLocals
    <2> QED
      BY <2>1, <2>3, <2>4 DEF CreateStore
  <1>2. CASE UpdateStore(c, kind)
    <2>1. req[c].op = "update" /\ req[c].obj # NoReport
      BY <1>0, <1>2 DEF UpdateStore, InStep, HoldsVersion
    <2>2. CASE Commit(c, req[c].obj, "Modified")
      BY <1>0, <2>1, <2>2, CommitLocals DEF EventTypes
    <2>3. CASE AnnounceNothing(c, "Modified") /\ (req[c].forced \/ ~StrictUpdate)
      BY <1>0, <2>1, <2>3, NothingLocals
    <2>4. CASE Fail(c, "BadRequest") \/ FailAfterWrite(c, req[c].obj, "BadRequest")
      BY <1>0, <2>4, FailLocals DEF Answers
    <2> QED
      BY <1>2, <2>2, <2>3, <2>4 DEF UpdateStore, MissingRowSucceeds
  <1>3. CASE DeleteStore(c, kind)
    <2>1. req[c].op \in {"delete", "deleteCollection"} /\ ~req[c].dry
      BY <1>0, <1>3 DEF DeleteStore, InStep
    <2>2. CASE Commit(c, NoReport, "Deleted")
      BY <1>0, <2>1, <2>2, CommitLocals DEF EventTypes
    <2>3. CASE Fail(c, "BadRequest") \/ FailAfterWrite(c, NoReport, "BadRequest")
      BY <1>0, <2>3, FailLocals DEF Answers
    <2> QED
      BY <1>3, <2>2, <2>3 DEF DeleteStore
  <1> QED
    BY <1>1, <1>2, <1>3 DEF WritingStep

\* So does every other step of a handler.
LEMMA ReadingLocals ==
  ASSUME TypeOK, LocalsInStep, NEW c \in Clients, NEW kind \in Kinds, ReadingStep(c, kind)
  PROVE  LocalsInStep'
  <1>1. CASE Get(c, kind) \/ List(c, kind)
    <2>1. PICK answer \in {"NotFound", "ok", "error", "BadRequest"} : Return(c, answer)
      BY <1>1 DEF Get, List
    <2> QED
      BY <1>1, <2>1, ReturnLocals DEF Get, List, Answers
  <1>2. CASE UpdateBegin(c, kind) \/ UpdateMerge(c, kind)
    BY <1>2, UpdateBeginLocals, UpdateMergeLocals
  <1>3. CASE DeleteBegin(c, kind) \/ CollectNext(c, kind) \/ Announce(c, kind)
    BY <1>3, DeleteBeginLocals, CollectNextLocals, AnnounceLocals
  <1>4. CASE \E namespaces : CollectBegin(c, kind, namespaces)
    BY <1>4, CollectBeginLocals
  <1>5. CASE \E unnamed \in Answers : CreateBegin(c, kind, unnamed)
    BY <1>5, CreateBeginLocals
  <1> QED
    BY <1>1, <1>2, <1>3, <1>4, <1>5 DEF ReadingStep

\* After a start no handler is under way.
LEMMA StartLocals == Started => LocalsInStep
  <1>1. NoRequest.pc = "idle"
    BY DEF NoRequest, Request
  <1> QED
    BY <1>1 DEF Started, LocalsInStep, InStep

LEMMA StartLocalsPrime == Started' => LocalsInStep'
  BY StartLocals, PTL

\* The watchers' steps do not touch the handlers.
LEMMA WatchingLeaves ==
  ASSUME NEW w \in Watchers, WatcherNext(w)
  PROVE  UNCHANGED <<store, behind, version, req, used, left, unsettled>>
  BY DEF WatcherNext, PolrWatch, CpolrWatch, EphrWatch, CephrWatch,
         WatchBegin, WatchRegister, WatchStop

\* A restart is a start on the store that the last process left.
LEMMA RestartStarts ==
  ASSUME TypeOK, Restart
  PROVE  Started'
  BY DEF Restart, Started, TypeOK

\* A handler is at a step only with the locals that belong to it: the store is
\* reached by no dry run but a forced one, and what is about to be broadcast
\* as created or updated has been committed by this process.
THEOREM LocalsAgree == Spec => []LocalsInStep
  <1>1. Init => LocalsInStep
    BY StartLocals DEF Init, Started
  <1>2. Inv /\ LocalsInStep /\ [Next]_vars => LocalsInStep'
    <2> SUFFICES ASSUME Inv, LocalsInStep, [Next]_vars PROVE LocalsInStep'
      OBVIOUS
    <2>1. TypeOK
      BY DEF Inv
    <2>2. CASE \E c \in Clients : ClientNext(c)
      BY <2>1, <2>2, ClientSteps, ReadingLocals, WritingLocals
    <2>3. CASE \E w \in Watchers : WatcherNext(w)
      BY <2>3, WatchingLeaves DEF LocalsInStep
    <2>4. CASE Restart
      BY <2>1, <2>4, RestartStarts, StartLocalsPrime
    <2>5. CASE UNCHANGED vars
      BY <2>5 DEF vars, LocalsInStep
    <2> QED
      BY <2>2, <2>3, <2>4, <2>5 DEF Next
  <1> QED
    BY <1>1, <1>2, Invariance, PTL DEF Spec

\* Whoever changes a report in the store is a handler at its store call.
LEMMA StoreWriter ==
  ASSUME TypeOK, Next, NEW k \in Keys, store'[k] # store[k]
  PROVE  \E c \in Clients, kind \in Kinds :
           /\ WritingStep(c, kind)
           /\ req[c].key = k /\ req'[c].pc \in {"announce", "idle"}
  <1>1. PICK c \in Clients : ClientNext(c)
    <2>1. ~(\E w \in Watchers : WatcherNext(w))
      BY WatchingLeaves
    <2>2. ~Restart
      BY DEF Restart
    <2> QED
      BY <2>1, <2>2 DEF Next
  <1>2. PICK kind \in Kinds : ReadingStep(c, kind) \/ WritingStep(c, kind)
    BY <1>1, ClientSteps
  <1>3. WritingStep(c, kind)
    BY <1>2 DEF ReadingStep, Get, List, CreateBegin, UpdateBegin, UpdateMerge, DeleteBegin,
                CollectBegin, CollectNext, Announce
  <1>4. \E report, ev, answer :
          answer \in Answers /\ (Commit(c, report, ev) \/ FailAfterWrite(c, report, answer))
    <2>1. ASSUME NEW answer, Fail(c, answer) PROVE FALSE
      BY <2>1 DEF Fail
    <2>2. ASSUME NEW ev, AnnounceNothing(c, ev) PROVE FALSE
      BY <2>2 DEF AnnounceNothing
    <2>3. "BadRequest" \in Answers
      BY DEF Answers
    <2>4. CASE \E exists \in Answers \ {"ok"} : CreateStore(c, kind, exists)
      BY <2>1, <2>4 DEF CreateStore
    <2>5. CASE UpdateStore(c, kind)
      BY <2>1, <2>2, <2>3, <2>5 DEF UpdateStore
    <2>6. CASE DeleteStore(c, kind)
      BY <2>1, <2>3, <2>6 DEF DeleteStore
    <2> QED
      BY <1>3, <2>4, <2>5, <2>6 DEF WritingStep
  <1>5. PICK report, ev, answer :
        answer \in Answers /\ (Commit(c, report, ev) \/ FailAfterWrite(c, report, answer))
    BY <1>4
  <1>6. req[c].key = k
    BY <1>5 DEF Commit, FailAfterWrite, Write, TypeOK
  <1>7. req'[c].pc \in {"announce", "idle"}
    <2>1. CASE Commit(c, report, ev)
      BY <2>1 DEF Commit, Goto, TypeOK, Requests
    <2>2. CASE FailAfterWrite(c, report, answer)
      <3>1. req'[c] = [NoRequest EXCEPT !.resp = answer]
        BY <2>2 DEF FailAfterWrite, Return, TypeOK
      <3> QED
        BY <1>5, <3>1, ReturnType
    <2> QED
      BY <1>5, <2>1, <2>2
  <1> QED
    BY <1>3, <1>6, <1>7

\* A dry run changes nothing in the store, unless it is a forced update
\* (polr.go:186): the flag is tested before every other store call, those of
\* DeleteCollection included.
THEOREM DryRunsHarmless == Spec => DryRunsWriteNothing
  <1> DEFINE Harmless == \A k \in Keys : store'[k] # store[k] =>
               \E c \in Clients : /\ req[c].key = k
                                  /\ req'[c] # req[c]
                                  /\ ~req[c].dry \/ req[c].forced
  <1>1. ASSUME TypeOK, LocalsInStep, Next PROVE Harmless
    <2> SUFFICES ASSUME NEW k \in Keys, store'[k] # store[k]
                 PROVE  \E c \in Clients : /\ req[c].key = k
                                           /\ req'[c] # req[c]
                                           /\ ~req[c].dry \/ req[c].forced
      OBVIOUS
    <2>1. PICK c \in Clients, kind \in Kinds :
            /\ WritingStep(c, kind)
            /\ req[c].key = k /\ req'[c].pc \in {"announce", "idle"}
      BY <1>1, StoreWriter
    <2>2. req[c].pc \in {"createStore", "updateStore", "deleteStore"}
      BY <2>1 DEF WritingStep, CreateStore, UpdateStore, DeleteStore
    <2>3. ~req[c].dry \/ req[c].forced
      BY <1>1, <2>2 DEF LocalsInStep, InStep, UpdateWrites
    <2> QED
      BY <2>1, <2>2, <2>3
  <1>2. TypeOK /\ LocalsInStep /\ [Next]_vars => [Harmless]_vars
    BY <1>1
  <1> QED
    BY <1>2, TypeCorrect, LocalsAgree, PTL DEF Spec, DryRunsWriteNothing

\* broadcaster.Action reaches every registered watcher of the kind.
LEMMA AnnounceTells ==
  ASSUME TypeOK, NEW c \in Clients, NEW kind \in Kinds, Announce(c, kind),
         NEW w \in Watchers, watch[w].st = "on", watch[w].kind = kind
  PROVE  watch'[w].view[req[c].key] = Effect(req[c])
  <1> DEFINE key == req[c].key
             told == [watch[w] EXCEPT !.view = [@ EXCEPT ![key] = Effect(req[c])],
                                      !.blind = @ \ {key}]
  <1>1. watch[w] \in Watches /\ key \in Keys
    BY DEF TypeOK, Announce, KeysOf
  <1>2. watch'[w] = told
    BY DEF Announce
  <1> QED
    BY <1>1, <1>2 DEF Watches

\* A step of one handler changes its own locals only.
LEMMA ReadingGoes ==
  ASSUME NEW d \in Clients, NEW kind \in Kinds, ReadingStep(d, kind)
  PROVE  \E r : req' = [req EXCEPT ![d] = r]
  <1>1. CASE Get(d, kind) \/ List(d, kind)
    BY <1>1 DEF Get, List, Return
  <1>2. CASE UpdateBegin(d, kind)
    BY <1>2 DEF UpdateBegin, Return, Goto
  <1>3. CASE UpdateMerge(d, kind)
    BY <1>3 DEF UpdateMerge, Return, Goto
  <1>4. CASE DeleteBegin(d, kind) \/ CollectNext(d, kind)
    BY <1>4 DEF DeleteBegin, CollectNext, DeleteRead, Return, Goto
  <1>5. CASE Announce(d, kind)
    BY <1>5 DEF Announce, Return, Goto
  <1>6. CASE \E namespaces : CollectBegin(d, kind, namespaces)
    BY <1>6 DEF CollectBegin, Return, Goto
  <1>7. CASE \E unnamed \in Answers : CreateBegin(d, kind, unnamed)
    BY <1>7 DEF CreateBegin, Return, Goto
  <1> QED
    BY <1>1, <1>2, <1>3, <1>4, <1>5, <1>6, <1>7 DEF ReadingStep

\* A step of one handler leaves the locals of the others alone.
LEMMA OthersKeep ==
  ASSUME TypeOK, NEW c \in Clients, NEW d \in Clients, d # c,
         NEW kind \in Kinds, ReadingStep(d, kind) \/ WritingStep(d, kind)
  PROVE  req'[c] = req[c]
  <1>1. CASE WritingStep(d, kind)
    <2>1. \E r : req' = [req EXCEPT ![d] = r]
      BY <1>1 DEF WritingStep, CreateStore, UpdateStore, DeleteStore, Commit, Fail,
                  FailAfterWrite, AnnounceNothing, Return, Goto
    <2> QED
      BY <2>1 DEF TypeOK
  <1>2. CASE ReadingStep(d, kind)
    <2>1. \E r : req' = [req EXCEPT ![d] = r]
      BY <1>2, ReadingGoes
    <2> QED
      BY <2>1 DEF TypeOK
  <1> QED
    BY <1>1, <1>2

\* The only way to answer "ok" to a write that was not a dry run is through
\* the broadcast.
LEMMA AckedByAnnounce ==
  ASSUME TypeOK, LocalsInStep, NEW c \in Clients, NEW kind \in Kinds,
         ReadingStep(c, kind) \/ WritingStep(c, kind),
         ~Idle(c), req'[c].pc = "idle", req'[c].resp = "ok", ~req[c].dry,
         req[c].op \in {"create", "update"}
  PROVE  Announce(c, kind)
  <1>0. InStep(req[c], used) /\ req[c] \in Requests
    BY DEF LocalsInStep, TypeOK
  <1>1. ASSUME NEW answer \in Answers \ {"ok"}, Return(c, answer) PROVE FALSE
    <2>1. req'[c] = [NoRequest EXCEPT !.resp = answer]
      BY <1>1 DEF Return, TypeOK
    <2>2. req'[c].resp = answer
      BY <2>1, NoRequestType DEF Requests
    <2> QED
      BY <2>2
  <1>2. ASSUME NEW ev, Goto(c, [req[c] EXCEPT !.ev = ev], "announce") PROVE FALSE
    BY <1>0, <1>2 DEF Goto, TypeOK, Requests
  <1>3. "BadRequest" \in Answers \ {"ok"}
    BY DEF Answers
  <1>4. ~WritingStep(c, kind)
    <2>1. ~(\E exists \in Answers \ {"ok"} : CreateStore(c, kind, exists))
      BY <1>1, <1>2 DEF CreateStore, Commit, Fail, FailAfterWrite
    <2>2. ~UpdateStore(c, kind)
      BY <1>1, <1>2, <1>3 DEF UpdateStore, Commit, Fail, FailAfterWrite, AnnounceNothing
    <2>3. ~DeleteStore(c, kind)
      BY <1>1, <1>2, <1>3 DEF DeleteStore, Commit, Fail, FailAfterWrite
    <2> QED
      BY <2>1, <2>2, <2>3 DEF WritingStep
  <1>5. ~CollectNext(c, kind)
    BY <1>0 DEF CollectNext, InStep
  <1>6. ~UpdateMerge(c, kind)
    <2> SUFFICES ASSUME UpdateMerge(c, kind) PROVE FALSE
      OBVIOUS
    <2>1. PICK v \in Values :
            Goto(c, [req[c] EXCEPT !.obj = [rv |-> version, val |-> v]], "updateStore")
      BY <1>1 DEF UpdateMerge, Answers
    <2>2. req'[c].pc = "updateStore"
      BY <1>0, <2>1 DEF Goto, TypeOK, Requests
    <2> QED
      BY <2>2
  <1> QED
    BY <1>4, <1>5, <1>6 DEF ReadingStep, Get, List, UpdateBegin, DeleteBegin, CollectBegin,
                            CreateBegin, Issues

\* A client that is told of a successful create, or of a successful update that
\* had to find its report, can rely on it: the report it was told of has been
\* written by this process, and every registered watcher of the kind has been
\* sent it (polr.go Create and Update).
THEOREM AcksReliable == Spec => AckedWritesCommitted
  <1> DEFINE Reliable ==
               \A c \in Clients :
                 LET r == req[c]
                 IN (/\ ~Idle(c) /\ req'[c].pc = "idle" /\ req'[c].resp = "ok" /\ ~r.dry
                     /\ \/ r.op = "create"
                        \/ r.op = "update" /\ ~r.forced /\ StrictUpdate)
                    => /\ r.obj # NoReport /\ r.obj.rv \in used
                       /\ \A w \in Watchers :
                            watch[w].st = "on" /\ watch[w].kind = KindOf[r.key]
                            => watch'[w].view[r.key] = r.obj
  <1>1. ASSUME TypeOK, LocalsInStep, Next, NEW c \in Clients,
               ~Idle(c), req'[c].pc = "idle", req'[c].resp = "ok", ~req[c].dry,
               \/ req[c].op = "create"
               \/ req[c].op = "update" /\ ~req[c].forced /\ StrictUpdate
        PROVE  /\ req[c].obj # NoReport /\ req[c].obj.rv \in used
               /\ \A w \in Watchers :
                    watch[w].st = "on" /\ watch[w].kind = KindOf[req[c].key]
                    => watch'[w].view[req[c].key] = req[c].obj
    <2>1. req'[c] # req[c]
      BY <1>1 DEF Idle
    <2>2. PICK d \in Clients : ClientNext(d)
      <3>1. ~(\E w \in Watchers : WatcherNext(w))
        BY <2>1, WatchingLeaves
      <3>2. ~Restart
        <4>1. NoRequest.resp = "none"
          BY DEF NoRequest, Request
        <4> QED
          BY <1>1, <4>1 DEF Restart
      <3> QED
        BY <1>1, <3>1, <3>2 DEF Next
    <2>3. PICK kind \in Kinds : ReadingStep(d, kind) \/ WritingStep(d, kind)
      BY <2>2, ClientSteps
    <2>4. d = c
      BY <1>1, <2>1, <2>3, OthersKeep
    <2>5. Announce(c, kind)
      BY <1>1, <2>3, <2>4, AckedByAnnounce
    <2>6. /\ req[c].pc = "announce" /\ kind = KindOf[req[c].key]
          /\ InStep(req[c], used)
      BY <1>1, <2>5 DEF Announce, KeysOf, LocalsInStep
    <2>7. /\ req[c].obj # NoReport /\ req[c].obj.rv \in used
          /\ Effect(req[c]) = req[c].obj
      BY <1>1, <2>6 DEF InStep, Effect
    <2> QED
      BY <1>1, <2>5, <2>6, <2>7, AnnounceTells
  <1>2. TypeOK /\ LocalsInStep /\ [Next]_vars => [Reliable]_vars
    BY <1>1
  <1> QED
    BY <1>2, TypeCorrect, LocalsAgree, PTL DEF Spec, AckedWritesCommitted

-----------------------------------------------------------------------------
(* One request at a time *)

\* Requests come one at a time, the store does not fail, and nobody uses
\* server-side apply.
OneAtATime ==
    /\ \A c, d \in Clients : c = d
    /\ ~Faults
    /\ ~Apply

\* What OnlyStaleReadsUnsettle says of a step.
StaleReadsOnly ==
    \A k \in unsettled' \ unsettled : store[k] = NoReport /\ \E s \in behind : s[k] # NoReport

\* The step of the only handler there is leaves these locals behind.
LEMMA FindStep ==
  ASSUME OneAtATime, TypeOK, NEW c \in Clients, NEW r,
         req' = [req EXCEPT ![c] = r], ~r.forced,
         r.pc \in {"updateMerge", "updateStore"} => \E s \in States' : s[r.key] # NoReport
  PROVE  UpdatesFind'
  <1> SUFFICES ASSUME NEW d \in Clients
               PROVE  /\ ~req'[d].forced
                      /\ req'[d].pc \in {"updateMerge", "updateStore"}
                           => \E s \in States' : s[req'[d].key] # NoReport
    BY DEF UpdatesFind
  <1>1. d = c
    BY DEF OneAtATime
  <1>2. req'[d] = r
    BY <1>1 DEF TypeOK
  <1> QED
    BY <1>2

\* A handler that returns is in no update.
LEMMA ReturnFinds ==
  ASSUME OneAtATime, TypeOK, NEW c \in Clients, NEW answer, Return(c, answer)
  PROVE  UpdatesFind'
  <1> DEFINE r == [NoRequest EXCEPT !.resp = answer]
  <1>1. r.pc = "idle" /\ ~r.forced
    BY DEF NoRequest, Request
  <1>2. req' = [req EXCEPT ![c] = r]
    BY DEF Return
  <1> HIDE DEF r
  <1> QED
    BY <1>1, <1>2, FindStep

\* Neither is one that goes on to another step than those of an update.
LEMMA GotoFinds ==
  ASSUME OneAtATime, TypeOK, NEW c \in Clients, NEW r \in Requests, ~r.forced,
         NEW pc \in Steps \ {"updateMerge", "updateStore"}, Goto(c, r, pc)
  PROVE  UpdatesFind'
  <1> DEFINE q == [r EXCEPT !.pc = pc]
  <1>1. q.pc = pc /\ q.forced = r.forced
    BY DEF Requests
  <1>2. req' = [req EXCEPT ![c] = q]
    BY DEF Goto
  <1> HIDE DEF q
  <1> QED
    BY <1>1, <1>2, FindStep

\* An update goes on only with a report that the database or a replica shows,
\* and until its own store call nothing is written.
LEMMA ReadingFinds ==
  ASSUME OneAtATime, TypeOK, UpdatesFind, NEW c \in Clients, NEW kind \in Kinds,
         ReadingStep(c, kind)
  PROVE  UpdatesFind' /\ UNCHANGED unsettled
  <1>0. /\ req[c] \in Requests /\ ~req[c].forced
        /\ {"createStore", "deleteStore", "collect"} \subseteq
             Steps \ {"updateMerge", "updateStore"}
    BY DEF TypeOK, UpdatesFind, Steps
  <1>1. UNCHANGED <<store, behind, unsettled>> /\ States' = States
    BY DEF States, ReadingStep, Get, List, CreateBegin, UpdateBegin, UpdateMerge, DeleteBegin,
           CollectBegin, CollectNext, Announce
  <1>2. CASE Get(c, kind) \/ List(c, kind)
    BY <1>1, <1>2, ReturnFinds DEF Get, List
  <1>3. CASE UpdateBegin(c, kind)
    <2>1. PICK k \in KeysOf(kind), dry \in BOOLEAN, s \in States :
            IF MissingEndsUpdate(s[k], FALSE) THEN Return(c, "error")
            ELSE Goto(c, Request("update", k, FALSE, dry), "updateMerge")
      BY <1>3 DEF UpdateBegin, Read, OneAtATime
    <2>2. CASE Return(c, "error")
      BY <1>1, <2>2, ReturnFinds
    <2>3. CASE /\ s[k] # NoReport
               /\ Goto(c, Request("update", k, FALSE, dry), "updateMerge")
      <3> DEFINE r == [Request("update", k, FALSE, dry) EXCEPT !.pc = "updateMerge"]
      <3>1. req' = [req EXCEPT ![c] = r]
        BY <2>3 DEF Goto
      <3>2. r.key = k /\ ~r.forced
        BY DEF Request
      <3> HIDE DEF r
      <3> QED
        BY <1>1, <2>3, <3>1, <3>2, FindStep
    <2> QED
      BY <2>1, <2>2, <2>3 DEF MissingEndsUpdate
  <1>4. CASE UpdateMerge(c, kind)
    <2>1. CASE \E answer : Return(c, answer)
      BY <1>1, <2>1, ReturnFinds
    <2>2. CASE \E v \in Values :
                 Goto(c, [req[c] EXCEPT !.obj = [rv |-> version, val |-> v]], "updateStore")
      <3>1. PICK v \in Values :
              Goto(c, [req[c] EXCEPT !.obj = [rv |-> version, val |-> v]], "updateStore")
        BY <2>2
      <3> DEFINE r == [req[c] EXCEPT !.obj = [rv |-> version, val |-> v], !.pc = "updateStore"]
      <3>2. req' = [req EXCEPT ![c] = r]
        BY <1>0, <3>1 DEF Goto, Requests
      <3>3. r.key = req[c].key /\ r.forced = req[c].forced
        BY <1>0 DEF Requests
      <3>4. \E s \in States : s[req[c].key] # NoReport
        BY <1>4 DEF UpdateMerge, UpdatesFind
      <3> HIDE DEF r
      <3> QED
        BY <1>0, <1>1, <3>2, <3>3, <3>4, FindStep
    <2> QED
      BY <1>4, <2>1, <2>2 DEF UpdateMerge
  <1>5. ASSUME NEW r \in Requests, ~r.forced, DeleteRead(c, r) PROVE UpdatesFind'
    <2>1. (\E answer : Return(c, answer)) \/ Goto(c, r, "deleteStore")
      BY <1>5 DEF DeleteRead
    <2> QED
      BY <1>0, <1>5, <2>1, ReturnFinds, GotoFinds
  <1>6. CASE DeleteBegin(c, kind)
    <2>1. PICK k \in KeysOf(kind), dry \in BOOLEAN :
            DeleteRead(c, Request("delete", k, FALSE, dry))
      BY <1>6 DEF DeleteBegin
    <2>2. /\ Request("delete", k, FALSE, dry) \in Requests
          /\ ~Request("delete", k, FALSE, dry).forced
      <3>1. Request("delete", k, FALSE, dry) \in Requests
        BY RequestType DEF KeysOf, Ops
      <3> QED
        BY <3>1 DEF Request
    <2> QED
      BY <1>1, <1>5, <2>1, <2>2
  <1>7. CASE CollectNext(c, kind)
    <2>1. CASE \E answer : Return(c, answer)
      BY <1>1, <2>1, ReturnFinds
    <2>2. CASE \E k \in req[c].todo :
                 DeleteRead(c, [req[c] EXCEPT !.key = k, !.todo = @ \ {k}])
      <3>1. PICK k \in req[c].todo :
              DeleteRead(c, [req[c] EXCEPT !.key = k, !.todo = @ \ {k}])
        BY <2>2
      <3>2. /\ [req[c] EXCEPT !.key = k, !.todo = @ \ {k}] \in Requests
            /\ ~[req[c] EXCEPT !.key = k, !.todo = @ \ {k}].forced
        BY <1>0 DEF Requests
      <3> QED
        BY <1>1, <1>5, <3>1, <3>2
    <2> QED
      BY <1>7, <2>1, <2>2 DEF CollectNext
  <1>8. CASE Announce(c, kind)
    <2>1. (\E answer : Return(c, answer)) \/ Goto(c, [req[c] EXCEPT !.ev = "none"], "collect")
      BY <1>8 DEF Announce
    <2>2. [req[c] EXCEPT !.ev = "none"] \in Requests /\ ~[req[c] EXCEPT !.ev = "none"].forced
      BY <1>0 DEF Requests, EventTypes
    <2> QED
      BY <1>0, <1>1, <2>1, <2>2, ReturnFinds, GotoFinds
  <1>9. CASE \E namespaces : CollectBegin(c, kind, namespaces)
    <2> DEFINE q == Request("deleteCollection", CHOOSE k \in KeysOf(kind) : TRUE, FALSE, FALSE)
    <2>1. \/ \E answer : Return(c, answer)
          \/ \E listed : Goto(c, [q EXCEPT !.todo = listed], "collect")
      BY <1>9 DEF CollectBegin
    <2>2. CASE \E answer : Return(c, answer)
      BY <1>1, <2>2, ReturnFinds
    <2>3. CASE \E listed : Goto(c, [q EXCEPT !.todo = listed], "collect")
      <3>1. PICK listed : Goto(c, [q EXCEPT !.todo = listed], "collect")
        BY <2>3
      <3> DEFINE r == [q EXCEPT !.todo = listed, !.pc = "collect"]
      <3>2. req' = [req EXCEPT ![c] = r]
        BY <3>1 DEF Goto, Request
      <3>3. ~r.forced /\ r.pc = "collect"
        BY DEF Request
      <3> HIDE DEF r
      <3> QED
        BY <1>1, <3>2, <3>3, FindStep
    <2> QED
      BY <2>1, <2>2, <2>3
  <1>10. CASE \E unnamed \in Answers : CreateBegin(c, kind, unnamed)
    <2>1. CASE \E answer : Return(c, answer)
      BY <1>1, <2>1, ReturnFinds
    <2>2. CASE \E k \in KeysOf(kind), v \in Values :
                 Goto(c, [Request("create", k, FALSE, FALSE)
                            EXCEPT !.obj = [rv |-> version, val |-> v]], "createStore")
      <3>1. PICK k \in KeysOf(kind), v \in Values :
              Goto(c, [Request("create", k, FALSE, FALSE)
                         EXCEPT !.obj = [rv |-> version, val |-> v]], "createStore")
        BY <2>2
      <3> DEFINE r == [Request("create", k, FALSE, FALSE)
                         EXCEPT !.obj = [rv |-> version, val |-> v], !.pc = "createStore"]
      <3>2. req' = [req EXCEPT ![c] = r]
        BY <3>1 DEF Goto, Request
      <3>3. ~r.forced /\ r.pc = "createStore"
        BY DEF Request
      <3> HIDE DEF r
      <3> QED
        BY <1>1, <3>2, <3>3, FindStep
    <2> QED
      BY <1>10, <2>1, <2>2 DEF CreateBegin
  <1> QED
    BY <1>1, <1>2, <1>3, <1>4, <1>6, <1>7, <1>8, <1>9, <1>10 DEF ReadingStep

\* A store call settles its key, unless it is the update of a report that is
\* gone and that only a replica showed.
LEMMA WritingFinds ==
  ASSUME OneAtATime, TypeOK, UpdatesFind, NEW c \in Clients, NEW kind \in Kinds,
         WritingStep(c, kind)
  PROVE  UpdatesFind' /\ StaleReadsOnly
  <1>0. /\ req[c] \in Requests /\ ~req[c].forced /\ ~Faults
        /\ "announce" \in Steps \ {"updateMerge", "updateStore"}
    BY DEF TypeOK, UpdatesFind, Steps, OneAtATime
  <1>1. ASSUME NEW answer, Fail(c, answer) PROVE UpdatesFind' /\ StaleReadsOnly
    BY <1>1, ReturnFinds DEF Fail, StaleReadsOnly
  <1>2. ASSUME NEW report, NEW ev \in EventTypes, Commit(c, report, ev)
        PROVE  UpdatesFind' /\ StaleReadsOnly
    <2>1. [req[c] EXCEPT !.ev = ev] \in Requests /\ ~[req[c] EXCEPT !.ev = ev].forced
      BY <1>0 DEF Requests
    <2>2. UpdatesFind'
      BY <1>0, <1>2, <2>1, GotoFinds DEF Commit
    <2>3. Clients \ {c} = {}
      BY DEF OneAtATime
    <2>4. unsettled' \subseteq unsettled
      BY <1>2, <2>3 DEF Commit, SettleAfterWrite
    <2> QED
      BY <2>2, <2>4 DEF StaleReadsOnly
  <1>3. ASSUME NEW report, NEW answer, FailAfterWrite(c, report, answer) PROVE FALSE
    BY <1>0, <1>3 DEF FailAfterWrite
  <1>4. CASE \E exists \in Answers \ {"ok"} : CreateStore(c, kind, exists)
    BY <1>1, <1>2, <1>3, <1>4 DEF CreateStore, EventTypes
  <1>5. CASE UpdateStore(c, kind)
    <2>1. \E s \in States : s[req[c].key] # NoReport
      BY <1>5 DEF UpdateStore, UpdatesFind
    <2>2. CASE Commit(c, req[c].obj, "Modified")
      BY <1>2, <2>2 DEF EventTypes
    <2>3. CASE store[req[c].key] = NoReport /\ AnnounceNothing(c, "Modified")
      <3>1. /\ [req[c] EXCEPT !.ev = "Modified"] \in Requests
            /\ ~[req[c] EXCEPT !.ev = "Modified"].forced
        BY <1>0 DEF Requests, EventTypes
      <3>2. UpdatesFind'
        BY <1>0, <2>3, <3>1, GotoFinds DEF AnnounceNothing
      <3>3. unsettled' = unsettled \cup {req[c].key}
        BY <2>3 DEF AnnounceNothing
      <3>4. \E s \in behind : s[req[c].key] # NoReport
        BY <2>1, <2>3 DEF States
      <3> QED
        BY <2>3, <3>2, <3>3, <3>4 DEF StaleReadsOnly
    <2>4. CASE Fail(c, "BadRequest")
      BY <1>1, <2>4
    <2> QED
      BY <1>0, <1>3, <1>5, <2>2, <2>3, <2>4 DEF UpdateStore
  <1>6. CASE DeleteStore(c, kind)
    BY <1>1, <1>2, <1>3, <1>6 DEF DeleteStore, EventTypes
  <1> QED
    BY <1>4, <1>5, <1>6 DEF WritingStep

\* When requests come one at a time to a store that does not fail, and nobody
\* forces an update, an event is in the wrong order or without its write only
\* when an update found a report on a replica that the database no longer had
\* (multiDB.go:60): never on etcd, nor on Postgres without replicas.
THEOREM OneAtATimeSettles ==
  ASSUME OneAtATime
  PROVE  Spec => OnlyStaleReadsUnsettle
  <1>1. Started => UpdatesFind
    <2>1. NoRequest.pc = "idle" /\ ~NoRequest.forced
      BY DEF NoRequest, Request
    <2> QED
      BY <2>1 DEF Started, UpdatesFind
  <1>2. Started' => UpdatesFind'
    BY <1>1, PTL
  <1>3. Init => UpdatesFind
    BY <1>1 DEF Init, Started
  <1>4. TypeOK /\ UpdatesFind /\ [Next]_vars => UpdatesFind' /\ [StaleReadsOnly]_vars
    <2> SUFFICES ASSUME TypeOK, UpdatesFind, [Next]_vars
                 PROVE  UpdatesFind' /\ [StaleReadsOnly]_vars
      OBVIOUS
    <2>1. CASE \E c \in Clients : ClientNext(c)
      <3>1. PICK c \in Clients, kind \in Kinds :
              ReadingStep(c, kind) \/ WritingStep(c, kind)
        BY <2>1, ClientSteps
      <3> QED
        BY <3>1, ReadingFinds, WritingFinds DEF StaleReadsOnly
    <2>2. CASE \E w \in Watchers : WatcherNext(w)
      BY <2>2, WatchingLeaves DEF UpdatesFind, States, StaleReadsOnly
    <2>3. CASE Restart
      BY <1>2, <2>3, RestartStarts DEF Restart, StaleReadsOnly
    <2>4. CASE UNCHANGED vars
      BY <2>4 DEF vars, UpdatesFind, States
    <2> QED
      BY <2>1, <2>2, <2>3, <2>4 DEF Next
  <1>5. Spec => [][StaleReadsOnly]_vars
    BY <1>3, <1>4, TypeCorrect, PTL DEF Spec
  <1> QED
    BY <1>5 DEF StaleReadsOnly, OnlyStaleReadsUnsettle

-----------------------------------------------------------------------------
(* Collections *)

\* The step of handler c leaves it with locals r, and nobody with more to
\* delete than before.
LEMMA LeftStep ==
  ASSUME TypeOK, LeftListed, NEW c \in Clients, NEW r,
         req' = [req EXCEPT ![c] = r], left'[c] \subseteq Remaining(r),
         \A d \in Clients : d # c => left'[d] \subseteq left[d]
  PROVE  LeftListed'
  <1> SUFFICES ASSUME NEW d \in Clients PROVE left'[d] \subseteq Remaining(req'[d])
    BY DEF LeftListed, Remaining
  <1>1. CASE d = c
    BY <1>1 DEF TypeOK
  <1>2. CASE d # c
    <2>1. req'[d] = req[d]
      BY <1>2 DEF TypeOK
    <2> QED
      BY <1>2, <2>1 DEF LeftListed
  <1> QED
    BY <1>1, <1>2

\* A handler that is in no DeleteCollection, or done with its list, has
\* nothing left, whatever it does next.
LEMMA NothingLeft ==
  ASSUME LeftListed, NEW c \in Clients,
         \/ req[c].pc \in {"idle", "createStore", "updateMerge", "updateStore"}
         \/ req[c].pc = "collect" /\ req[c].todo = {}
         \/ req[c].op # "deleteCollection"
  PROVE  left[c] = {}
  <1>1. Remaining(req[c]) = {}
    BY DEF Remaining
  <1> QED
    BY <1>1 DEF LeftListed

\* A step that takes nothing up and lets nothing go keeps what it has.
LEMMA EmptyStays ==
  ASSUME TypeOK, LeftListed, NEW c \in Clients, left'[c] = {},
         \A d \in Clients : d # c => left'[d] \subseteq left[d],
         \E r : req' = [req EXCEPT ![c] = r]
  PROVE  LeftListed'
  BY LeftStep

\* A store call: the report that is deleted is left to nobody, and the handler
\* that has deleted it goes on with the rest of its list.
LEMMA WritingLeft ==
  ASSUME TypeOK, LeftListed, NEW c \in Clients, NEW kind \in Kinds, WritingStep(c, kind)
  PROVE  LeftListed'
  <1>0. req[c] \in Requests /\ left \in [Clients -> SUBSET Keys]
    BY DEF TypeOK
  <1>1. \E r : req' = [req EXCEPT ![c] = r]
    BY DEF WritingStep, CreateStore, UpdateStore, DeleteStore, Commit, Fail, FailAfterWrite,
           AnnounceNothing, Return, Goto
  <1>2. \A d \in Clients : left'[d] \subseteq left[d]
    BY <1>0 DEF WritingStep, CreateStore, UpdateStore, DeleteStore, Commit, Fail,
                FailAfterWrite, AnnounceNothing, LeftAfter
  <1>3. CASE req[c].pc # "deleteStore"
    <2>1. req[c].pc \in {"createStore", "updateStore"}
      BY <1>3 DEF WritingStep, CreateStore, UpdateStore, DeleteStore
    <2>2. left[c] = {}
      BY <2>1, NothingLeft
    <2> QED
      BY <1>1, <1>2, <2>2, EmptyStays
  <1>4. CASE req[c].pc = "deleteStore"
    <2>1. DeleteStore(c, kind)
      BY <1>4 DEF WritingStep, CreateStore, UpdateStore
    <2>2. CASE Commit(c, NoReport, "Deleted")
      <3> DEFINE r == [req[c] EXCEPT !.ev = "Deleted", !.pc = "announce"]
      <3>1. req' = [req EXCEPT ![c] = r]
        BY <1>0, <2>2 DEF Commit, Goto, Requests
      <3>2. r.pc = "announce" /\ r.op = req[c].op /\ r.todo = req[c].todo
        BY <1>0 DEF Requests
      <3> HIDE DEF r
      <3>3. left'[c] = left[c] \ {req[c].key}
        BY <2>2 DEF Commit, LeftAfter
      <3>4. left'[c] \subseteq Remaining(r)
        BY <1>4, <3>2, <3>3 DEF LeftListed, Remaining
      <3> QED
        BY <1>2, <3>1, <3>4, LeftStep
    <2>3. CASE Fail(c, "BadRequest") \/ FailAfterWrite(c, NoReport, "BadRequest")
      <3>1. left'[c] = {}
        BY <1>0, <2>3 DEF Fail, FailAfterWrite, LeftAfter
      <3> QED
        BY <1>1, <1>2, <3>1, EmptyStays
    <2> QED
      BY <2>1, <2>2, <2>3 DEF DeleteStore
  <1> QED
    BY <1>3, <1>4

\* The other steps: DeleteCollection begins with what it has listed, and takes
\* a report off its list only to delete it.
LEMMA ReadingLeft ==
  ASSUME TypeOK, LeftListed, NEW c \in Clients, NEW kind \in Kinds, ReadingStep(c, kind)
  PROVE  LeftListed'
  <1>0. req[c] \in Requests /\ left \in [Clients -> SUBSET Keys]
    BY DEF TypeOK
  <1>1. ASSUME UNCHANGED left, left[c] = {} PROVE LeftListed'
    <2>1. \E r : req' = [req EXCEPT ![c] = r]
      BY ReadingGoes
    <2> QED
      BY <1>1, <2>1, EmptyStays
  <1>2. CASE \/ Get(c, kind) \/ List(c, kind) \/ UpdateBegin(c, kind) \/ DeleteBegin(c, kind)
             \/ UpdateMerge(c, kind) \/ \E unnamed \in Answers : CreateBegin(c, kind, unnamed)
    <2>1. UNCHANGED left /\ req[c].pc \in {"idle", "updateMerge"}
      BY <1>2 DEF Get, List, UpdateBegin, DeleteBegin, UpdateMerge, CreateBegin, Issues, Idle
    <2> QED
      BY <1>1, <2>1, NothingLeft
  <1>3. CASE \E namespaces : CollectBegin(c, kind, namespaces)
    <2>1. req[c].pc = "idle"
      BY <1>3 DEF CollectBegin, Issues, Idle
    <2>2. CASE UNCHANGED left
      BY <1>1, <2>1, <2>2, NothingLeft
    <2> DEFINE q == Request("deleteCollection", CHOOSE k \in KeysOf(kind) : TRUE, FALSE, FALSE)
    <2>3. CASE \E listed : Goto(c, [q EXCEPT !.todo = listed], "collect") /\ ToDelete(c, listed)
      <3>1. PICK listed : Goto(c, [q EXCEPT !.todo = listed], "collect") /\ ToDelete(c, listed)
        BY <2>3
      <3> DEFINE r == [q EXCEPT !.todo = listed, !.pc = "collect"]
      <3>2. req' = [req EXCEPT ![c] = r]
        BY <3>1 DEF Goto, Request
      <3>3. r.op = "deleteCollection" /\ r.pc = "collect" /\ r.todo = listed
        BY DEF Request
      <3> HIDE DEF r, q
      <3>4. left'[c] \subseteq listed /\ \A d \in Clients : d # c => left'[d] = left[d]
        BY <1>0, <3>1 DEF ToDelete
      <3> QED
        BY <3>2, <3>3, <3>4, LeftStep DEF Remaining
    <2> QED
      BY <1>3, <2>2, <2>3 DEF CollectBegin
  <1>4. CASE CollectNext(c, kind)
    <2>1. req[c].pc = "collect"
      BY <1>4 DEF CollectNext
    <2>2. CASE req[c].todo = {}
      BY <1>1, <1>4, <2>1, <2>2, NothingLeft DEF CollectNext
    <2>3. CASE req[c].todo # {}
      <3>1. PICK k \in req[c].todo : DeleteRead(c, [req[c] EXCEPT !.key = k, !.todo = @ \ {k}])
        BY <1>4, <2>3 DEF CollectNext
      <3>2. left' = IF req'[c].pc = "idle" THEN [left EXCEPT ![c] = {}] ELSE left
        BY <1>4, <2>3 DEF CollectNext
      <3>3. CASE \E answer \in Answers : Return(c, answer)
        <4>1. req'[c].pc = "idle"
          BY <3>3, ReturnType DEF Return, TypeOK
        <4>2. left'[c] = {} /\ \A d \in Clients : d # c => left'[d] = left[d]
          BY <1>0, <3>2, <4>1
        <4> QED
          BY <3>3, <4>2, EmptyStays DEF Return
      <3>4. CASE Goto(c, [req[c] EXCEPT !.key = k, !.todo = @ \ {k}], "deleteStore")
        <4> DEFINE r == [req[c] EXCEPT !.key = k, !.todo = @ \ {k}, !.pc = "deleteStore"]
        <4>1. req' = [req EXCEPT ![c] = r]
          BY <1>0, <3>4 DEF Goto, Requests
        <4>2. /\ r.op = req[c].op /\ r.pc = "deleteStore"
              /\ r.key = k /\ r.todo = req[c].todo \ {k}
          BY <1>0 DEF Requests
        <4> HIDE DEF r
        <4>3. req'[c] = r
          BY <4>1 DEF TypeOK
        <4>4. left' = left
          BY <3>2, <4>2, <4>3
        <4>5. left[c] \subseteq Remaining(r)
          BY <2>1, <4>2 DEF LeftListed, Remaining
        <4> QED
          BY <4>1, <4>4, <4>5, LeftStep
      <3> QED
        BY <3>1, <3>3, <3>4 DEF DeleteRead, Answers
    <2> QED
      BY <2>2, <2>3
  <1>5. CASE Announce(c, kind)
    <2>1. UNCHANGED left /\ req[c].pc = "announce"
      BY <1>5 DEF Announce
    <2>2. CASE req[c].op # "deleteCollection"
      BY <1>1, <2>1, <2>2, NothingLeft
    <2>3. CASE Goto(c, [req[c] EXCEPT !.ev = "none"], "collect")
      <3> DEFINE r == [req[c] EXCEPT !.ev = "none", !.pc = "collect"]
      <3>1. req' = [req EXCEPT ![c] = r]
        BY <1>0, <2>3 DEF Goto, Requests
      <3>2. r.op = req[c].op /\ r.pc = "collect" /\ r.todo = req[c].todo
        BY <1>0 DEF Requests
      <3> HIDE DEF r
      <3>3. left[c] \subseteq Remaining(r)
        BY <2>1, <3>2 DEF LeftListed, Remaining
      <3> QED
        BY <2>1, <3>1, <3>3, LeftStep
    <2> QED
      BY <1>5, <2>2, <2>3 DEF Announce
  <1> QED
    BY <1>2, <1>3, <1>4, <1>5 DEF ReadingStep

\* The report of a list that is still to delete is on the handler's list.
LEMMA LeftInvariant == Spec => []LeftListed
  <1>1. Started => LeftListed
    BY DEF Started, LeftListed
  <1>2. Started' => LeftListed'
    BY <1>1, PTL
  <1>3. Init => LeftListed
    BY <1>1 DEF Init, Started
  <1>4. TypeOK /\ LeftListed /\ [Next]_vars => LeftListed'
    <2> SUFFICES ASSUME TypeOK, LeftListed, [Next]_vars PROVE LeftListed'
      OBVIOUS
    <2>1. CASE \E c \in Clients : ClientNext(c)
      BY <2>1, ClientSteps, ReadingLeft, WritingLeft
    <2>2. CASE \E w \in Watchers : WatcherNext(w)
      BY <2>2, WatchingLeaves DEF LeftListed
    <2>3. CASE Restart
      BY <1>2, <2>3, RestartStarts
    <2>4. CASE UNCHANGED vars
      BY <2>4 DEF vars, LeftListed
    <2> QED
      BY <2>1, <2>2, <2>3, <2>4 DEF Next
  <1> QED
    BY <1>3, <1>4, TypeCorrect, PTL DEF Spec

\* A DeleteCollection answers "ok" at the end of its list only.
LEMMA CollectedAll ==
  ASSUME TypeOK, LocalsInStep, NEW c \in Clients, NEW kind \in Kinds,
         ReadingStep(c, kind) \/ WritingStep(c, kind),
         ~Idle(c), req[c].op = "deleteCollection",
         req'[c].pc = "idle", req'[c].resp = "ok"
  PROVE  req[c].pc = "collect" /\ req[c].todo = {}
  <1>0. /\ InStep(req[c], used) /\ req[c] \in Requests /\ ~req[c].dry
        /\ req[c].pc \in {"deleteStore", "collect", "announce"}
    BY DEF LocalsInStep, TypeOK, Requests, InStep, Idle, Steps
  <1>1. ASSUME NEW answer \in Answers \ {"ok"}, Return(c, answer) PROVE FALSE
    <2>1. req'[c] = [NoRequest EXCEPT !.resp = answer]
      BY <1>1 DEF Return, TypeOK
    <2>2. req'[c].resp = answer
      BY <2>1, NoRequestType DEF Requests
    <2> QED
      BY <2>2
  <1>2. ASSUME NEW r \in Requests, NEW pc \in Steps \ {"idle"}, Goto(c, r, pc) PROVE FALSE
    BY <1>2 DEF Goto, TypeOK, Requests
  <1>3. {"BadRequest", "NotFound"} \subseteq Answers \ {"ok"}
        /\ {"deleteStore", "collect", "announce"} \subseteq Steps \ {"idle"}
    BY DEF Answers, Steps
  <1>4. \A ev \in EventTypes : [req[c] EXCEPT !.ev = ev] \in Requests
    BY <1>0 DEF Requests
  <1>5. ~WritingStep(c, kind)
    <2>1. ~DeleteStore(c, kind)
      BY <1>1, <1>2, <1>3, <1>4 DEF DeleteStore, Commit, Fail, FailAfterWrite, EventTypes
    <2> QED
      BY <1>0, <2>1 DEF WritingStep, CreateStore, UpdateStore
  <1>6. ~Announce(c, kind)
    BY <1>2, <1>3, <1>4 DEF Announce, EventTypes
  <1>7. CollectNext(c, kind)
    BY <1>0, <1>5, <1>6 DEF ReadingStep, Get, List, UpdateBegin, UpdateMerge, DeleteBegin,
       CollectBegin, CreateBegin, Issues, Idle
  <1>8. ASSUME NEW k \in req[c].todo,
               DeleteRead(c, [req[c] EXCEPT !.key = k, !.todo = @ \ {k}])
        PROVE  FALSE
    <2>1. PICK r : r = [req[c] EXCEPT !.key = k, !.todo = @ \ {k}]
      OBVIOUS
    <2>2. r \in Requests /\ ~r.dry
      BY <1>0, <2>1 DEF Requests
    <2>3. \/ Return(c, "NotFound") \/ Return(c, "BadRequest")
          \/ Goto(c, r, "deleteStore")
      BY <1>8, <2>1, <2>2 DEF DeleteRead
    <2> QED
      BY <1>1, <1>2, <1>3, <2>2, <2>3
  <1> QED
    BY <1>7, <1>8 DEF CollectNext

\* For any clients, stores and replicas: a DeleteCollection that is answered
\* "ok" has left none of the reports it listed undeleted (polr.go:284).
THEOREM CollectionsFinish == Spec => CollectionsWhole
  <1> DEFINE Whole == \A c \in Clients :
               (/\ ~Idle(c) /\ req[c].op = "deleteCollection"
                /\ req'[c].pc = "idle" /\ req'[c].resp = "ok") => left[c] = {}
  <1>1. ASSUME TypeOK, LocalsInStep, LeftListed, Next, NEW c \in Clients,
               ~Idle(c), req[c].op = "deleteCollection",
               req'[c].pc = "idle", req'[c].resp = "ok"
        PROVE  left[c] = {}
    <2>1. req'[c] # req[c]
      BY <1>1 DEF Idle
    <2>2. PICK d \in Clients : ClientNext(d)
      <3>1. ~(\E w \in Watchers : WatcherNext(w))
        BY <2>1, WatchingLeaves
      <3>2. ~Restart
        <4>1. NoRequest.resp = "none"
          BY DEF NoRequest, Request
        <4> QED
          BY <1>1, <4>1 DEF Restart
      <3> QED
        BY <1>1, <3>1, <3>2 DEF Next
    <2>3. PICK kind \in Kinds : ReadingStep(d, kind) \/ WritingStep(d, kind)
      BY <2>2, ClientSteps
    <2>4. d = c
      BY <1>1, <2>1, <2>3, OthersKeep
    <2>5. req[c].pc = "collect" /\ req[c].todo = {}
      BY <1>1, <2>3, <2>4, CollectedAll
    <2> QED
      BY <1>1, <2>5, NothingLeft
  <1>2. TypeOK /\ LocalsInStep /\ LeftListed /\ [Next]_vars => [Whole]_vars
    BY <1>1
  <1> QED
    BY <1>2, TypeCorrect, LocalsAgree, LeftInvariant, PTL DEF Spec, CollectionsWhole


-----------------------------------------------------------------------------
(* Requests go forward *)

\* A handler that returns is done.
LEMMA ReturnOnwards ==
  ASSUME TypeOK, NEW c \in Clients, NEW answer, Return(c, answer)
  PROVE  Onwards(req[c], req'[c])
  BY DEF Return, TypeOK, NoRequest, Request, Onwards

\* A handler that goes on with the report it is at.
LEMMA GotoOnwards ==
  ASSUME TypeOK, NEW c \in Clients, NEW r, NEW pc \in Steps, Goto(c, r, pc),
         DOMAIN r = DOMAIN req[c], r.todo = req[c].todo,
         req[c].pc # "idle", pc # "idle", Rank[pc] > Rank[req[c].pc]
  PROVE  Onwards(req[c], req'[c])
  <1>1. req[c] \in Requests /\ req'[c] = [r EXCEPT !.pc = pc]
    BY DEF Goto, TypeOK
  <1>2. "pc" \in DOMAIN r /\ "todo" \in DOMAIN r
    BY <1>1 DEF Requests
  <1>3. req'[c].pc = pc /\ req'[c].todo = r.todo
    BY <1>1, <1>2
  <1> QED
    BY <1>3 DEF Onwards

\* A handler on its way to the store: it returns, or broadcasts next.
LEMMA WritingOnwards ==
  ASSUME TypeOK, NEW c \in Clients, NEW kind \in Kinds, WritingStep(c, kind)
  PROVE  Onwards(req[c], req'[c])
  <1>0. req[c] \in Requests
    BY DEF TypeOK
  <1>1. ASSUME NEW ev, Goto(c, [req[c] EXCEPT !.ev = ev], "announce"),
               req[c].pc \in {"createStore", "updateStore", "deleteStore"}
        PROVE  Onwards(req[c], req'[c])
    <2>1. PICK r : r = [req[c] EXCEPT !.ev = ev]
      OBVIOUS
    <2>2. DOMAIN r = DOMAIN req[c] /\ r.todo = req[c].todo
      BY <1>0, <2>1 DEF Requests
    <2>3. Rank["announce"] > Rank[req[c].pc] /\ "announce" \in Steps
      BY <1>1 DEF Rank, Steps
    <2> QED
      BY <1>1, <2>1, <2>2, <2>3, GotoOnwards
  <1>2. req[c].pc \in {"createStore", "updateStore", "deleteStore"}
    BY DEF WritingStep, CreateStore, UpdateStore, DeleteStore
  <1>3. \/ \E answer : Return(c, answer)
        \/ \E ev : Goto(c, [req[c] EXCEPT !.ev = ev], "announce")
    BY DEF WritingStep, CreateStore, UpdateStore, DeleteStore, Commit, Fail, FailAfterWrite,
       AnnounceNothing
  <1> QED
    BY <1>1, <1>2, <1>3, ReturnOnwards

\* The other steps of a request that has been issued.
LEMMA ReadingOnwards ==
  ASSUME TypeOK, NEW c \in Clients, NEW kind \in Kinds, ReadingStep(c, kind), ~Idle(c)
  PROVE  Onwards(req[c], req'[c])
  <1>0. req[c] \in Requests /\ req[c].pc # "idle"
    BY DEF TypeOK, Idle
  <1>1. CASE UpdateMerge(c, kind)
    <2>1. ASSUME NEW v, Goto(c, [req[c] EXCEPT !.obj = [rv |-> version, val |-> v]], "updateStore")
          PROVE  Onwards(req[c], req'[c])
      <3>1. PICK r : r = [req[c] EXCEPT !.obj = [rv |-> version, val |-> v]]
        OBVIOUS
      <3>2. DOMAIN r = DOMAIN req[c] /\ r.todo = req[c].todo
        BY <1>0, <3>1 DEF Requests
      <3>3. Rank["updateStore"] > Rank[req[c].pc] /\ "updateStore" \in Steps
        <4>1. req[c].pc = "updateMerge"
          BY <1>1 DEF UpdateMerge
        <4> QED
          BY <4>1 DEF Rank, Steps
      <3> QED
        BY <1>0, <2>1, <3>1, <3>2, <3>3, GotoOnwards
    <2> QED
      BY <1>1, <2>1, ReturnOnwards DEF UpdateMerge
  <1>2. CASE CollectNext(c, kind)
    <2>1. ASSUME NEW k \in req[c].todo,
                 Goto(c, [req[c] EXCEPT !.key = k, !.todo = @ \ {k}], "deleteStore")
          PROVE  Onwards(req[c], req'[c])
      <3>1. req'[c].todo = req[c].todo \ {k}
        BY <1>0, <2>1 DEF Goto, TypeOK, Requests
      <3> QED
        BY <2>1, <3>1 DEF Onwards
    <2> QED
      BY <1>2, <2>1, ReturnOnwards DEF CollectNext, DeleteRead
  <1>3. CASE Announce(c, kind)
    <2>1. ASSUME Goto(c, [req[c] EXCEPT !.ev = "none"], "collect")
          PROVE  Onwards(req[c], req'[c])
      <3>1. PICK r : r = [req[c] EXCEPT !.ev = "none"]
        OBVIOUS
      <3>2. DOMAIN r = DOMAIN req[c] /\ r.todo = req[c].todo
        BY <1>0, <3>1 DEF Requests
      <3>3. Rank["collect"] > Rank[req[c].pc] /\ "collect" \in Steps
        <4>1. req[c].pc = "announce"
          BY <1>3 DEF Announce
        <4> QED
          BY <4>1 DEF Rank, Steps
      <3> QED
        BY <1>0, <2>1, <3>1, <3>2, <3>3, GotoOnwards
    <2> QED
      BY <1>3, <2>1, ReturnOnwards DEF Announce
  <1> QED
    BY <1>1, <1>2, <1>3 DEF ReadingStep, Get, List, UpdateBegin, DeleteBegin, CollectBegin,
       CreateBegin, Issues

\* For any clients, keys and store: a request in progress comes nearer to its
\* answer with each of its steps, and with no step of anybody else away from it.
THEOREM RequestsForward == Spec => RequestsGoForward
  <1> DEFINE Forward == \A c \in Clients :
                          ~Idle(c) /\ req'[c] # req[c] => Onwards(req[c], req'[c])
  <1>1. TypeOK /\ [Next]_vars => [Forward]_vars
    <2> SUFFICES ASSUME TypeOK, Next, NEW c \in Clients, ~Idle(c), req'[c] # req[c]
                 PROVE  Onwards(req[c], req'[c])
      OBVIOUS
    <2>1. CASE \E d \in Clients : ClientNext(d)
      <3>1. PICK d \in Clients, kind \in Kinds : ReadingStep(d, kind) \/ WritingStep(d, kind)
        BY <2>1, ClientSteps
      <3>2. d = c
        BY <3>1, OthersKeep
      <3> QED
        BY <3>1, <3>2, ReadingOnwards, WritingOnwards
    <2>2. CASE \E w \in Watchers : WatcherNext(w)
      BY <2>2, WatchingLeaves
    <2>3. CASE Restart
      BY <2>3 DEF Restart, NoRequest, Request, Onwards
    <2> QED
      BY <2>1, <2>2, <2>3 DEF Next
  <1> HIDE DEF Forward
  <1>2. Spec => [][Forward]_vars
    BY <1>1, TypeCorrect, PTL DEF Spec
  <1> QED
    BY <1>2 DEF Forward, RequestsGoForward

=============================================================================
