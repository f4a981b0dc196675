-------------------------- MODULE MigrationProofs ---------------------------
(***************************************************************************)
(* Proofs about Migration, for any reports, changes of the cluster, lives  *)
(* of the server and versions set aside: a start that the store does not   *)
(* fail is stopped by nothing but a copy that was in the store before it   *)
(* began; requests get versions of their own; and on a store that does not *)
(* fail, the followers miss no change.  Every step of a start goes         *)
(* forward, and followers read the changes in their order.                 *)
(***************************************************************************)
EXTENDS Migration, Induction, FiniteSetTheorems, TLAPS

\* The four kinds, in their order.
LEMMA KindsOnce ==
  /\ \A n \in 1..4 : Kinds[n] \in AllKinds
  /\ \A m, n \in 1..4 : Kinds[m] = Kinds[n] => m = n
  /\ \A kind \in AllKinds : \E n \in 1..4 : kind = Kinds[n]
  BY DEF Kinds, AllKinds

\* The least number of a set of natural numbers is one of them.
LEMMA MinIn ==
  ASSUME NEW S \in SUBSET Nat, S # {}
  PROVE  Min(S) \in S /\ \A x \in S : Min(S) <= x
  <1>1. \E m \in S : \A x \in S : m <= x
    BY Least
  <1> QED
    BY <1>1 DEF Min

\* The next event that a follower reads is one of its kind.
LEMMA NextPending ==
  ASSUME Shapes, NEW kind \in AllKinds, follower[kind].st = "cluster", Pending(kind) # {}
  PROVE  /\ Min(Pending(kind)) \in Pending(kind)
         /\ clog[Min(Pending(kind))].key \in KeysOf(kind)
         /\ Min(Pending(kind)) \in Nat
  <1>1. Pending(kind) \in SUBSET Nat /\ Pending(kind) \subseteq 1..Len(clog)
    BY DEF Pending, Shapes
  <1>3. Min(Pending(kind)) \in Pending(kind)
    BY <1>1, MinIn
  <1>4. Min(Pending(kind)) \in 1..Len(clog) /\ KindOf[clog[Min(Pending(kind))].key] = kind
    BY <1>1, <1>3 DEF Pending
  <1>5. clog[Min(Pending(kind))] \in [key : Keys, type : {"Added", "Modified", "Deleted"}]
    <2>1. clog \in Seq([key : Keys, type : {"Added", "Modified", "Deleted"}])
      BY DEF Shapes
    <2>2. ASSUME NEW R, clog \in Seq(R), NEW i \in 1..Len(clog)
          PROVE  clog[i] \in R
      BY <2>2
    <2> QED
      BY <1>4, <2>1, <2>2
  <1> QED
    BY <1>1, <1>3, <1>4, <1>5 DEF KeysOf

\* A follower that is on is of a kind behind the migration, if that is under
\* way, and of a process that lives.
LEMMA FollowerKind ==
  ASSUME CopyInv, NEW kind \in AllKinds, follower[kind].st # "off"
  PROVE  /\ proc.pc \notin {"down", "failed"}
         /\ \A n \in proc.i .. 4 : proc.pc \in {"list", "copy"} => kind # Kinds[n]
  BY DEF CopyInv, FollowersBehind

-----------------------------------------------------------------------------
(* Steps outside the start *)

\* A step that changes neither the start nor the store: the cluster's changes,
\* the API services and the followers' reading go on.
LEMMA OutsideStep ==
  ASSUME CopyInv, Shapes', UNCHANGED <<store, proc>>, taken \subseteq taken',
         \A kind \in AllKinds : follower[kind].st = "off" => follower'[kind].st = "off"
  PROVE  CopyInv'
  <1>0. \A n \in proc.i .. 4 : Kinds[n] \in AllKinds
    BY KindsOnce DEF CopyInv, Shapes
  <1>1. FollowersBehind'
    BY <1>0 DEF CopyInv, FollowersBehind
  <1>2. ApiServed'
    BY DEF CopyInv, ApiServed, Served
  <1>3. Ahead' = Ahead /\ Kind' = Kind
    BY DEF Ahead, Kind
  <1>4. AheadIsOld'
    BY <1>3 DEF CopyInv, AheadIsOld, Served
  <1> QED
    BY <1>1, <1>2, <1>4 DEF CopyInv, OnlyOldCopiesStopAStart

LEMMA ClusterWriteStep ==
  ASSUME CopyInv, NEW k \in Keys, ClusterWrite(k)
  PROVE  CopyInv'
  <1>1. PICK type \in {"Added", "Modified", "Deleted"} :
          clog' = Append(clog, [key |-> k, type |-> type])
    BY DEF ClusterWrite
  <1>2. [key |-> k, type |-> type] \in [key : Keys, type : {"Added", "Modified", "Deleted"}]
    OBVIOUS
  <1>3. clog' \in Seq([key : Keys, type : {"Added", "Modified", "Deleted"}])
    BY <1>1, <1>2 DEF CopyInv, Shapes
  <1>4. Shapes'
    BY <1>3 DEF CopyInv, Shapes, ClusterWrite
  <1> QED
    BY <1>4, OutsideStep DEF ClusterWrite

LEMMA TakeOverStep ==
  ASSUME CopyInv, NEW g \in Groups, TakeOver(g)
  PROVE  CopyInv'
  <1>1. Shapes'
    BY DEF CopyInv, Shapes, TakeOver
  <1> QED
    BY <1>1, OutsideStep DEF TakeOver

LEMMA ReconnectStep ==
  ASSUME CopyInv, NEW kind \in AllKinds, Reconnect(kind)
  PROVE  CopyInv'
  <1>1. follower[kind].st = "cluster"
    BY DEF Reconnect
  <1>2. /\ DOMAIN follower' = AllKinds
        /\ DOMAIN follower'[kind] = {"st", "at"} /\ follower'[kind].st \in {"own", "expired"}
        /\ \A other \in AllKinds : other # kind => follower'[other] = follower[other]
    BY DEF CopyInv, Shapes, Reconnect
  <1>3. Shapes'
    BY <1>2 DEF CopyInv, Shapes, Reconnect
  <1> QED
    BY <1>1, <1>2, <1>3, OutsideStep DEF Reconnect

LEMMA FollowReturnStep ==
  ASSUME CopyInv, NEW kind \in AllKinds, FollowOwn(kind) \/ FollowAnnotated(kind)
  PROVE  CopyInv'
  <1>1. /\ DOMAIN follower' = AllKinds
        /\ DOMAIN follower'[kind] = {"st", "at"} /\ follower'[kind].st \in {"off", "returned"}
        /\ \A other \in AllKinds : other # kind => follower'[other] = follower[other]
        /\ follower[kind].st # "off"
    BY DEF CopyInv, Shapes, FollowOwn, FollowAnnotated, NoFollower
  <1>2. Shapes'
    BY <1>1 DEF CopyInv, Shapes, FollowOwn, FollowAnnotated
  <1> QED
    BY <1>1, <1>2, OutsideStep DEF FollowOwn, FollowAnnotated

\* A step beside the start that writes reports, none of them still to be
\* copied by it.
LEMMA BesideStep ==
  ASSUME CopyInv, Shapes', ApiServed', UNCHANGED <<proc, taken>>, proc.pc # "failed",
         \A kind \in AllKinds : follower[kind].st = "off" => follower'[kind].st = "off",
         proc.pc \in {"list", "copy"} =>
           \A k \in Keys : (\E n \in proc.i .. 4 : KindOf[k] = Kinds[n]) => store'[k] = store[k]
  PROVE  CopyInv'
  <1>0. \A n \in proc.i .. 4 : Kinds[n] \in AllKinds
    BY KindsOnce DEF CopyInv, Shapes
  <1>1. FollowersBehind'
    BY <1>0 DEF CopyInv, FollowersBehind
  <1>2. Ahead' = Ahead /\ Kind' = Kind
    BY DEF Ahead, Kind
  <1>3. proc.pc \in {"list", "copy"} => \A k \in Ahead : store'[k] = store[k]
    BY DEF Ahead
  <1>4. proc.pc = "copy" => \A k \in proc.todo : k \in Keys /\ store'[k] = store[k]
    <2> SUFFICES ASSUME proc.pc = "copy", NEW k \in proc.todo
                 PROVE  k \in Keys /\ store'[k] = store[k]
      OBVIOUS
    <2>1. k \in Keys /\ KindOf[k] = Kinds[proc.i] /\ proc.i \in proc.i .. 4
      BY DEF CopyInv, AheadIsOld, KeysOf, Kind, Shapes
    <2> QED
      BY <2>1
  <1>5. AheadIsOld'
    BY <1>2, <1>3, <1>4 DEF CopyInv, AheadIsOld, Served
  <1> QED
    BY <1>1, <1>5 DEF CopyInv, OnlyOldCopiesStopAStart

LEMMA FollowNextStep ==
  ASSUME CopyInv, NEW kind \in AllKinds, FollowNext(kind)
  PROVE  CopyInv'
  <1>0. Shapes /\ follower[kind].st = "cluster" /\ Pending(kind) # {}
    BY DEF CopyInv, FollowNext
  <1>1. PICK i : i = Min(Pending(kind))
    OBVIOUS
  <1>2. i \in Nat /\ clog[i].key \in Keys /\ KindOf[clog[i].key] = kind
    BY <1>0, <1>1, NextPending DEF KeysOf
  <1>3. /\ DOMAIN store' = Keys
        /\ \A k \in Keys : store'[k] = store[k] \/ (KindOf[k] = kind /\ store'[k].by = "watch")
    BY <1>0, <1>1, <1>2 DEF FollowNext, Applied, Shapes
  <1>4. /\ DOMAIN follower' = AllKinds
        /\ DOMAIN follower'[kind] = {"st", "at"}
        /\ follower'[kind].st = "cluster" /\ follower'[kind].at = i
        /\ \A other \in AllKinds : other # kind => follower'[other] = follower[other]
    BY <1>0, <1>1 DEF FollowNext, Shapes
  <1>5. Shapes'
    BY <1>0, <1>2, <1>3, <1>4 DEF Shapes, FollowNext
  <1>6. ApiServed'
    BY <1>3 DEF CopyInv, ApiServed, FollowNext, Served
  <1>7. /\ proc.pc \notin {"down", "failed"}
        /\ \A n \in proc.i .. 4 : proc.pc \in {"list", "copy"} => kind # Kinds[n]
    BY <1>0, FollowerKind
  <1> QED
    BY <1>0, <1>3, <1>4, <1>5, <1>6, <1>7, BesideStep DEF FollowNext

LEMMA ApiStep ==
  ASSUME CopyInv, NEW k \in Keys, ApiWrite(k) \/ ApiDelete(k)
  PROVE  CopyInv'
  <1>1. /\ proc.pc = "up" /\ Served(KindOf[k]) /\ UNCHANGED <<clog, taken, proc, follower>>
        /\ DOMAIN store' = Keys
        /\ \A j \in Keys : j # k => store'[j] = store[j]
        /\ store'[k] # NoReport => store'[k].by = "api"
    BY DEF ApiWrite, ApiDelete, CopyInv, Shapes
  <1>2. Shapes'
    BY <1>1 DEF CopyInv, Shapes
  <1>3. ApiServed'
    BY <1>1 DEF CopyInv, ApiServed, Served
  <1> QED
    BY <1>1, <1>2, <1>3, BesideStep

-----------------------------------------------------------------------------
(* The start *)

LEMMA BeginStep ==
  ASSUME CopyInv, Start
  PROVE  CopyInv'
  <1>1. /\ proc'.pc = "list" /\ proc'.i = 1 /\ proc'.todo = {}
        /\ proc'.old = {k \in Keys : store[k] # NoReport}
        /\ DOMAIN proc' = DOMAIN NoProc
    BY DEF Start, NoProc
  <1>2. Shapes'
    BY <1>1 DEF CopyInv, Shapes, Start
  <1>3. FollowersBehind'
    BY <1>1, KindsOnce DEF CopyInv, FollowersBehind, Start
  <1>4. AheadIsOld'
    BY <1>1 DEF AheadIsOld, Ahead, Start
  <1> QED
    BY <1>1, <1>2, <1>3, <1>4 DEF CopyInv, ApiServed, OnlyOldCopiesStopAStart, Start, Served

LEMMA ListStep ==
  ASSUME CopyInv, List
  PROVE  CopyInv'
  <1>0. /\ Shapes /\ proc.pc = "list" /\ proc.todo = {} /\ proc.i \in 1..4
        /\ UNCHANGED <<clog, taken, store, version, follower>>
        /\ \A k \in Ahead : store[k] # NoReport => k \in proc.old
    BY DEF CopyInv, List, AheadIsOld, Shapes
  <1>1. ASSUME proc'.pc \in {"copy", "up"}, proc'.i = proc.i, proc'.old = proc.old,
               DOMAIN proc' = DOMAIN proc,
               proc'.pc = "copy" =>
                 /\ proc'.todo \subseteq KeysOf(Kind)
                 /\ ~Served(Kind) => proc'.lrv \in Nat \ {0}
                 /\ proc'.todo # {} => ~Served(Kind)
        PROVE  CopyInv'
    <2>1. Shapes'
      BY <1>0, <1>1 DEF Shapes
    <2>2. FollowersBehind'
      BY <1>0, <1>1 DEF CopyInv, FollowersBehind
    <2>3. ApiServed'
      BY <1>0 DEF CopyInv, ApiServed, Served
    <2>4. Kind' = Kind /\ Ahead' \subseteq Ahead
      BY <1>0, <1>1 DEF Kind, Ahead
    <2>5. \A k \in proc'.todo : proc'.pc = "copy" /\ store[k] # NoReport => store[k].by # "api"
      BY <1>1 DEF CopyInv, ApiServed, KeysOf
    <2>6. AheadIsOld'
      BY <1>0, <1>1, <2>4, <2>5 DEF AheadIsOld, KeysOf, Served
    <2> QED
      BY <1>1, <2>1, <2>2, <2>3, <2>6 DEF CopyInv, OnlyOldCopiesStopAStart
  <1>2. CASE /\ ~Served(Kind)
             /\ proc' = [proc EXCEPT
                  !.pc = "copy", !.lrv = Revision, !.crv = IF Kind = "cpolr" THEN Revision ELSE @,
                  !.todo = {k \in KeysOf(Kind) \ Annotated : ClusterAt(k, Len(clog)) # 0}]
    <2>1. Revision \in Nat \ {0}
      BY <1>0 DEF Revision, Shapes
    <2>2. /\ proc'.pc = "copy" /\ proc'.i = proc.i /\ proc'.old = proc.old
          /\ DOMAIN proc' = DOMAIN proc /\ proc'.lrv = Revision
          /\ proc'.todo = {k \in KeysOf(Kind) \ Annotated : ClusterAt(k, Len(clog)) # 0}
      BY <1>0, <1>2 DEF Shapes, NoProc
    <2> QED
      BY <1>1, <1>2, <2>1, <2>2
  <1>3. ASSUME NEW rv, NEW crv, Served(Kind),
               proc' = [proc EXCEPT !.pc = "copy", !.lrv = rv, !.crv = crv]
        PROVE  CopyInv'
    <2>1. /\ proc'.pc = "copy" /\ proc'.i = proc.i /\ proc'.old = proc.old
          /\ DOMAIN proc' = DOMAIN proc /\ proc'.todo = {}
      BY <1>0, <1>3 DEF Shapes, NoProc
    <2> QED
      BY <1>1, <1>3, <2>1
  <1>4. CASE proc' = [proc EXCEPT !.pc = "up", !.base = version]
    <2>1. /\ proc'.pc = "up" /\ proc'.i = proc.i /\ proc'.old = proc.old
          /\ DOMAIN proc' = DOMAIN proc
      BY <1>0, <1>4 DEF Shapes, NoProc
    <2> QED
      BY <1>1, <2>1
  <1> QED
    BY <1>2, <1>3, <1>4 DEF List

\* A start is stopped by what was there before it, or by the store.
LEMMA FailStep ==
  ASSUME CopyInv, NEW k \in Keys, DOMAIN store' = Keys,
         proc' = [proc EXCEPT !.pc = "failed"], follower' = NoFollowers,
         UNCHANGED <<clog, taken>>,
         \A j \in Keys : store'[j] = store[j] \/ store'[j].by = "list",
         Faults \/ (k \in proc.old /\ store'[k].by \in {"list", "watch"})
  PROVE  CopyInv'
  <1>1. /\ proc'.pc = "failed" /\ proc'.i = proc.i /\ proc'.old = proc.old
        /\ DOMAIN proc' = DOMAIN NoProc
    BY DEF CopyInv, Shapes, NoProc
  <1>2. Shapes'
    BY <1>1 DEF CopyInv, Shapes, NoFollowers, NoFollower
  <1>3. FollowersBehind'
    BY <1>1 DEF FollowersBehind, NoFollowers, NoFollower
  <1>4. ApiServed'
    BY DEF CopyInv, ApiServed, Served
  <1>5. AheadIsOld' /\ OnlyOldCopiesStopAStart'
    BY <1>1 DEF AheadIsOld, OnlyOldCopiesStopAStart
  <1> QED
    BY <1>2, <1>3, <1>4, <1>5 DEF CopyInv

LEMMA CopyStep ==
  ASSUME CopyInv, Copy
  PROVE  CopyInv'
  <1>0. /\ Shapes /\ proc.pc = "copy" /\ proc.i \in 1..4 /\ UNCHANGED <<clog, taken, version>>
        /\ proc.todo \subseteq KeysOf(Kind)
    BY DEF CopyInv, Copy, AheadIsOld, Shapes
  <1>1. PICK k \in proc.todo :
          LET created == [store EXCEPT ![k] = [rv |-> ClusterAt(k, proc.lrv - 1), by |-> "list"]]
              fails == proc' = [proc EXCEPT !.pc = "failed"] /\ follower' = NoFollowers
          IN \/ /\ store[k] = NoReport
                /\ store' = created
                /\ \/ proc' = [proc EXCEPT !.todo = Copied(k)] /\ UNCHANGED follower
                   \/ Faults /\ fails
             \/ /\ store[k] # NoReport \/ Faults
                /\ UNCHANGED store
                /\ fails
    BY DEF Copy
  <1>2. k \in Keys /\ KindOf[k] = Kinds[proc.i] /\ k \in Ahead
    BY <1>0 DEF KeysOf, Kind, Ahead
  <1>3. store[k] # NoReport => k \in proc.old /\ store[k].by \in {"list", "watch"}
    BY <1>0, <1>2 DEF CopyInv, AheadIsOld, Shapes
  <1>4. PICK r : r = [rv |-> ClusterAt(k, proc.lrv - 1), by |-> "list"]
    OBVIOUS
  <1>5. r.by = "list"
    BY <1>4
  <1>6. \/ /\ store' = [store EXCEPT ![k] = r]
           /\ \/ proc' = [proc EXCEPT !.todo = Copied(k)] /\ UNCHANGED follower
              \/ /\ Faults
                 /\ proc' = [proc EXCEPT !.pc = "failed"] /\ follower' = NoFollowers
        \/ /\ store[k] # NoReport \/ Faults
           /\ UNCHANGED store
           /\ proc' = [proc EXCEPT !.pc = "failed"] /\ follower' = NoFollowers
    BY <1>1, <1>4
  <1>7. /\ DOMAIN store' = Keys
        /\ \A j \in Keys : store'[j] = store[j] \/ (j = k /\ store'[j].by = "list")
    BY <1>0, <1>5, <1>6 DEF Shapes
  <1>8. CASE proc' = [proc EXCEPT !.pc = "failed"] /\ follower' = NoFollowers
    <2>1. Faults \/ (k \in proc.old /\ store'[k].by \in {"list", "watch"})
      BY <1>0, <1>3, <1>6, <1>8 DEF Shapes, NoProc
    <2> QED
      BY <1>0, <1>2, <1>7, <1>8, <2>1, FailStep
  <1>9. CASE proc' = [proc EXCEPT !.todo = Copied(k)] /\ UNCHANGED follower
    <2>1. /\ proc'.pc = "copy" /\ proc'.i = proc.i /\ proc'.old = proc.old
          /\ proc'.todo = proc.todo \ {k} /\ proc'.lrv = proc.lrv
          /\ DOMAIN proc' = DOMAIN NoProc
      BY <1>0, <1>9 DEF Shapes, NoProc, Copied
    <2>2. Shapes'
      BY <1>0, <1>7, <1>9, <2>1 DEF Shapes
    <2>3. FollowersBehind'
      BY <1>0, <1>9, <2>1 DEF CopyInv, FollowersBehind
    <2>4. ApiServed'
      BY <1>0, <1>7 DEF CopyInv, ApiServed, Served
    <2>5. Kind' = Kind /\ Ahead' \subseteq Ahead /\ k \notin Ahead'
      <3>1. Kind' = Kind /\ Ahead' \subseteq Ahead
        BY <1>0, <2>1 DEF Kind, Ahead
      <3>2. ASSUME NEW n \in proc.i .. 4, KindOf[k] = Kinds[n]
            PROVE  n = proc.i
        <4>1. n \in 1..4 /\ Kinds[n] = Kinds[proc.i]
          BY <1>0, <1>2, <3>2
        <4> QED
          BY <1>0, <4>1, KindsOnce
      <3>3. k \notin Ahead'
        <4> SUFFICES ASSUME k \in Ahead' PROVE FALSE
          OBVIOUS
        <4>1. PICK n \in proc.i .. 4 : KindOf[k] = Kinds[n] /\ (n = proc.i => k \in proc.todo \ {k})
          BY <2>1 DEF Ahead
        <4> QED
          BY <3>2, <4>1
      <3> QED
        BY <3>1, <3>3
    <2>6. \A j \in Ahead' : j \in Keys /\ store'[j] = store[j]
      BY <1>7, <2>5 DEF Ahead
    <2>7. \A j \in proc'.todo : j \in Keys /\ store'[j] = store[j]
      BY <1>0, <1>7, <2>1 DEF KeysOf
    <2>8. AheadIsOld'
      BY <1>0, <2>1, <2>5, <2>6, <2>7 DEF CopyInv, AheadIsOld, KeysOf, Served
    <2> QED
      BY <2>1, <2>2, <2>3, <2>4, <2>8 DEF CopyInv, OnlyOldCopiesStopAStart
  <1> QED
    BY <1>6, <1>8, <1>9

LEMMA FollowStep ==
  ASSUME CopyInv, Follow
  PROVE  CopyInv'
  <1>0. /\ Shapes /\ proc.pc = "copy" /\ proc.i \in 1..4 /\ proc.todo = {}
        /\ UNCHANGED <<clog, taken, store>>
        /\ Kind \in AllKinds /\ Kind = Kinds[proc.i]
        /\ ~Served(Kind) => proc.lrv \in Nat \ {0}
        /\ \A k \in Ahead : store[k] # NoReport => k \in proc.old
    BY KindsOnce DEF CopyInv, Follow, AheadIsOld, Shapes, Kind
  <1>1. /\ DOMAIN follower' = AllKinds
        /\ DOMAIN follower'[Kind] = {"st", "at"}
        /\ follower'[Kind].st = "cluster" => follower'[Kind].at \in Nat
        /\ \A other \in AllKinds : other # Kind => follower'[other] = follower[other]
    BY <1>0 DEF Follow, Shapes, WatchFrom
  <1>2. CASE proc.i = 4
    <2>1. /\ proc'.pc = "reserve" /\ proc'.i = proc.i /\ DOMAIN proc' = DOMAIN NoProc
      BY <1>0, <1>2 DEF Follow, Shapes, NoProc
    <2>2. Shapes'
      BY <1>0, <1>1, <2>1 DEF Shapes
    <2>3. FollowersBehind' /\ AheadIsOld' /\ OnlyOldCopiesStopAStart'
      BY <2>1 DEF FollowersBehind, AheadIsOld, OnlyOldCopiesStopAStart
    <2>4. ApiServed'
      BY <1>0 DEF CopyInv, ApiServed, Served
    <2> QED
      BY <2>2, <2>3, <2>4 DEF CopyInv
  <1>3. CASE proc.i # 4
    <2>1. /\ proc'.pc = "list" /\ proc'.i = proc.i + 1 /\ proc'.i \in 1..4
          /\ proc'.todo = {} /\ proc'.old = proc.old /\ DOMAIN proc' = DOMAIN NoProc
      BY <1>0, <1>3 DEF Follow, Shapes, NoProc
    <2>2. Shapes'
      BY <1>0, <1>1, <2>1 DEF Shapes
    <2>3. \A n \in proc'.i .. 4 : n \in proc.i .. 4 /\ n # proc.i /\ Kinds[n] # Kind
                                  /\ Kinds[n] \in AllKinds
      BY <1>0, <2>1, KindsOnce
    <2>4. FollowersBehind'
      BY <1>0, <1>1, <2>1, <2>3 DEF CopyInv, FollowersBehind
    <2>5. Ahead' \subseteq Ahead
      BY <1>0, <2>1, <2>3 DEF Ahead
    <2>6. AheadIsOld'
      BY <1>0, <2>1, <2>5 DEF AheadIsOld
    <2>7. ApiServed'
      BY <1>0 DEF CopyInv, ApiServed, Served
    <2> QED
      BY <2>1, <2>2, <2>4, <2>6, <2>7 DEF CopyInv, OnlyOldCopiesStopAStart
  <1> QED
    BY <1>2, <1>3

\* The steps after which there is nothing left to copy: the end of the
\* migration and the death of the process.
LEMMA LastStep ==
  ASSUME CopyInv, Serve \/ Crash
  PROVE  CopyInv'
  <1>1. /\ proc'.pc \in {"up", "down"} /\ proc'.i \in 1..4 /\ DOMAIN proc' = DOMAIN NoProc
        /\ UNCHANGED <<clog, taken, store>>
        /\ \/ UNCHANGED follower /\ proc'.pc = "up"
           \/ follower' = NoFollowers
    <2>1. CASE Serve
      BY <2>1 DEF Serve, CopyInv, Shapes, NoProc
    <2>2. CASE Crash
      BY <2>2 DEF Crash, NoProc
    <2> QED
      BY <2>1, <2>2
  <1>2. Shapes' /\ FollowersBehind'
    BY <1>1 DEF CopyInv, Shapes, FollowersBehind, NoFollowers, NoFollower
  <1>3. ApiServed'
    BY <1>1 DEF CopyInv, ApiServed, Served
  <1>4. AheadIsOld' /\ OnlyOldCopiesStopAStart'
    BY <1>1 DEF AheadIsOld, OnlyOldCopiesStopAStart
  <1> QED
    BY <1>2, <1>3, <1>4 DEF CopyInv

-----------------------------------------------------------------------------
LEMMA CopyInit == Init => CopyInv
  <1> SUFFICES ASSUME Init PROVE CopyInv
    OBVIOUS
  <1>1. proc.pc = "down" /\ proc.i = 1 /\ proc = NoProc
    BY DEF Init, NoProc
  <1>2. Shapes
    BY <1>1 DEF Init, Shapes, NoFollowers, NoFollower
  <1>3. FollowersBehind /\ ApiServed
    BY <1>1 DEF Init, FollowersBehind, ApiServed, NoFollowers, NoFollower
  <1> QED
    BY <1>1, <1>2, <1>3 DEF CopyInv, AheadIsOld, OnlyOldCopiesStopAStart

LEMMA CopyInvStep == CopyInv /\ [Next]_vars => CopyInv'
  <1> SUFFICES ASSUME CopyInv, [Next]_vars PROVE CopyInv'
    OBVIOUS
  <1>1. CASE Start \/ Migrate \/ Crash
    BY <1>1, BeginStep, ListStep, CopyStep, FollowStep, LastStep DEF Migrate
  <1>2. ASSUME NEW kind \in AllKinds, FollowerNext(kind) \/ Reconnect(kind)
        PROVE  CopyInv'
    BY <1>2, FollowNextStep, FollowReturnStep, ReconnectStep DEF FollowerNext
  <1>3. ASSUME NEW k \in Keys, ClusterWrite(k) \/ ApiWrite(k) \/ ApiDelete(k)
        PROVE  CopyInv'
    BY <1>3, ClusterWriteStep, ApiStep
  <1>4. ASSUME NEW g \in Groups, TakeOver(g)
        PROVE  CopyInv'
    BY <1>4, TakeOverStep
  <1>5. CASE UNCHANGED vars
    <2>1. Shapes'
      BY <1>5 DEF vars, CopyInv, Shapes
    <2> QED
      BY <1>5, <2>1, OutsideStep DEF vars
  <1> QED
    BY <1>1, <1>2, <1>3, <1>4, <1>5 DEF Next

\* A start that the store does not fail is stopped only by a copy that an
\* earlier start, or its followers, left in the store: for any number of
\* reports, of changes of the cluster and of lives of the server.
THEOREM OnlyOldCopies == Spec => []OnlyOldCopiesStopAStart
  <1>1. CopyInv => OnlyOldCopiesStopAStart
    BY DEF CopyInv
  <1> QED
    BY <1>1, CopyInit, CopyInvStep, PTL DEF Spec

-----------------------------------------------------------------------------
(* Types *)

\* A set of natural numbers with a bound has a greatest element.
LEMMA MaxIn ==
  ASSUME NEW S \in SUBSET Nat, S # {}, NEW b \in Nat, \A x \in S : x <= b
  PROVE  Max(S) \in S /\ \A x \in S : x <= Max(S)
  <1> DEFINE U == {n \in Nat : \A x \in S : x <= n}
  <1>1. U \in SUBSET Nat /\ U # {}
    OBVIOUS
  <1>2. PICK m \in U : \A n \in U : m <= n
    BY <1>1, Least
  <1>3. m \in S
    <2> SUFFICES ASSUME m \notin S PROVE FALSE
      OBVIOUS
    <2>1. m \in Nat /\ \A x \in S : x \in Nat /\ x < m
      BY <1>2
    <2>2. m # 0
      <3>1. PICK x : x \in S
        OBVIOUS
      <3> QED
        BY <2>1, <3>1
    <2>3. m - 1 \in Nat /\ \A x \in S : x <= m - 1
      BY <2>1, <2>2
    <2>4. m - 1 \in U
      BY <2>3
    <2> QED
      BY <1>2, <2>1, <2>4
  <1>4. \E x \in S : \A y \in S : x >= y
    BY <1>2, <1>3
  <1>5. Max(S) \in S /\ \A y \in S : Max(S) >= y
    BY <1>4 DEF Max
  <1> QED
    BY <1>5

\* The last change of a key among the first n.
LEMMA LastChange ==
  ASSUME NEW k, NEW n \in Int, ChangesOf(k, n) # {}
  PROVE  /\ Max(ChangesOf(k, n)) \in ChangesOf(k, n)
         /\ Max(ChangesOf(k, n)) \in 1..n /\ clog[Max(ChangesOf(k, n))].key = k
         /\ \A i \in ChangesOf(k, n) : i <= Max(ChangesOf(k, n))
  <1>1. ChangesOf(k, n) \in SUBSET Nat /\ \A x \in ChangesOf(k, n) : x <= n
    BY DEF ChangesOf
  <1>2. n \in Nat
    BY DEF ChangesOf
  <1>3. /\ Max(ChangesOf(k, n)) \in ChangesOf(k, n)
        /\ \A i \in ChangesOf(k, n) : i <= Max(ChangesOf(k, n))
    BY <1>1, <1>2, MaxIn
  <1> QED
    BY <1>3 DEF ChangesOf

\* The version of a report in the cluster is a number, and no newer than the
\* changes that are looked at.
LEMMA ClusterAtType ==
  ASSUME NEW k, NEW n \in Int
  PROVE  /\ ClusterAt(k, n) \in Nat
         /\ ClusterAt(k, n) # 0 => ClusterAt(k, n) <= n + 1 /\ ClusterAt(k, n) - 1 \in ChangesOf(k, n)
  <1>1. CASE ChangesOf(k, n) = {}
    BY <1>1 DEF ClusterAt
  <1>2. CASE ChangesOf(k, n) # {}
    <2> DEFINE i == Max(ChangesOf(k, n))
    <2>1. i \in 1..n /\ i \in ChangesOf(k, n)
      BY <1>2, LastChange
    <2>2. ClusterAt(k, n) = IF clog[i].type = "Deleted" THEN 0 ELSE i + 1
      BY <1>2 DEF ClusterAt
    <2> HIDE DEF i
    <2> QED
      BY <2>1, <2>2
  <1> QED
    BY <1>1, <1>2

LEMMA AtLeastOne ==
  ASSUME NEW S \in SUBSET Nat, 1 \in S, NEW x \in S, \A y \in S : y <= x
  PROVE  x \in Nat \ {0}
  OBVIOUS

\* The highest version that a list of stored reports shows.
LEMMA ListedVersion ==
  ASSUME TypeInv, NEW kind, NEW rv,
         rv = Max({1} \cup {store[k].rv : k \in {j \in KeysOf(kind) : store[j] # NoReport}})
  PROVE  /\ rv \in Nat \ {0}
         /\ \A k \in KeysOf(kind) : store[k] # NoReport => store[k].rv <= rv
  <1>1. PICK b \in Nat : \A k \in Keys : store[k] # NoReport => store[k].rv <= b
    BY DEF TypeInv, VersionsBounded
  <1>2. \A k \in KeysOf(kind) : k \in Keys /\ (store[k] # NoReport => store[k].rv \in Nat)
    BY DEF TypeInv, TypeOK, KeysOf, Reports
  <1>3. PICK S : S = {1} \cup {store[k].rv : k \in {j \in KeysOf(kind) : store[j] # NoReport}}
    OBVIOUS
  <1>4. S \in SUBSET Nat /\ 1 \in S
    BY <1>2, <1>3
  <1>5. b + 1 \in Nat /\ \A x \in S : x <= b + 1
    BY <1>1, <1>2, <1>3
  <1>6. \A k \in KeysOf(kind) : store[k] # NoReport => store[k].rv \in S
    BY <1>3
  <1>7. rv = Max(S)
    BY <1>3
  <1>8. rv \in S /\ \A x \in S : x <= rv
    BY <1>4, <1>5, <1>7, MaxIn
  <1>9. rv \in Nat \ {0}
    BY <1>4, <1>8, AtLeastOne, Zenon
  <1>10. \A k \in KeysOf(kind) : store[k] # NoReport => store[k].rv <= rv
    BY <1>6, <1>8, Zenon
  <1> QED
    BY <1>9, <1>10, Zenon

\* A step that stores at most one report leaves the versions bounded.
LEMMA BoundStep ==
  ASSUME TypeInv, NEW k \in Keys, NEW r \in Reports \cup {NoReport},
         store' = [store EXCEPT ![k] = r]
  PROVE  store' \in [Keys -> Reports \cup {NoReport}] /\ VersionsBounded'
  <1>0. store \in [Keys -> Reports \cup {NoReport}]
    BY DEF TypeInv, TypeOK
  <1>1. PICK b \in Nat : \A j \in Keys : store[j] # NoReport => store[j].rv <= b
    BY DEF TypeInv, VersionsBounded
  <1>2. \A j \in Keys : store[j] # NoReport => store[j].rv \in Nat
    BY <1>0 DEF Reports
  <1>3. PICK c \in Nat : b <= c /\ (r # NoReport => r.rv <= c)
    <2>1. CASE r = NoReport
      BY <2>1
    <2>2. CASE r # NoReport
      <3>1. r.rv \in Nat
        BY <2>2 DEF Reports
      <3>2. b + r.rv \in Nat /\ b <= b + r.rv /\ r.rv <= b + r.rv
        BY <3>1
      <3> QED
        BY <3>2
    <2> QED
      BY <2>1, <2>2
  <1>4. ASSUME NEW j \in Keys, store'[j] # NoReport PROVE store'[j].rv <= c
    <2>1. CASE j = k
      BY <1>0, <1>3, <1>4, <2>1
    <2>2. CASE j # k
      <3>1. store'[j] = store[j]
        BY <1>0, <2>2
      <3> QED
        BY <1>1, <1>2, <1>3, <1>4, <3>1
    <2> QED
      BY <2>1, <2>2
  <1>5. VersionsBounded'
    BY <1>4 DEF VersionsBounded
  <1> QED
    BY <1>0, <1>5

\* The types of the locals of a start and of the followers.
Procs == [pc : {"down", "failed", "list", "copy", "reserve", "up"}, i : 1..4,
          todo : SUBSET Keys, lrv : Nat, crv : Nat, old : SUBSET Keys,
          since : Nat, complete : BOOLEAN, base : Nat]
Followers == [AllKinds -> [st : {"off", "cluster", "own", "expired", "returned"}, at : Nat]]
Changes == [key : Keys, type : {"Added", "Modified", "Deleted"}]

LEMMA NoProcType == NoProc \in Procs /\ NoFollowers \in Followers
  BY DEF NoProc, Procs, NoFollowers, NoFollower, Followers

LEMMA TypeFacts ==
  ASSUME TypeInv
  PROVE  /\ clog \in Seq(Changes) /\ Len(clog) \in Nat /\ Revision \in Nat \ {0}
         /\ store \in [Keys -> Reports \cup {NoReport}]
         /\ version \in Nat /\ proc \in Procs /\ follower \in Followers
         /\ proc.i \in 1..4 /\ proc.lrv \in Nat /\ proc.crv \in Nat
         /\ proc.since \in Nat /\ proc.base \in Nat
         /\ proc.todo \in SUBSET Keys /\ proc.old \in SUBSET Keys
  <1>1. /\ clog \in Seq(Changes) /\ store \in [Keys -> Reports \cup {NoReport}]
        /\ version \in Nat /\ proc \in Procs /\ follower \in Followers
    BY DEF TypeInv, TypeOK, Changes, Procs, Followers
  <1>2. Len(clog) \in Nat /\ Revision \in Nat \ {0}
    BY <1>1 DEF Revision
  <1> QED
    BY <1>1, <1>2 DEF Procs

\* A step that keeps the types of what it changes.
LEMMA TypeStep ==
  ASSUME clog' \in Seq(Changes), taken' \in SUBSET Groups,
         store' \in [Keys -> Reports \cup {NoReport}], version' \in Nat,
         proc' \in Procs, follower' \in Followers, VersionsBounded'
  PROVE  TypeInv'
  BY DEF TypeInv, TypeOK, Changes, Procs, Followers

\* The steps that leave the store alone leave the versions bounded.
LEMMA TypeStepSameStore ==
  ASSUME TypeInv, store' = store, clog' \in Seq(Changes), taken' \in SUBSET Groups,
         version' \in Nat, proc' \in Procs, follower' \in Followers
  PROVE  TypeInv'
  <1>1. VersionsBounded'
    BY DEF TypeInv, VersionsBounded
  <1> QED
    BY <1>1, TypeStep, TypeFacts

LEMMA ClusterWriteType ==
  ASSUME TypeInv, NEW k \in Keys, ClusterWrite(k)
  PROVE  TypeInv'
  <1>1. PICK c \in Changes : clog' = Append(clog, c)
    BY DEF ClusterWrite, Changes
  <1>2. clog' \in Seq(Changes)
    BY <1>1, TypeFacts
  <1> QED
    BY <1>2, TypeStepSameStore, TypeFacts DEF ClusterWrite, TypeInv, TypeOK

LEMMA TakeOverType ==
  ASSUME TypeInv, NEW g \in Groups, TakeOver(g)
  PROVE  TypeInv'
  <1>1. taken' \in SUBSET Groups
    BY DEF TakeOver, TypeInv, TypeOK
  <1> QED
    BY <1>1, TypeStepSameStore, TypeFacts DEF TakeOver

LEMMA StartType ==
  ASSUME TypeInv, Start
  PROVE  TypeInv'
  <1>1. proc' \in Procs
    <2> DEFINE old == {k \in Keys : store[k] # NoReport}
    <2>1. Revision \in Nat /\ old \in SUBSET Keys
      BY TypeFacts
    <2>2. proc' = [NoProc EXCEPT !.pc = "list", !.since = Revision, !.old = old]
      BY DEF Start
    <2> HIDE DEF old
    <2> QED
      BY <2>1, <2>2, NoProcType DEF Procs
  <1> QED
    BY <1>1, TypeStepSameStore, TypeFacts DEF Start, NewVersioning, TypeInv, TypeOK

LEMMA ListType ==
  ASSUME TypeInv, List
  PROVE  TypeInv'
  <1>0. /\ proc \in Procs /\ Revision \in Nat /\ version \in Nat
    BY TypeFacts
  <1>1. CASE proc' = [proc EXCEPT
               !.pc = "copy", !.lrv = Revision, !.crv = IF Kind = "cpolr" THEN Revision ELSE @,
               !.todo = {k \in KeysOf(Kind) \ Annotated : ClusterAt(k, Len(clog)) # 0}]
    <2> DEFINE todo == {k \in KeysOf(Kind) \ Annotated : ClusterAt(k, Len(clog)) # 0}
    <2>1. todo \in SUBSET Keys
      BY DEF KeysOf
    <2>2. PICK crv \in Nat : proc' = [proc EXCEPT !.pc = "copy", !.lrv = Revision,
                                                  !.crv = crv, !.todo = todo]
      BY <1>0, <1>1 DEF Procs
    <2> HIDE DEF todo
    <2> QED
      <3>1. proc' \in Procs
        BY <1>0, <2>1, <2>2 DEF Procs
      <3> QED
        BY <3>1, TypeStepSameStore, TypeFacts DEF List, TypeInv, TypeOK
  <1>2. ASSUME NEW rv \in Nat,
               proc' = [proc EXCEPT !.pc = "copy", !.lrv = rv,
                                    !.crv = IF Kind = "cpolr" THEN rv ELSE @]
        PROVE  TypeInv'
    <2>1. PICK crv \in Nat : proc' = [proc EXCEPT !.pc = "copy", !.lrv = rv, !.crv = crv]
      BY <1>0, <1>2 DEF Procs
    <2>2. proc' \in Procs
      BY <1>0, <2>1 DEF Procs
    <2> QED
      BY <2>2, TypeStepSameStore, TypeFacts DEF List, TypeInv, TypeOK
  <1>3. CASE proc' = [proc EXCEPT !.pc = "up", !.base = version]
    <2>1. proc' \in Procs
      BY <1>0, <1>3 DEF Procs
    <2> QED
      BY <2>1, TypeStepSameStore, TypeFacts DEF List, TypeInv, TypeOK
  <1>4. PICK rv : rv = Max({1} \cup {store[k].rv :
                                     k \in {j \in KeysOf(Kind) : store[j] # NoReport}})
    OBVIOUS
  <1>5. rv \in Nat
    BY <1>4, ListedVersion
  <1> QED
    BY <1>1, <1>2, <1>3, <1>4, <1>5 DEF List

LEMMA CopyType ==
  ASSUME TypeInv, Copy
  PROVE  TypeInv'
  <1>0. proc \in Procs /\ follower \in Followers
    BY TypeFacts
  <1>1. PICK k \in proc.todo :
          LET created == [store EXCEPT ![k] = [rv |-> ClusterAt(k, proc.lrv - 1), by |-> "list"]]
              fails == proc' = [proc EXCEPT !.pc = "failed"] /\ follower' = NoFollowers
          IN \/ /\ store[k] = NoReport
                /\ store' = created
                /\ \/ proc' = [proc EXCEPT !.todo = Copied(k)] /\ UNCHANGED follower
                   \/ Faults /\ fails
             \/ /\ store[k] # NoReport \/ Faults
                /\ UNCHANGED store
                /\ fails
    BY DEF Copy
  <1>2. k \in Keys
    BY TypeFacts
  <1>3. PICK r : r = [rv |-> ClusterAt(k, proc.lrv - 1), by |-> "list"]
    OBVIOUS
  <1>4. r \in Reports
    <2>1. ClusterAt(k, proc.lrv - 1) \in Nat
      BY TypeFacts, ClusterAtType
    <2> QED
      BY <1>3, <2>1 DEF Reports
  <1>5. store' = [store EXCEPT ![k] = r] \/ UNCHANGED store
    BY <1>1, <1>3
  <1>6. store' \in [Keys -> Reports \cup {NoReport}] /\ VersionsBounded'
    <2>1. CASE store' = [store EXCEPT ![k] = r]
      BY <1>2, <1>4, <2>1, BoundStep
    <2>2. CASE UNCHANGED store
      BY <2>2, TypeFacts DEF TypeInv, VersionsBounded
    <2> QED
      BY <1>5, <2>1, <2>2
  <1>7. proc' \in Procs /\ follower' \in Followers
    <2>1. CASE proc' = [proc EXCEPT !.pc = "failed"] /\ follower' = NoFollowers
      BY <1>0, <2>1, NoProcType DEF Procs
    <2>2. CASE proc' = [proc EXCEPT !.todo = Copied(k)] /\ UNCHANGED follower
      BY <1>0, <2>2 DEF Procs, Copied
    <2> QED
      BY <1>1, <2>1, <2>2
  <1> QED
    BY <1>6, <1>7, TypeStep, TypeFacts DEF Copy, TypeInv, TypeOK

LEMMA FollowType ==
  ASSUME TypeInv, CopyInv, Follow
  PROVE  TypeInv'
  <1>0. /\ proc \in Procs /\ proc.i \in 1..4 /\ follower \in Followers
        /\ Kind \in AllKinds
        /\ ~Served(Kind) => WatchFrom \in Nat
    BY TypeFacts, KindsOnce DEF CopyInv, AheadIsOld, Follow, WatchFrom, Kind
  <1>1. follower' \in Followers
    <2>1. PICK f : /\ f = IF Served(Kind) THEN [st |-> "own", at |-> 0]
                                          ELSE [st |-> "cluster", at |-> WatchFrom]
                   /\ follower' = [follower EXCEPT ![Kind] = f]
      BY DEF Follow
    <2>2. f \in [st : {"off", "cluster", "own"}, at : Nat]
      BY <1>0, <2>1
    <2> QED
      BY <1>0, <2>1, <2>2 DEF Followers
  <1>2. proc' \in Procs
    <2>1. CASE proc.i = 4
      BY <1>0, <2>1 DEF Follow, Procs
    <2>2. CASE proc.i # 4
      <3>1. proc.i + 1 \in 1..4
        BY <1>0, <2>2
      <3>2. proc' = [proc EXCEPT !.pc = "list", !.i = @ + 1]
        BY <2>2 DEF Follow
      <3> QED
        BY <1>0, <3>1, <3>2 DEF Procs
    <2> QED
      BY <2>1, <2>2
  <1>3. version' \in Nat
    BY TypeFacts DEF Follow, SetResourceVersion
  <1> QED
    BY <1>1, <1>2, <1>3, TypeStepSameStore, TypeFacts DEF Follow, TypeInv, TypeOK

LEMMA ServeType ==
  ASSUME TypeInv, Serve
  PROVE  TypeInv'
  <1>0. proc \in Procs /\ version \in Nat
    BY TypeFacts
  <1>1. version' \in Nat
    BY <1>0, MigrationAssumption DEF Serve, Reserved, SetResourceVersion, UseResourceVersion
  <1>2. proc' \in Procs
    BY <1>0, <1>1 DEF Serve, Procs
  <1> QED
    BY <1>1, <1>2, TypeStepSameStore, TypeFacts DEF Serve, TypeInv, TypeOK

LEMMA CrashType ==
  ASSUME TypeInv, Crash
  PROVE  TypeInv'
  BY NoProcType, TypeStepSameStore, TypeFacts DEF Crash, TypeInv, TypeOK

LEMMA FollowNextType ==
  ASSUME TypeInv, CopyInv, NEW kind \in AllKinds, FollowNext(kind)
  PROVE  TypeInv'
  <1>1. PICK i : i = Min(Pending(kind))
    OBVIOUS
  <1>2. i \in Nat /\ clog[i].key \in Keys
    BY <1>1, NextPending DEF CopyInv, FollowNext, KeysOf
  <1>3. follower' \in Followers
    BY <1>1, <1>2, TypeFacts DEF FollowNext, Followers
  <1>4. PICK r : r = [rv |-> i + 1, by |-> "watch"]
    OBVIOUS
  <1>5. r \in Reports
    BY <1>2, <1>4 DEF Reports
  <1>6. store' = [store EXCEPT ![clog[i].key] = r] \/ store' = store
    BY <1>1, <1>4 DEF FollowNext, Applied
  <1>7. store' \in [Keys -> Reports \cup {NoReport}] /\ VersionsBounded'
    <2>1. CASE store' = [store EXCEPT ![clog[i].key] = r]
      BY <1>2, <1>5, <2>1, BoundStep
    <2>2. CASE store' = store
      BY <2>2, TypeFacts DEF TypeInv, VersionsBounded
    <2> QED
      BY <1>6, <2>1, <2>2
  <1> QED
    BY <1>3, <1>7, TypeStep, TypeFacts DEF FollowNext, TypeInv, TypeOK

LEMMA FollowerType ==
  ASSUME TypeInv, CopyInv, NEW kind \in AllKinds,
         Reconnect(kind) \/ FollowAnnotated(kind) \/ FollowOwn(kind)
  PROVE  TypeInv'
  <1>0. follower \in Followers
    BY TypeFacts
  <1>1. follower' \in Followers
    <2>1. CASE Reconnect(kind)
      BY <1>0, <2>1 DEF Reconnect, Followers
    <2>2. CASE FollowAnnotated(kind)
      <3>1. PICK i : i = Min(Pending(kind))
        OBVIOUS
      <3>2. i \in Nat
        BY <2>2, <3>1, NextPending DEF CopyInv, FollowAnnotated
      <3>3. follower' = [follower EXCEPT ![kind] = [st |-> "returned", at |-> i]]
        BY <2>2, <3>1 DEF FollowAnnotated
      <3> QED
        BY <1>0, <3>2, <3>3 DEF Followers
    <2>3. CASE FollowOwn(kind)
      BY <1>0, <2>3 DEF FollowOwn, Followers, NoFollower
    <2> QED
      BY <2>1, <2>2, <2>3
  <1> QED
    BY <1>1, TypeStepSameStore, TypeFacts
    DEF Reconnect, FollowAnnotated, FollowOwn, TypeInv, TypeOK

LEMMA ApiType ==
  ASSUME TypeInv, NEW k \in Keys, ApiWrite(k) \/ ApiDelete(k)
  PROVE  TypeInv'
  <1>1. version' \in Nat
    BY TypeFacts DEF ApiWrite, ApiDelete, UseResourceVersion
  <1>2. PICK r \in Reports \cup {NoReport} : store' = [store EXCEPT ![k] = r]
    <2>1. [rv |-> version, by |-> "api"] \in Reports
      BY TypeFacts DEF Reports
    <2> QED
      BY <2>1 DEF ApiWrite, ApiDelete
  <1>3. store' \in [Keys -> Reports \cup {NoReport}] /\ VersionsBounded'
    BY <1>2, BoundStep
  <1> QED
    BY <1>1, <1>3, TypeStep, TypeFacts DEF ApiWrite, ApiDelete, TypeInv, TypeOK

\* The types hold throughout: in particular the list of a served kind has a
\* highest version, because only finitely many reports are ever stored, and
\* the watch of a kind never begins before the first change.
LEMMA TypeInvStep == TypeInv /\ CopyInv /\ [Next]_vars => TypeInv'
  <1> SUFFICES ASSUME TypeInv, CopyInv, [Next]_vars PROVE TypeInv'
    OBVIOUS
  <1>1. CASE Start \/ Migrate \/ Crash
    BY <1>1, StartType, ListType, CopyType, FollowType, ServeType, CrashType DEF Migrate
  <1>2. ASSUME NEW kind \in AllKinds, FollowerNext(kind) \/ Reconnect(kind)
        PROVE  TypeInv'
    BY <1>2, FollowNextType, FollowerType DEF FollowerNext
  <1>3. ASSUME NEW k \in Keys, ClusterWrite(k) \/ ApiWrite(k) \/ ApiDelete(k)
        PROVE  TypeInv'
    BY <1>3, ClusterWriteType, ApiType
  <1>4. ASSUME NEW g \in Groups, TakeOver(g)
        PROVE  TypeInv'
    BY <1>4, TakeOverType
  <1>5. CASE UNCHANGED vars
    BY <1>5, TypeStepSameStore, TypeFacts DEF vars, TypeInv, TypeOK
  <1> QED
    BY <1>1, <1>2, <1>3, <1>4, <1>5 DEF Next

LEMMA Typing == Spec => [](TypeInv /\ CopyInv)
  <1>1. Init => TypeInv
    <2> SUFFICES ASSUME Init PROVE TypeInv
      OBVIOUS
    <2>1. VersionsBounded
      <3>1. \A k \in Keys : store[k] # NoReport => store[k].rv <= 0
        BY DEF Init
      <3> QED
        BY <3>1 DEF VersionsBounded
    <2> QED
      BY <2>1, NoProcType DEF Init, TypeInv, TypeOK, Procs, Followers, NewVersioning
  <1> QED
    BY <1>1, TypeInvStep, CopyInit, CopyInvStep, PTL DEF Spec

\* Every variable of the migration has its type, whatever the cluster, the
\* requests and the lives of the server do.
THEOREM TypeCorrect == Spec => []TypeOK
  <1>1. TypeInv => TypeOK
    BY DEF TypeInv
  <1> QED
    BY <1>1, Typing, PTL

-----------------------------------------------------------------------------
(* Versions *)

\* The invariants that the argument about versions starts from.
Basics == TypeInv /\ CopyInv

\* Cluster policy reports and policy reports are of one group; the former are
\* migrated first, the latter second.
LEMMA PolicyKinds ==
  /\ Kinds[1] = "cpolr" /\ Kinds[2] = "polr"
  /\ {"cpolr", "polr"} \subseteq AllKinds
  /\ Served("cpolr") <=> Served("polr")
  /\ \A n \in 1..4 : (Kinds[n] = "cpolr" => n = 1) /\ (Kinds[n] = "polr" => n = 2)
  BY DEF Kinds, AllKinds, Served, GroupOf

LEMMA StoredVersion ==
  ASSUME TypeInv, NEW k \in Keys, store[k] # NoReport
  PROVE  store[k] \in Reports /\ store[k].rv \in Nat
  BY TypeFacts DEF Reports

\* A step that changes neither the store, the start nor the counter.
LEMMA OutsideVersions ==
  ASSUME Basics, VersionInv, UNCHANGED <<store, proc, version>>, taken \subseteq taken',
         Revision' \in Nat, Revision <= Revision',
         \A kind \in AllKinds : follower'[kind].st = "cluster" => follower[kind].st = "cluster"
  PROVE  VersionInv'
  <1>0. /\ TypeInv /\ Revision \in Nat /\ proc.since \in Nat
        /\ proc.lrv \in Nat
        /\ \A k \in Keys : store[k] # NoReport => store[k].rv \in Nat
    BY TypeFacts, StoredVersion DEF Basics
  <1>1. /\ Overlooked \subseteq Overlooked' /\ Kind' = Kind /\ MovesTo' = MovesTo
        /\ \A kind : Served(kind) => Served(kind)'
    BY DEF Overlooked, Served, Kind, MovesTo
  <1>2. \A k \in Keys, v \in Nat : Covered(k, v)' <=> Covered(k, v)
    BY DEF Covered
  <1>3. ClusterVersions'
    BY <1>0 DEF VersionInv, ClusterVersions
  <1>4. ListCovers'
    <2>1. \A k : Covered(k, MovesTo)' <=> Covered(k, MovesTo)
      BY <1>1 DEF Covered
    <2> QED
      BY <1>0, <1>1, <2>1 DEF VersionInv, ListCovers
  <1>5. CounterCovers'
    <2>1. \A k : Covered(k, version)' <=> Covered(k, version)
      BY DEF Covered
    <2> QED
      BY <1>1, <2>1 DEF VersionInv, CounterCovers
  <1>6. BaseCovers'
    BY <1>1 DEF VersionInv, BaseCovers, ApiVersion
  <1> QED
    BY <1>3, <1>4, <1>5, <1>6 DEF VersionInv

LEMMA ClusterWriteVersions ==
  ASSUME Basics, VersionInv, NEW k \in Keys, ClusterWrite(k)
  PROVE  VersionInv'
  <1>1. PICK c \in Changes : clog' = Append(clog, c)
    BY DEF ClusterWrite, Changes
  <1>2. Revision' = Revision + 1 /\ Revision \in Nat
    BY <1>1, TypeFacts DEF Basics, Revision
  <1> QED
    BY <1>2, OutsideVersions DEF ClusterWrite

\* The other steps outside the start do not touch the cluster's log.
LEMMA QuietVersions ==
  ASSUME Basics, VersionInv, UNCHANGED <<clog, store, proc, version>>, taken \subseteq taken',
         \A kind \in AllKinds : follower'[kind].st = "cluster" => follower[kind].st = "cluster"
  PROVE  VersionInv'
  <1>1. Revision' = Revision /\ Revision \in Nat
    BY TypeFacts DEF Basics, Revision
  <1> QED
    BY <1>1, OutsideVersions

LEMMA FollowerVersions ==
  ASSUME Basics, VersionInv, NEW kind \in AllKinds,
         Reconnect(kind) \/ FollowAnnotated(kind) \/ FollowOwn(kind)
  PROVE  VersionInv'
  <1>0. follower \in Followers
    BY TypeFacts DEF Basics
  <1>1. \A other \in AllKinds :
          follower'[other].st = "cluster" => follower[other].st = "cluster"
    <2>1. CASE Reconnect(kind)
      BY <1>0, <2>1 DEF Followers, Reconnect
    <2>2. CASE FollowOwn(kind) \/ FollowAnnotated(kind)
      BY <1>0, <2>2 DEF Followers, FollowOwn, FollowAnnotated, NoFollower
    <2> QED
      BY <2>1, <2>2
  <1> QED
    BY <1>1, QuietVersions DEF Reconnect, FollowAnnotated, FollowOwn

\* What a follower writes has a version of the cluster, and the counter was
\* above the cluster's revision when the server began to follow.
LEMMA FollowNextVersions ==
  ASSUME Basics, VersionInv, NEW kind \in AllKinds, FollowNext(kind)
  PROVE  VersionInv'
  <1> DEFINE i == Min(Pending(kind))
             k == clog[i].key
  <1>0. /\ Shapes /\ follower[kind].st = "cluster" /\ Pending(kind) # {}
        /\ UNCHANGED <<clog, taken, version, proc>>
        /\ TypeInv /\ CopyInv
    BY DEF Basics, CopyInv, FollowNext
  <1>1. i \in Pending(kind) /\ k \in Keys /\ KindOf[k] = kind /\ i \in Nat
    BY <1>0, NextPending DEF KeysOf
  <1>2. i + 1 <= Revision /\ Revision' = Revision
    <2> HIDE DEF i
    <2>1. Len(clog) \in Nat /\ follower \in Followers
      BY <1>0, TypeFacts
    <2>2. follower[kind].at \in Nat
      BY <2>1 DEF Followers
    <2>3. i \in follower[kind].at + 1 .. Len(clog)
      BY <1>1 DEF Pending
    <2>4. i <= Len(clog)
      BY <2>1, <2>2, <2>3
    <2> QED
      BY <1>0, <1>1, <2>1, <2>4 DEF Revision
  <1>3. PICK r : r = [rv |-> i + 1, by |-> "watch"]
    OBVIOUS
  <1>4. r.rv = i + 1 /\ r.by = "watch" /\ r # NoReport
    BY <1>1, <1>3, NoReportAssumption DEF Reports
  <1>5. store' = [store EXCEPT ![k] = r] \/ store' = store
    BY <1>3 DEF FollowNext, Applied
  <1> HIDE DEF i, k
  <1>6. \A j \in Keys : store'[j] = store[j] \/ (j = k /\ store'[j] = r)
    BY <1>1, <1>5, TypeFacts, <1>0
  <1>7. \A other \in AllKinds :
          follower'[other].st = follower[other].st
    BY <1>0, TypeFacts DEF FollowNext, Followers
  <1>8. /\ Overlooked' = Overlooked /\ Kind' = Kind /\ MovesTo' = MovesTo
        /\ \A x : Served(x)' <=> Served(x)
    BY <1>0 DEF Overlooked, Served, Kind, MovesTo
  <1>9. ClusterVersions'
    BY <1>0, <1>2, <1>4, <1>6 DEF VersionInv, ClusterVersions
  <1>10. ListCovers'
    <2>1. proc.pc = "copy" => Kind # kind
      BY <1>0, FollowerKind, TypeFacts DEF Kind
    <2>2. proc.pc = "copy" => \A j \in KeysOf(Kind) : store'[j] = store[j]
      BY <1>1, <1>6, <2>1 DEF KeysOf
    <2> QED
      BY <1>0, <1>2, <1>8, <2>2 DEF VersionInv, ListCovers, Covered
  <1>11. CounterCovers'
    <2> SUFFICES ASSUME proc.pc \in {"list", "copy", "reserve"} PROVE CounterCovers'
      BY <1>0 DEF CounterCovers
    <2>1. proc.since <= version
      BY <1>0 DEF VersionInv, CounterCovers
    <2>2. \A j \in Keys : store'[j] # store[j] => Covered(j, version)'
      BY <1>0, <1>4, <1>6, <2>1 DEF Covered
    <2>3. \A j \in Keys : store'[j] = store[j] => (Covered(j, version)' <=> Covered(j, version))
      BY <1>0 DEF Covered
    <2> QED
      BY <1>0, <1>7, <1>8, <2>2, <2>3 DEF VersionInv, CounterCovers
  <1>12. BaseCovers'
    <2> SUFFICES ASSUME proc.pc = "up", proc.complete PROVE BaseCovers'
      BY <1>0 DEF BaseCovers
    <2>1. proc.since + Reserve <= proc.base
      BY <1>0 DEF VersionInv, BaseCovers
    <2>2. \A j \in Keys : store'[j] # store[j] => store'[j].by = "watch"
      BY <1>4, <1>6
    <2> QED
      BY <1>0, <1>7, <1>8, <2>1, <2>2 DEF VersionInv, BaseCovers, ApiVersion
  <1> QED
    BY <1>9, <1>10, <1>11, <1>12 DEF VersionInv

\* A request gets a version that is above all that were set aside or given.
LEMMA ApiVersions ==
  ASSUME Basics, VersionInv, NEW k \in Keys, ApiWrite(k) \/ ApiDelete(k)
  PROVE  VersionInv'
  <1>0. /\ proc.pc = "up" /\ UNCHANGED <<clog, taken, proc, follower>> /\ TypeInv
        /\ version \in Nat /\ proc.base \in Nat
        /\ \A j \in Keys : store[j] # NoReport => store[j].rv \in Nat
    BY TypeFacts, StoredVersion DEF ApiWrite, ApiDelete, Basics
  <1>1. /\ \A j \in Keys : j # k => store'[j] = store[j]
        /\ \/ store'[k] = NoReport /\ version' = version
           \/ store'[k].by = "api" /\ store'[k].rv = version /\ version' = version + 1
    BY <1>0, TypeFacts DEF ApiWrite, ApiDelete, UseResourceVersion
  <1>2. Overlooked' = Overlooked /\ Revision' = Revision
    BY <1>0 DEF Overlooked, Served, Revision
  <1>3. ClusterVersions'
    BY <1>0, <1>1, <1>2 DEF VersionInv, ClusterVersions
  <1>4. ListCovers' /\ CounterCovers'
    BY <1>0 DEF ListCovers, CounterCovers
  <1>5. BaseCovers'
    <2> SUFFICES ASSUME proc.complete PROVE BaseCovers'
      BY <1>0 DEF BaseCovers
    <2>0. BaseCovers
      BY DEF VersionInv
    <2>1. proc.base <= version'
      BY <1>0, <1>1, <2>0 DEF BaseCovers
    <2>2. \A j \in Keys : j # k /\ store[j] # NoReport /\ ApiVersion(store[j].rv) =>
            ApiVersion(store[j].rv)'
      BY <1>0, <1>1 DEF ApiVersion
    <2>3. store'[k] # NoReport => store'[k].by = "api" /\ ApiVersion(store[k].rv)'
      BY <1>0, <1>1, <2>0 DEF BaseCovers, ApiVersion
    <2>4. \A j \in Keys \ Overlooked : store'[j] # NoReport =>
            \/ store'[j].rv < proc.base
            \/ store'[j].by # "api" /\ proc.since + Reserve <= proc.base
            \/ store'[j].by = "api" /\ ApiVersion(store[j].rv)'
      <3> SUFFICES ASSUME NEW j \in Keys \ Overlooked, store'[j] # NoReport
                   PROVE  \/ store'[j].rv < proc.base
                          \/ store'[j].by # "api" /\ proc.since + Reserve <= proc.base
                          \/ store'[j].by = "api" /\ ApiVersion(store[j].rv)'
        OBVIOUS
      <3>1. CASE j = k
        BY <2>3, <3>1
      <3>2. CASE j # k
        BY <1>0, <1>1, <2>0, <2>2, <3>2 DEF BaseCovers
      <3> QED
        BY <3>1, <3>2
    <2>5. \A j \in Keys \ Overlooked :
            j # k /\ store[j] # NoReport /\ store[j].by = "api" /\ ApiVersion(store[j].rv)'
            => ApiVersion(store[j].rv) /\ store[j].rv # version
      <3> SUFFICES ASSUME NEW j \in Keys \ Overlooked, j # k, store[j] # NoReport,
                          store[j].by = "api", ApiVersion(store[j].rv)'
                   PROVE  ApiVersion(store[j].rv) /\ store[j].rv # version
        OBVIOUS
      <3>1. store[j].rv \in Nat /\ proc.base <= store[j].rv /\ store'[j] = store[j]
        BY <1>0, <1>1 DEF ApiVersion
      <3>2. ApiVersion(store[j].rv)
        <4>1. \/ store[j].rv < proc.base
              \/ store[j].by = "api" /\ ApiVersion(store[j].rv)
          BY <1>0, <2>0 DEF BaseCovers
        <4> QED
          BY <1>0, <3>1, <4>1
      <3> QED
        BY <1>0, <3>1, <3>2 DEF ApiVersion
    <2>6. \A j, l \in Keys \ Overlooked :
            (/\ j # l /\ NoReport \notin {store'[j], store'[l]}
             /\ store'[j].by = "api" /\ ApiVersion(store[j].rv)'
             /\ store'[l].by = "api" /\ ApiVersion(store[l].rv)')
            => store'[j].rv # store'[l].rv
      <3> SUFFICES ASSUME NEW j \in Keys \ Overlooked, NEW l \in Keys \ Overlooked,
                          j # l, store'[j] # NoReport, store'[l] # NoReport,
                          store'[j].by = "api", ApiVersion(store[j].rv)',
                          store'[l].by = "api", ApiVersion(store[l].rv)'
                   PROVE  store'[j].rv # store'[l].rv
        OBVIOUS
      <3>1. CASE j = k
        BY <1>1, <2>5, <3>1
      <3>2. CASE l = k
        BY <1>1, <2>5, <3>2
      <3>3. CASE j # k /\ l # k
        BY <1>0, <1>1, <2>0, <2>5, <3>3 DEF BaseCovers
      <3> QED
        BY <3>1, <3>2, <3>3
    <2> QED
      BY <1>0, <1>2, <2>0, <2>1, <2>4, <2>6 DEF BaseCovers
  <1> QED
    BY <1>3, <1>4, <1>5 DEF VersionInv

LEMMA StartVersions ==
  ASSUME Basics, VersionInv, Start
  PROVE  VersionInv'
  <1>1. /\ proc'.pc = "list" /\ proc'.i = 1 /\ proc'.since = Revision /\ ~proc'.complete
        /\ UNCHANGED <<clog, taken, store, follower>>
    BY DEF Start, NoProc
  <1>2. Revision' = Revision /\ Revision \in Nat
    BY <1>1, TypeFacts DEF Basics, Revision
  <1>3. ClusterVersions'
    BY <1>1, <1>2 DEF VersionInv, ClusterVersions
  <1>4. ListCovers' /\ BaseCovers'
    BY <1>1 DEF ListCovers, BaseCovers
  <1>5. \A kind \in AllKinds : follower[kind].st # "cluster"
    BY DEF Start, Basics, CopyInv, FollowersBehind
  <1>6. CounterCovers'
    BY <1>1, <1>5 DEF CounterCovers
  <1> QED
    BY <1>3, <1>4, <1>6 DEF VersionInv

\* A list that shows the cluster's reports moves the counter to the cluster's
\* revision; one that shows the server's own reports moves it above them,
\* except for policy reports.
LEMMA ListVersions ==
  ASSUME Basics, VersionInv, List
  PROVE  VersionInv'
  <1>0. /\ proc.pc = "list" /\ proc.todo = {} /\ proc.i \in 1..4 /\ proc \in Procs
        /\ UNCHANGED <<clog, taken, store, version, follower>>
        /\ Revision' = Revision /\ Revision \in Nat /\ TypeInv /\ CopyInv
        /\ proc.since \in Nat /\ proc.since <= Revision
        /\ \A k \in Ahead : store[k] # NoReport => k \in proc.old
    BY TypeFacts DEF List, Basics, CopyInv, AheadIsOld, Revision, VersionInv, ClusterVersions
  <1>1. ASSUME proc'.pc = "copy", proc'.i = proc.i, proc'.since = proc.since,
               proc'.old = proc.old, proc'.complete = proc.complete,
               ~Served("cpolr") => proc.since <= proc'.crv,
               ~Served(Kind) \/ proc'.todo # {} => proc.since <= MovesTo' /\ proc'.lrv <= Revision,
               \A k \in KeysOf(Kind) \ Overlooked : store[k] # NoReport => Covered(k, MovesTo)'
        PROVE  VersionInv'
    <2>1. /\ Overlooked' = Overlooked /\ Kind' = Kind
          /\ \A x : Served(x)' <=> Served(x)
      BY <1>0, <1>1 DEF Overlooked, Served, Kind
    <2>2. ClusterVersions'
      BY <1>0, <1>1 DEF VersionInv, ClusterVersions
    <2>3. ListCovers'
      BY <1>0, <1>1, <2>1 DEF ListCovers
    <2>4. CounterCovers'
      BY <1>0, <1>1, <2>1 DEF VersionInv, CounterCovers, Covered
    <2>5. BaseCovers'
      BY <1>1 DEF BaseCovers
    <2> QED
      BY <2>2, <2>3, <2>4, <2>5 DEF VersionInv
  <1>2. Kind # "cpolr" => (~Served("cpolr") => proc.since <= proc.crv)
    BY <1>0, PolicyKinds DEF Kind, VersionInv, ListCovers
  <1>3. ASSUME ~Served(Kind),
               proc' = [proc EXCEPT
                 !.pc = "copy", !.lrv = Revision, !.crv = IF Kind = "cpolr" THEN Revision ELSE @,
                 !.todo = {k \in KeysOf(Kind) \ Annotated : ClusterAt(k, Len(clog)) # 0}]
        PROVE  VersionInv'
    <2>1. /\ proc'.pc = "copy" /\ proc'.i = proc.i /\ proc'.since = proc.since
          /\ proc'.old = proc.old /\ proc'.complete = proc.complete
          /\ proc'.lrv = Revision
          /\ proc'.crv = IF Kind = "cpolr" THEN Revision ELSE proc.crv
      BY <1>0, <1>3 DEF Procs
    <2>2. ~Served("cpolr") => proc.since <= proc'.crv
      BY <1>0, <1>2, <2>1
    <2>3. Kind' = Kind
      BY <2>1 DEF Kind
    <2>4. proc.since <= MovesTo'
      BY <1>0, <1>3, <2>1, <2>2, <2>3, PolicyKinds DEF MovesTo
    <2>5. \A k \in KeysOf(Kind) : store[k] # NoReport => store[k].by # "api"
      BY <1>0, <1>3 DEF CopyInv, ApiServed, KeysOf
    <2>6. \A k \in KeysOf(Kind) : store[k] # NoReport => Covered(k, MovesTo)'
      BY <1>0, <2>1, <2>4, <2>5 DEF Covered
    <2> QED
      BY <1>0, <1>1, <2>1, <2>2, <2>4, <2>6
  <1>4. ASSUME Served(Kind), NEW rv,
               rv = Max({1} \cup {store[k].rv : k \in {j \in KeysOf(Kind) : store[j] # NoReport}}),
               proc' = [proc EXCEPT !.pc = "copy", !.lrv = rv,
                                    !.crv = IF Kind = "cpolr" THEN rv ELSE @]
        PROVE  VersionInv'
    <2>1. /\ proc'.pc = "copy" /\ proc'.i = proc.i /\ proc'.since = proc.since
          /\ proc'.old = proc.old /\ proc'.complete = proc.complete
          /\ proc'.lrv = rv /\ proc'.todo = {}
          /\ Kind # "cpolr" => proc'.crv = proc.crv
      BY <1>0, <1>4 DEF Procs
    <2>2. ~Served("cpolr") => proc.since <= proc'.crv
      BY <1>2, <1>4, <2>1
    <2>3. Kind' = Kind
      BY <2>1 DEF Kind
    <2>4. \A k \in KeysOf(Kind) \ Overlooked : store[k] # NoReport => Covered(k, MovesTo)'
      <3>1. CASE Kind = "polr"
        <4>1. \A k \in KeysOf(Kind) : k \in Ahead
          BY <1>0 DEF KeysOf, Ahead, Kind
        <4>2. \A k \in KeysOf(Kind) : store[k] # NoReport => k \in Overlooked
          BY <1>0, <1>4, <3>1, <4>1 DEF Overlooked, KeysOf
        <4> QED
          BY <4>2
      <3>2. CASE Kind # "polr"
        <4>1. \A k \in KeysOf(Kind) : store[k] # NoReport => store[k].rv <= rv
          BY <1>0, <1>4, ListedVersion
        <4>2. MovesTo' = rv
          BY <2>1, <2>3, <3>2 DEF MovesTo
        <4> QED
          BY <1>0, <4>1, <4>2 DEF Covered
      <3> QED
        BY <3>1, <3>2
    <2> QED
      BY <1>1, <1>4, <2>1, <2>2, <2>4
  <1>5. ASSUME proc' = [proc EXCEPT !.pc = "up", !.base = version]
        PROVE  VersionInv'
    <2>1. /\ proc'.pc = "up" /\ proc'.since = proc.since /\ proc'.complete = proc.complete
      BY <1>0, <1>5 DEF Procs
    <2>2. ClusterVersions'
      BY <1>0, <2>1 DEF VersionInv, ClusterVersions
    <2>3. ~proc.complete
      BY <1>0 DEF VersionInv, CounterCovers
    <2>4. ListCovers' /\ CounterCovers' /\ BaseCovers'
      BY <2>1, <2>3 DEF ListCovers, CounterCovers, BaseCovers
    <2> QED
      BY <2>2, <2>4 DEF VersionInv
  <1> QED
    BY <1>3, <1>4, <1>5 DEF List

\* What a start copies has a version that its list covers.
LEMMA CopyVersions ==
  ASSUME Basics, VersionInv, Copy
  PROVE  VersionInv'
  <1>0. /\ proc.pc = "copy" /\ proc.i \in 1..4 /\ proc \in Procs /\ proc.lrv \in Nat
        /\ UNCHANGED <<clog, taken, version>>
        /\ Revision' = Revision /\ Revision \in Nat /\ TypeInv /\ CopyInv
        /\ proc.todo \subseteq KeysOf(Kind) /\ proc.todo \subseteq Keys
    BY TypeFacts DEF Copy, Basics, CopyInv, AheadIsOld, Revision
  <1>1. PICK k \in proc.todo :
          LET created == [store EXCEPT ![k] = [rv |-> ClusterAt(k, proc.lrv - 1), by |-> "list"]]
              fails == proc' = [proc EXCEPT !.pc = "failed"] /\ follower' = NoFollowers
          IN \/ /\ store[k] = NoReport
                /\ store' = created
                /\ \/ proc' = [proc EXCEPT !.todo = Copied(k)] /\ UNCHANGED follower
                   \/ Faults /\ fails
             \/ /\ store[k] # NoReport \/ Faults
                /\ UNCHANGED store
                /\ fails
    BY DEF Copy
  <1>2. k \in Keys /\ KindOf[k] = Kind /\ proc.since <= MovesTo /\ proc.lrv <= Revision
    BY <1>0 DEF KeysOf, VersionInv, ListCovers
  <1>3. PICK r : r = [rv |-> ClusterAt(k, proc.lrv - 1), by |-> "list"]
    OBVIOUS
  <1>4. r.by = "list" /\ r.rv \in Nat /\ r.rv <= Revision /\ r # NoReport
    <2>1. /\ ClusterAt(k, proc.lrv - 1) \in Nat
          /\ ClusterAt(k, proc.lrv - 1) # 0 => ClusterAt(k, proc.lrv - 1) <= proc.lrv
      BY <1>0, ClusterAtType
    <2>2. r \in Reports
      BY <1>3, <2>1 DEF Reports
    <2> QED
      BY <1>0, <1>2, <1>3, <2>1, <2>2, NoReportAssumption
  <1>5. \/ /\ store' = [store EXCEPT ![k] = r]
           /\ \/ proc' = [proc EXCEPT !.todo = Copied(k)] /\ UNCHANGED follower
              \/ proc' = [proc EXCEPT !.pc = "failed"]
        \/ /\ UNCHANGED store
           /\ proc' = [proc EXCEPT !.pc = "failed"]
    BY <1>1, <1>3
  <1>6. \A j \in Keys : store'[j] = store[j] \/ (j = k /\ store'[j] = r)
    BY <1>0, <1>5, TypeFacts
  <1>7. proc'.since = proc.since
    BY <1>0, <1>5 DEF Procs
  <1>8. ClusterVersions'
    BY <1>0, <1>4, <1>6, <1>7 DEF VersionInv, ClusterVersions
  <1>9. CASE proc' = [proc EXCEPT !.pc = "failed"]
    <2>1. proc'.pc = "failed"
      BY <1>0, <1>9 DEF Procs
    <2> QED
      BY <1>8, <2>1 DEF VersionInv, ListCovers, CounterCovers, BaseCovers
  <1>10. CASE proc' = [proc EXCEPT !.todo = Copied(k)] /\ UNCHANGED follower
    <2>1. /\ proc'.pc = "copy" /\ proc'.i = proc.i /\ proc'.old = proc.old
          /\ proc'.todo = proc.todo \ {k} /\ proc'.lrv = proc.lrv /\ proc'.crv = proc.crv
          /\ proc'.complete = proc.complete
      BY <1>0, <1>10 DEF Procs, Copied
    <2>2. /\ Overlooked' = Overlooked /\ Kind' = Kind /\ MovesTo' = MovesTo
          /\ \A x : Served(x)' <=> Served(x)
      BY <1>0, <2>1 DEF Overlooked, Served, Kind, MovesTo
    <2>3. \A j \in Keys : Covered(j, MovesTo) /\ store'[j] = store[j] => Covered(j, MovesTo)'
      BY <1>7, <2>2 DEF Covered
    <2>4. \A j \in Keys : store'[j] # store[j] => Covered(j, MovesTo)'
      BY <1>2, <1>4, <1>6, <1>7, <2>2 DEF Covered
    <2>5. ListCovers'
      <3>1. \A j \in KeysOf(Kind) \ Overlooked : store'[j] # NoReport => Covered(j, MovesTo)'
        BY <1>0, <2>3, <2>4 DEF VersionInv, ListCovers, KeysOf
      <3> QED
        BY <1>0, <1>2, <1>7, <2>1, <2>2, <3>1 DEF VersionInv, ListCovers
    <2>6. ASSUME NEW j \in Keys, NEW n \in 1..4, KindOf[j] = Kinds[n], n < proc.i
          PROVE  store'[j] = store[j]
      <3>1. j # k
        BY <1>0, <1>2, <2>6, KindsOnce DEF Kind
      <3> QED
        BY <1>6, <3>1
    <2>7. CounterCovers'
      BY <1>0, <1>7, <1>10, <2>1, <2>2, <2>6 DEF VersionInv, CounterCovers, Covered
    <2>8. BaseCovers'
      BY <2>1 DEF BaseCovers
    <2> QED
      BY <1>8, <2>5, <2>7, <2>8 DEF VersionInv
  <1> QED
    BY <1>5, <1>9, <1>10

\* The counter is moved up to what the list covers.
LEMMA FollowVersions ==
  ASSUME Basics, VersionInv, Follow
  PROVE  VersionInv'
  <1>0. /\ proc.pc = "copy" /\ proc.i \in 1..4 /\ proc \in Procs
        /\ UNCHANGED <<clog, taken, store>>
        /\ Revision' = Revision /\ TypeInv /\ follower \in Followers
        /\ Kind = Kinds[proc.i] /\ Kind \in AllKinds
        /\ version \in Nat /\ MovesTo \in Nat /\ proc.since \in Nat
    BY TypeFacts, KindsOnce DEF Follow, Basics, Revision, Kind, MovesTo
  <1>1. version' \in Nat /\ version <= version' /\ MovesTo <= version'
    BY <1>0 DEF Follow, SetResourceVersion, MovesTo
  <1>2. /\ proc'.since = proc.since /\ proc'.old = proc.old /\ proc'.crv = proc.crv
        /\ proc'.complete = proc.complete
        /\ \/ proc.i = 4 /\ proc'.pc = "reserve" /\ proc'.i = 4
           \/ proc.i # 4 /\ proc'.pc = "list" /\ proc'.i = proc.i + 1
    BY <1>0 DEF Follow, Procs
  <1>3. /\ Overlooked' = Overlooked /\ \A x : Served(x)' <=> Served(x)
    BY <1>0, <1>2 DEF Overlooked, Served
  <1>4. ClusterVersions'
    BY <1>0, <1>2 DEF VersionInv, ClusterVersions
  <1>5. ListCovers'
    BY <1>0, <1>2, <1>3 DEF VersionInv, ListCovers
  <1>6. CounterCovers'
    <2>1. ~proc'.complete
      BY <1>0, <1>2 DEF VersionInv, CounterCovers
    <2>2. ASSUME NEW kind \in AllKinds, follower'[kind].st = "cluster"
          PROVE  proc.since <= version'
      <3>1. CASE kind = Kind
        <4>1. ~Served(Kind)
          BY <1>0, <2>2, <3>1 DEF Follow, Followers
        <4>2. proc.since <= MovesTo
          BY <1>0, <4>1 DEF VersionInv, ListCovers
        <4> QED
          BY <1>0, <1>1, <4>2
      <3>2. CASE kind # Kind
        <4>1. follower[kind].st = "cluster"
          BY <1>0, <2>2, <3>2 DEF Follow, Followers
        <4>2. proc.since <= version
          BY <1>0, <4>1 DEF VersionInv, CounterCovers
        <4> QED
          BY <1>0, <1>1, <4>2
      <3> QED
        BY <3>1, <3>2
    <2>3. ASSUME NEW k \in Keys \ Overlooked, store[k] # NoReport, NEW n \in 1..4,
                 KindOf[k] = Kinds[n], n < proc'.i \/ proc'.pc = "reserve"
          PROVE  Covered(k, version)'
      <3>0. store[k].rv \in Nat
        BY <1>0, <2>3, StoredVersion
      <3>1. n < proc.i \/ n = proc.i
        BY <1>0, <1>2, <2>3
      <3>2. CASE n = proc.i
        <4>1. k \in KeysOf(Kind)
          BY <1>0, <2>3, <3>2 DEF KeysOf
        <4>2. Covered(k, MovesTo)
          BY <1>0, <2>3, <4>1 DEF VersionInv, ListCovers
        <4> QED
          BY <1>0, <1>1, <1>2, <3>0, <4>2 DEF Covered
      <3>3. CASE n < proc.i
        <4>1. Covered(k, version)
          BY <1>0, <2>3, <3>3 DEF VersionInv, CounterCovers
        <4> QED
          BY <1>0, <1>1, <1>2, <3>0, <4>1 DEF Covered
      <3> QED
        BY <3>1, <3>2, <3>3
    <2> QED
      BY <1>0, <1>2, <1>3, <2>1, <2>2, <2>3 DEF CounterCovers
  <1>7. BaseCovers'
    BY <1>2 DEF BaseCovers
  <1> QED
    BY <1>4, <1>5, <1>6, <1>7 DEF VersionInv

\* Setting versions aside puts every request above what is stored and what the
\* cluster may still give.
LEMMA ServeVersions ==
  ASSUME Basics, VersionInv, Serve
  PROVE  VersionInv'
  <1>0. /\ proc.pc = "reserve" /\ proc \in Procs /\ version \in Nat /\ proc.since \in Nat
        /\ UNCHANGED <<clog, taken, store, follower>> /\ TypeInv /\ Revision' = Revision
    BY TypeFacts DEF Serve, Basics, Revision
  <1>1. version' = version + Reserve /\ Reserve \in Nat \ {0}
    BY <1>0, MigrationAssumption DEF Serve, Reserved, SetResourceVersion, UseResourceVersion
  <1>2. /\ proc'.pc = "up" /\ proc'.base = version' /\ proc'.since = proc.since
        /\ proc'.old = proc.old
    BY <1>0 DEF Serve, Procs
  <1>3. Overlooked' = Overlooked
    BY <1>0, <1>2 DEF Overlooked, Served
  <1>4. ClusterVersions'
    BY <1>0, <1>2 DEF VersionInv, ClusterVersions
  <1>5. ListCovers' /\ CounterCovers'
    BY <1>2 DEF ListCovers, CounterCovers
  <1>6. ASSUME NEW kind \in AllKinds, follower[kind].st = "cluster"
        PROVE  proc.since + Reserve <= version'
    <2>1. proc.since <= version
      BY <1>0, <1>6 DEF VersionInv, CounterCovers
    <2> QED
      BY <1>0, <1>1, <2>1
  <1>7. ASSUME NEW k \in Keys \ Overlooked, store[k] # NoReport
        PROVE  \/ store[k].rv < version'
               \/ store[k].by # "api" /\ proc.since + Reserve <= version'
    <2>1. PICK n \in 1..4 : KindOf[k] = Kinds[n]
      BY KindsOnce, MigrationAssumption
    <2>2. Covered(k, version)
      BY <1>0, <1>7, <2>1 DEF VersionInv, CounterCovers
    <2>3. store[k].rv \in Nat
      BY <1>0, <1>7, StoredVersion
    <2> QED
      BY <1>0, <1>1, <2>2, <2>3 DEF Covered
  <1>8. \A rv : ~ApiVersion(rv)'
    BY <1>0, <1>1, <1>2 DEF ApiVersion
  <1>9. BaseCovers'
    <2>1. proc'.base <= version'
      BY <1>0, <1>1, <1>2
    <2> QED
      BY <1>0, <1>2, <1>3, <1>6, <1>7, <1>8, <2>1 DEF BaseCovers
  <1> QED
    BY <1>4, <1>5, <1>9 DEF VersionInv

LEMMA CrashVersions ==
  ASSUME Basics, VersionInv, Crash
  PROVE  VersionInv'
  <1>1. proc'.pc = "down" /\ proc'.since = 1 /\ UNCHANGED <<clog, store>>
    BY DEF Crash, NoProc
  <1>2. Revision' = Revision /\ 1 <= Revision
    BY <1>1, TypeFacts DEF Basics, Revision
  <1>3. ClusterVersions'
    BY <1>1, <1>2 DEF VersionInv, ClusterVersions
  <1> QED
    BY <1>1, <1>3 DEF VersionInv, ListCovers, CounterCovers, BaseCovers

LEMMA VersionInvStep == Basics /\ VersionInv /\ [Next]_vars => VersionInv'
  <1> SUFFICES ASSUME Basics, VersionInv, [Next]_vars PROVE VersionInv'
    OBVIOUS
  <1>1. CASE Start \/ Migrate \/ Crash
    BY <1>1, StartVersions, ListVersions, CopyVersions, FollowVersions, ServeVersions,
       CrashVersions DEF Migrate
  <1>2. ASSUME NEW kind \in AllKinds, FollowerNext(kind) \/ Reconnect(kind)
        PROVE  VersionInv'
    BY <1>2, FollowNextVersions, FollowerVersions DEF FollowerNext
  <1>3. ASSUME NEW k \in Keys, ClusterWrite(k) \/ ApiWrite(k) \/ ApiDelete(k)
        PROVE  VersionInv'
    BY <1>3, ClusterWriteVersions, ApiVersions
  <1>4. ASSUME NEW g \in Groups, TakeOver(g)
        PROVE  VersionInv'
    BY <1>4, QuietVersions DEF TakeOver
  <1>5. CASE UNCHANGED vars
    BY <1>5, QuietVersions DEF vars
  <1> QED
    BY <1>1, <1>2, <1>3, <1>4, <1>5 DEF Next

LEMMA VersionInit == Init => VersionInv
  <1> SUFFICES ASSUME Init PROVE VersionInv
    OBVIOUS
  <1>1. proc.pc = "down" /\ proc.since = 1
    BY DEF Init, NoProc
  <1>2. ClusterVersions
    BY <1>1 DEF Init, ClusterVersions, Revision
  <1> QED
    BY <1>1, <1>2 DEF VersionInv, ListCovers, CounterCovers, BaseCovers

\* Once a migration has gone through, and while the cluster has not made more
\* changes than versions were set aside for, no request gets a version that
\* another stored report has, copied, followed or left by an earlier process,
\* whatever store calls fail; except for the policy reports that an earlier
\* process left.
THEOREM VersionsStayUnique == Spec => []VersionsUnique
  <1>1. Basics /\ VersionInv => VersionsUnique
    <2> SUFFICES ASSUME Basics, VersionInv, proc.pc = "up", proc.complete, WithinReserve,
                        NEW j \in Keys \ Overlooked, NEW k \in Keys \ Overlooked,
                        j # k, store[j] # NoReport, store[k] # NoReport,
                        store[j].rv = store[k].rv, ApiVersion(store[j].rv)
                 PROVE  FALSE
      BY DEF VersionsUnique
    <2>0. /\ TypeInv /\ version \in Nat /\ proc.base \in Nat /\ proc.since \in Nat
          /\ Revision \in Nat /\ Reserve \in Nat
      BY TypeFacts, MigrationAssumption DEF Basics
    <2>1. ASSUME NEW l \in Keys \ Overlooked, store[l] # NoReport, ApiVersion(store[l].rv)
          PROVE  store[l].by = "api"
      <3>0. store[l].rv \in Nat /\ proc.base <= store[l].rv
        BY <2>0, <2>1, StoredVersion DEF ApiVersion
      <3>1. store[l].by # "api" => store[l].rv <= Revision
        BY <2>1 DEF VersionInv, ClusterVersions
      <3>2. Revision < proc.since + Reserve
        BY DEF WithinReserve
      <3>3. \/ store[l].rv < proc.base
            \/ store[l].by # "api" /\ proc.since + Reserve <= proc.base
            \/ store[l].by = "api"
        BY <2>1 DEF VersionInv, BaseCovers
      <3>4. ~(store[l].rv < proc.base)
        BY <2>0, <3>0
      <3>5. ~(store[l].by # "api" /\ proc.since + Reserve <= proc.base)
        BY <2>0, <3>0, <3>1, <3>2
      <3> QED
        BY <3>3, <3>4, <3>5
    <2>2. store[j].by = "api" /\ store[k].by = "api"
      BY <2>1
    <2> QED
      BY <2>2 DEF VersionInv, BaseCovers
  <1>2. Spec => []Basics
    BY Typing, PTL DEF Basics
  <1> QED
    BY <1>1, <1>2, VersionInit, VersionInvStep, PTL DEF Spec

-----------------------------------------------------------------------------
(* What the followers have read *)

\* The operators of the invariant, of a log of changes, a report and a number
\* of changes, so that they can be used of a state and of the next one.
ChangesIn(log, k, n) == {i \in 1..n : log[i].key = k}
ClusterIn(log, k, n) ==
    IF ChangesIn(log, k, n) = {} THEN 0
    ELSE LET i == Max(ChangesIn(log, k, n)) IN IF log[i].type = "Deleted" THEN 0 ELSE i + 1
ModifiedIn(log) ==
    \A i \in 1..Len(log) : log[i].type = "Modified" => ClusterIn(log, log[i].key, i - 1) # 0
StoredFrom(log, r, k, n) == r # NoReport => r.rv - 1 \in ChangesIn(log, k, n)
Fits(log, r, k, n) ==
    /\ ClusterIn(log, k, n) # 0 => r # NoReport
    /\ LET i == Max(ChangesIn(log, k, n))
       IN (/\ ChangesIn(log, k, n) # {}
           /\ \/ log[i].type = "Modified"
              \/ log[i].type = "Added" /\ Cardinality(ChangesIn(log, k, n)) = 1)
          => r.rv = ClusterIn(log, k, n)

\* The invariant in these words, of a state ...
LEMMA TrackFacts ==
  ASSUME TrackInv
  PROVE  /\ ModifiedIn(clog)
         /\ \A kind \in AllKinds :
              follower[kind].st = "cluster" => follower[kind].at <= Len(clog)
         /\ proc.pc = "copy" /\ ~Served(Kind) =>
              /\ proc.lrv <= Len(clog) + 1
              /\ \A k \in proc.todo : ClusterIn(clog, k, proc.lrv - 1) # 0
         /\ \A k \in Keys : ~Served(KindOf[k]) =>
              /\ StoredFrom(clog, store[k], k, Seen(KindOf[k]))
              /\ Tracked(k) => Fits(clog, store[k], k, Seen(KindOf[k]))
  <1>1. ModifiedIn(clog)
    BY DEF TrackInv, ModifiedExists, ModifiedIn, ClusterAt, ClusterIn, ChangesOf, ChangesIn
  <1>2. proc.pc = "copy" /\ ~Served(Kind) =>
              /\ proc.lrv <= Len(clog) + 1
              /\ \A k \in proc.todo : ClusterIn(clog, k, proc.lrv - 1) # 0
    BY DEF TrackInv, Revision, ClusterAt, ClusterIn, ChangesOf, ChangesIn
  <1>3. \A k \in Keys : ~Served(KindOf[k]) => StoredFrom(clog, store[k], k, Seen(KindOf[k]))
    BY DEF TrackInv, StoredFrom, ChangesOf, ChangesIn
  <1>4. \A k \in Keys : ~Served(KindOf[k]) =>
          (Tracked(k) => Fits(clog, store[k], k, Seen(KindOf[k])))
    BY DEF TrackInv, Agrees, Fits, ClusterAt, ClusterIn, ChangesOf, ChangesIn
  <1> QED
    BY <1>1, <1>2, <1>3, <1>4 DEF TrackInv

\* ... and of the next one.
LEMMA TrackNext ==
  ASSUME ModifiedIn(clog'),
         \A kind \in AllKinds :
           follower'[kind].st = "cluster" => follower'[kind].at <= Len(clog'),
         proc'.pc = "copy" /\ ~Served(Kind)' =>
           /\ proc'.lrv <= Len(clog') + 1
           /\ \A k \in proc'.todo : ClusterIn(clog', k, proc'.lrv - 1) # 0,
         \A k \in Keys : ~Served(KindOf[k])' =>
           /\ StoredFrom(clog', store'[k], k, Seen(KindOf[k])')
           /\ Tracked(k)' => Fits(clog', store'[k], k, Seen(KindOf[k])')
  PROVE  TrackInv'
  <1>1. ModifiedExists'
    BY DEF ModifiedExists, ModifiedIn, ClusterAt, ClusterIn, ChangesOf, ChangesIn
  <1>2. proc'.pc = "copy" /\ ~Served(Kind)' =>
              /\ proc'.lrv <= Revision'
              /\ \A k \in proc'.todo : ClusterAt(k, proc.lrv - 1)' # 0
    BY DEF Revision, ClusterAt, ClusterIn, ChangesOf, ChangesIn
  <1>3. \A k \in Keys : ~Served(KindOf[k])' =>
          (store'[k] # NoReport => store'[k].rv - 1 \in ChangesOf(k, Seen(KindOf[k]))')
    BY DEF StoredFrom, ChangesOf, ChangesIn
  <1>4. \A k \in Keys : ~Served(KindOf[k])' =>
          (Tracked(k)' => Agrees(k, Seen(KindOf[k]))')
    BY DEF Agrees, Fits, ClusterAt, ClusterIn, ChangesOf, ChangesIn
  <1> QED
    BY <1>1, <1>2, <1>3, <1>4 DEF TrackInv

\* The last change of a key.
LEMMA LastIn ==
  ASSUME NEW log, NEW k, NEW n \in Int, ChangesIn(log, k, n) # {}
  PROVE  /\ Max(ChangesIn(log, k, n)) \in ChangesIn(log, k, n)
         /\ Max(ChangesIn(log, k, n)) \in 1..n
         /\ \A i \in ChangesIn(log, k, n) : i <= Max(ChangesIn(log, k, n))
  <1>1. /\ ChangesIn(log, k, n) \in SUBSET Nat
        /\ \A x \in ChangesIn(log, k, n) : x <= n /\ x \in 1..n
    BY DEF ChangesIn
  <1>2. n \in Nat
    BY <1>1
  <1> QED
    BY <1>1, <1>2, MaxIn

\* More changes do not change the first ones.
LEMMA FirstChanges ==
  ASSUME NEW log \in Seq(Changes), NEW c \in Changes, NEW k, NEW n \in Int, n <= Len(log)
  PROVE  /\ ChangesIn(Append(log, c), k, n) = ChangesIn(log, k, n)
         /\ ClusterIn(Append(log, c), k, n) = ClusterIn(log, k, n)
         /\ \A r : Fits(log, r, k, n) => Fits(Append(log, c), r, k, n)
  <1>0. PICK more : more = Append(log, c)
    OBVIOUS
  <1>1. \A i \in 1..n : more[i] = log[i]
    BY <1>0
  <1>2. ChangesIn(more, k, n) = ChangesIn(log, k, n)
    BY <1>1 DEF ChangesIn
  <1>3. ClusterIn(more, k, n) = ClusterIn(log, k, n)
    BY <1>1, <1>2, LastIn DEF ClusterIn
  <1>4. \A r : Fits(log, r, k, n) => Fits(more, r, k, n)
    BY <1>1, <1>2, <1>3, LastIn DEF Fits
  <1> QED
    BY <1>0, <1>2, <1>3, <1>4

\* What is stored from the first changes is stored from more of them.
LEMMA StoredFromMore ==
  ASSUME NEW log \in Seq(Changes), NEW c \in Changes, NEW k, NEW r,
         NEW m \in Int, NEW n \in Int, m <= n, StoredFrom(log, r, k, m)
  PROVE  /\ StoredFrom(log, r, k, n)
         /\ m <= Len(log) => StoredFrom(Append(log, c), r, k, n)
  <1>1. \A any : ChangesIn(any, k, m) \subseteq ChangesIn(any, k, n)
    BY DEF ChangesIn
  <1>2. m <= Len(log) => ChangesIn(Append(log, c), k, m) = ChangesIn(log, k, m)
    BY FirstChanges
  <1> QED
    BY <1>1, <1>2 DEF StoredFrom

\* Nothing is claimed of a report that the cluster does not have.
LEMMA FitsAbsent ==
  ASSUME NEW log, NEW k, NEW r, NEW n \in Int, ClusterIn(log, k, n) = 0
  PROVE  Fits(log, r, k, n)
  <1>1. CASE ChangesIn(log, k, n) = {}
    BY <1>1 DEF Fits
  <1>2. CASE ChangesIn(log, k, n) # {}
    <2>1. PICK i : i = Max(ChangesIn(log, k, n))
      OBVIOUS
    <2>2. i \in Nat
      BY <1>2, <2>1, LastIn
    <2>3. log[i].type = "Deleted"
      BY <1>2, <2>1, <2>2 DEF ClusterIn
    <2> QED
      BY <2>1, <2>3 DEF Fits
  <1> QED
    BY <1>1, <1>2

\* The version that the cluster shows is that of a change.
LEMMA ClusterInType ==
  ASSUME NEW log, NEW k, NEW n \in Int, ClusterIn(log, k, n) # 0
  PROVE  /\ ClusterIn(log, k, n) \in Nat
         /\ ClusterIn(log, k, n) - 1 \in ChangesIn(log, k, n)
  <1>1. ChangesIn(log, k, n) # {}
    BY DEF ClusterIn
  <1>2. PICK i : i = Max(ChangesIn(log, k, n))
    OBVIOUS
  <1>3. i \in Nat /\ i \in ChangesIn(log, k, n)
    BY <1>1, <1>2, LastIn
  <1>4. ClusterIn(log, k, n) = i + 1
    BY <1>1, <1>2 DEF ClusterIn
  <1> QED
    BY <1>3, <1>4

\* A change that a follower comes to, the first of its key after the ones that
\* it has read: the store has what is claimed when the follower has applied it.
LEMMA NextFits ==
  ASSUME NEW log \in Seq(Changes), ModifiedIn(log), NEW a \in Nat, NEW i \in a + 1 .. Len(log),
         NEW k, k = log[i].key, \A x \in a + 1 .. i - 1 : log[x].key # k,
         NEW r, NEW new, new.rv = i + 1, new # NoReport,
         StoredFrom(log, r, k, a), Fits(log, r, k, a),
         NEW s,
         s = IF \/ log[i].type = "Added" /\ r = NoReport
                \/ log[i].type = "Modified" /\ r # NoReport
             THEN new ELSE r
  PROVE  StoredFrom(log, s, k, i) /\ Fits(log, s, k, i)
  <1>0. i \in Nat /\ i \in 1..Len(log) /\ i - 1 \in Int /\ a \in Int /\ i - 1 >= a
    OBVIOUS
  <1>1. ChangesIn(log, k, i - 1) = ChangesIn(log, k, a)
    BY DEF ChangesIn
  <1>2. ChangesIn(log, k, i) = ChangesIn(log, k, i - 1) \cup {i}
    BY <1>0 DEF ChangesIn
  <1>3. Max(ChangesIn(log, k, i)) = i
    <2>1. i \in ChangesIn(log, k, i)
      BY <1>2
    <2>2. PICK m : m = Max(ChangesIn(log, k, i))
      OBVIOUS
    <2>3. m \in 1..i /\ i <= m
      BY <1>0, <2>1, <2>2, LastIn
    <2> QED
      BY <1>0, <2>2, <2>3
  <1>4. ClusterIn(log, k, i - 1) = ClusterIn(log, k, a)
    BY <1>1 DEF ClusterIn
  <1>5. ClusterIn(log, k, i) = IF log[i].type = "Deleted" THEN 0 ELSE i + 1
    BY <1>2, <1>3 DEF ClusterIn
  <1>6. log[i].type = "Modified" => r # NoReport
    <2>1. log[i].type = "Modified" => ClusterIn(log, k, a) # 0
      BY <1>0, <1>4 DEF ModifiedIn
    <2> QED
      BY <2>1 DEF Fits
  <1>7. Cardinality(ChangesIn(log, k, i)) = 1 => r = NoReport
    <2> SUFFICES ASSUME Cardinality(ChangesIn(log, k, i)) = 1, r # NoReport PROVE FALSE
      OBVIOUS
    <2>1. r.rv - 1 \in ChangesIn(log, k, a)
      BY DEF StoredFrom
    <2>2. r.rv - 1 \in ChangesIn(log, k, i) /\ i \in ChangesIn(log, k, i) /\ r.rv - 1 # i
      <3>1. r.rv - 1 \in 1..a
        BY <2>1 DEF ChangesIn
      <3>2. r.rv - 1 # i
        BY <1>0, <3>1
      <3> QED
        BY <1>1, <1>2, <2>1, <3>2
    <2>3. IsFiniteSet(ChangesIn(log, k, i))
      <3>1. ChangesIn(log, k, i) \in SUBSET (1..i) /\ IsFiniteSet(1..i)
        BY <1>0, FS_Interval DEF ChangesIn
      <3> QED
        BY <3>1, FS_Subset
    <2>4. PICK x : ChangesIn(log, k, i) = {x}
      BY <2>3, FS_Singleton
    <2> QED
      BY <2>2, <2>4
  <1>8. StoredFrom(log, s, k, i)
    <2>1. CASE s = new
      <3>1. new.rv - 1 = i
        BY <1>0
      <3> QED
        BY <1>2, <2>1, <3>1 DEF StoredFrom
    <2>2. CASE s = r
      BY <1>1, <1>2, <2>2 DEF StoredFrom
    <2> QED
      BY <2>1, <2>2
  <1>9. Fits(log, s, k, i)
    <2>1. CASE log[i].type = "Modified"
      <3>1. s = new
        BY <1>6, <2>1
      <3> QED
        BY <1>5, <2>1, <3>1 DEF Fits
    <2>2. CASE log[i].type = "Added"
      <3>1. s # NoReport
        BY <2>2
      <3>2. Cardinality(ChangesIn(log, k, i)) = 1 => s = new
        BY <1>7, <2>2
      <3> QED
        BY <1>3, <1>5, <2>2, <3>1, <3>2 DEF Fits
    <2>3. CASE log[i].type \notin {"Modified", "Added"}
      <3>1. log[i] \in Changes
        BY <1>0
      <3>2. log[i].type = "Deleted"
        BY <2>3, <3>1 DEF Changes
      <3>3. ClusterIn(log, k, i) = 0
        BY <1>5, <3>2
      <3> QED
        BY <1>0, <3>3, FitsAbsent
    <2> QED
      BY <2>1, <2>2, <2>3
  <1> QED
    BY <1>8, <1>9

\* What the steps below need of the types and of where the followers are.
LEMMA TrackTypes ==
  ASSUME Basics
  PROVE  /\ clog \in Seq(Changes) /\ Len(clog) \in Nat /\ proc \in Procs /\ proc.i \in 1..4
         /\ proc.lrv \in Nat /\ Kind \in AllKinds /\ follower \in Followers
         /\ proc.todo \subseteq Keys /\ DOMAIN store = Keys
         /\ proc.pc \in {"list", "copy"} => follower[Kind].st = "off"
         /\ proc.pc \in {"down", "failed"} => \A kind \in AllKinds : follower[kind].st = "off"
         /\ \A kind \in AllKinds : Seen(kind) \in Int
         /\ \A k \in Keys : KindOf[k] \in AllKinds
  <1>1. /\ clog \in Seq(Changes) /\ Len(clog) \in Nat /\ proc \in Procs /\ proc.i \in 1..4
        /\ proc.lrv \in Nat /\ follower \in Followers /\ proc.todo \subseteq Keys
        /\ DOMAIN store = Keys
    BY TypeFacts DEF Basics
  <1>2. Kind \in AllKinds
    BY <1>1, KindsOnce DEF Kind
  <1>3. /\ proc.pc \in {"list", "copy"} => follower[Kind].st = "off"
        /\ proc.pc \in {"down", "failed"} => \A kind \in AllKinds : follower[kind].st = "off"
    BY <1>1 DEF Basics, CopyInv, FollowersBehind, Kind
  <1>4. \A kind \in AllKinds : Seen(kind) \in Int
    BY <1>1 DEF Seen, Followers
  <1> QED
    BY <1>1, <1>2, <1>3, <1>4, MigrationAssumption

\* What was read of a kind of the cluster's are changes that were made.
LEMMA SeenBound ==
  ASSUME Basics, TrackInv, NEW kind \in AllKinds, ~Served(kind)
  PROVE  Seen(kind) <= Len(clog)
  BY TrackTypes, TrackFacts DEF Seen

\* A step that leaves the cluster and the reports of its kinds alone.
LEMMA QuietTrack ==
  ASSUME Basics, TrackInv, UNCHANGED clog, taken \subseteq taken',
         \A k \in Keys : ~Served(KindOf[k])' => store'[k] = store[k],
         \A kind \in AllKinds :
           follower'[kind].st = "cluster" => follower'[kind].at <= Len(clog),
         proc'.pc = "copy" /\ ~Served(Kind)' =>
           /\ proc'.lrv <= Len(clog) + 1
           /\ \A k \in proc'.todo : ClusterIn(clog, k, proc'.lrv - 1) # 0,
         \A k \in Keys : ~Served(KindOf[k])' =>
           \/ Seen(KindOf[k])' = Seen(KindOf[k]) /\ (Tracked(k)' => Tracked(k))
           \/ Seen(KindOf[k])' = Len(clog) /\ ~Tracked(k)'
  PROVE  TrackInv'
  <1>0. \A kind : ~Served(kind)' => ~Served(kind)
    BY DEF Served
  <1>1. ModifiedIn(clog')
    BY TrackFacts
  <1>2. ASSUME NEW k \in Keys, ~Served(KindOf[k])'
        PROVE  /\ StoredFrom(clog', store'[k], k, Seen(KindOf[k])')
               /\ Tracked(k)' => Fits(clog', store'[k], k, Seen(KindOf[k])')
    <2>1. /\ StoredFrom(clog, store[k], k, Seen(KindOf[k]))
          /\ Tracked(k) => Fits(clog, store[k], k, Seen(KindOf[k]))
      BY <1>0, <1>2, TrackFacts
    <2>2. CASE Seen(KindOf[k])' = Seen(KindOf[k]) /\ (Tracked(k)' => Tracked(k))
      BY <1>2, <2>1, <2>2
    <2>3. CASE Seen(KindOf[k])' = Len(clog) /\ ~Tracked(k)'
      <3>1. Seen(KindOf[k]) \in Int /\ Seen(KindOf[k]) <= Len(clog) /\ Len(clog) \in Int
        BY <1>0, <1>2, SeenBound, TrackTypes
      <3>2. StoredFrom(clog, store[k], k, Len(clog))
        <4>1. PICK m \in Int : m = Seen(KindOf[k])
          BY <3>1
        <4>2. PICK n \in Int : n = Len(clog)
          BY <3>1
        <4>3. PICK log \in Seq(Changes) : log = clog
          BY TrackTypes
        <4>4. ASSUME NEW r, StoredFrom(log, r, k, m) PROVE StoredFrom(log, r, k, n)
          <5>1. ChangesIn(log, k, m) \subseteq ChangesIn(log, k, n)
            BY <3>1, <4>1, <4>2 DEF ChangesIn
          <5> QED
            BY <4>4, <5>1 DEF StoredFrom
        <4> QED
          BY <2>1, <4>1, <4>2, <4>3, <4>4
      <3> QED
        BY <1>2, <2>3, <3>2
    <2> QED
      BY <1>2, <2>2, <2>3
  <1> QED
    BY <1>1, <1>2, TrackNext

\* Steps that change neither the start, the store nor what is read.
LEMMA TakeOverTrack ==
  ASSUME Basics, TrackInv, UNCHANGED <<clog, store, proc, follower>>, taken \subseteq taken'
  PROVE  TrackInv'
  <1>1. /\ \A kind \in AllKinds : Seen(kind)' = Seen(kind)
        /\ \A k \in Keys : Tracked(k)' <=> Tracked(k)
    BY DEF Seen, Tracked, Kind
  <1>2. Kind' = Kind /\ (~Served(Kind)' => ~Served(Kind))
    BY DEF Kind, Served
  <1> QED
    BY <1>1, <1>2, TrackTypes, TrackFacts, QuietTrack

\* Requests only write reports of served kinds.
LEMMA ApiTrack ==
  ASSUME Basics, TrackInv, NEW k \in Keys, ApiWrite(k) \/ ApiDelete(k)
  PROVE  TrackInv'
  <1>0. /\ UNCHANGED <<clog, taken, proc, follower>> /\ Served(KindOf[k])
        /\ \A j \in Keys : j # k => store'[j] = store[j]
    BY TrackTypes DEF ApiWrite, ApiDelete
  <1>1. /\ \A kind \in AllKinds : Seen(kind)' = Seen(kind)
        /\ \A j \in Keys : Tracked(j)' <=> Tracked(j)
    BY <1>0 DEF Seen, Tracked, Kind
  <1>2. Kind' = Kind /\ \A kind : Served(kind)' <=> Served(kind)
    BY <1>0 DEF Kind, Served
  <1>3. \A j \in Keys : ~Served(KindOf[j])' => store'[j] = store[j]
    BY <1>0, <1>2
  <1> QED
    BY <1>0, <1>1, <1>2, <1>3, TrackTypes, TrackFacts, QuietTrack

\* A process that begins or dies follows nothing.
LEMMA StartTrack ==
  ASSUME Basics, TrackInv, Start \/ Crash
  PROVE  TrackInv'
  <1>0. /\ UNCHANGED <<clog, taken, store>> /\ proc'.pc \in {"list", "down"}
        /\ \A kind \in AllKinds : follower'[kind].st = "off"
    <2>1. CASE Start
      <3>1. proc.pc \in {"down", "failed"} /\ proc'.pc = "list"
            /\ UNCHANGED <<clog, taken, store, follower>>
        BY <2>1 DEF Start, NoProc
      <3> QED
        BY <3>1, TrackTypes
    <2>2. CASE Crash
      BY <2>2 DEF Crash, NoProc, NoFollowers, NoFollower
    <2> QED
      BY <2>1, <2>2
  <1>1. /\ \A kind \in AllKinds : Seen(kind)' = Len(clog)
        /\ \A k \in Keys : ~Tracked(k)'
    BY <1>0, TrackTypes DEF Seen, Tracked
  <1> QED
    BY <1>0, <1>1, TrackTypes, QuietTrack

\* A watch that is given up, or that is the server's own by now, and a follower
\* that returns.
LEMMA FollowerTrack ==
  ASSUME Basics, TrackInv, NEW kind \in AllKinds,
         Reconnect(kind) \/ FollowAnnotated(kind) \/ FollowOwn(kind)
  PROVE  TrackInv'
  <1>0. UNCHANGED <<clog, taken, store, proc>> /\ Kind' = Kind
    BY DEF Reconnect, FollowAnnotated, FollowOwn, Kind
  <1>1. /\ \A other \in AllKinds : other # kind => follower'[other] = follower[other]
        /\ follower'[kind].st # "cluster" /\ follower[kind].st # "off"
    <2>1. CASE Reconnect(kind)
      BY <2>1, TrackTypes DEF Reconnect, Followers
    <2>2. CASE FollowOwn(kind) \/ FollowAnnotated(kind)
      BY <2>2, TrackTypes DEF FollowOwn, FollowAnnotated, Followers, NoFollower
    <2> QED
      BY <2>1, <2>2
  <1>2. proc.pc = "copy" => Kind # kind
    BY <1>1, TrackTypes
  <1>3. ASSUME NEW k \in Keys
        PROVE  \/ Seen(KindOf[k])' = Seen(KindOf[k]) /\ (Tracked(k)' => Tracked(k))
               \/ Seen(KindOf[k])' = Len(clog) /\ ~Tracked(k)'
    <2>1. CASE KindOf[k] = kind
      BY <1>0, <1>1, <1>2, <2>1 DEF Seen, Tracked
    <2>2. CASE KindOf[k] # kind
      <3>1. follower'[KindOf[k]] = follower[KindOf[k]]
        BY <1>1, <2>2, TrackTypes
      <3> QED
        BY <1>0, <3>1 DEF Seen, Tracked
    <2> QED
      BY <2>1, <2>2
  <1>4. \A any : Served(any)' <=> Served(any)
    BY <1>0 DEF Served
  <1> QED
    BY <1>0, <1>1, <1>3, <1>4, TrackTypes, TrackFacts, QuietTrack

\* The cluster's changes leave alone what was read before them.
LEMMA ClusterWriteTrack ==
  ASSUME Basics, TrackInv, NEW k \in Keys, ClusterWrite(k)
  PROVE  TrackInv'
  <1>0. UNCHANGED <<taken, store, proc, follower>> /\ Kind' = Kind
    BY DEF ClusterWrite, Kind
  <1>1. PICK c \in Changes : /\ clog' = Append(clog, c) /\ c.key = k
                             /\ c.type = "Modified" => ClusterAt(k, Len(clog)) # 0
    <2>1. PICK type \in {"Added", "Modified", "Deleted"} :
             /\ clog' = Append(clog, [key |-> k, type |-> type])
             /\ type = "Modified" => ClusterAt(k, Len(clog)) # 0
      BY DEF ClusterWrite
    <2>2. [key |-> k, type |-> type] \in Changes
      BY DEF Changes
    <2> QED
      BY <2>1, <2>2
  <1>2. PICK log \in Seq(Changes) : log = clog
    BY TrackTypes
  <1>3. /\ Len(log) \in Nat /\ clog' = Append(log, c) /\ Len(clog') = Len(log) + 1
        /\ \A i \in 1..Len(log) : clog'[i] = log[i]
        /\ clog'[Len(log) + 1] = c
    BY <1>1, <1>2
  <1>4. ModifiedIn(clog')
    <2> SUFFICES ASSUME NEW i \in 1..Len(log) + 1, clog'[i].type = "Modified"
                 PROVE  ClusterIn(clog', clog'[i].key, i - 1) # 0
      BY <1>3 DEF ModifiedIn
    <2>0. i - 1 \in Int /\ i - 1 <= Len(log)
      BY <1>3
    <2>1. CASE i \in 1..Len(log)
      <3>1. ClusterIn(log, log[i].key, i - 1) # 0
        BY <1>2, <1>3, <2>1, TrackFacts DEF ModifiedIn
      <3> QED
        BY <1>3, <2>0, <2>1, <3>1, FirstChanges
    <2>2. CASE i = Len(log) + 1
      <3>1. c.type = "Modified" /\ i - 1 = Len(log)
        BY <1>3, <2>2
      <3>2. ClusterIn(log, k, Len(log)) # 0
        BY <1>1, <1>2, <3>1 DEF ClusterAt, ClusterIn, ChangesOf, ChangesIn
      <3>3. ClusterIn(Append(log, c), k, i - 1) # 0
        BY <1>3, <2>0, <3>1, <3>2, FirstChanges
      <3> QED
        BY <1>1, <1>3, <2>2, <3>3
    <2> QED
      BY <1>3, <2>1, <2>2
  <1>5. \A kind \in AllKinds :
          follower'[kind].st = "cluster" => follower'[kind].at <= Len(clog')
    <2> SUFFICES ASSUME NEW kind \in AllKinds, follower[kind].st = "cluster"
                 PROVE  follower[kind].at <= Len(log) + 1
      BY <1>0, <1>3
    <2>1. follower[kind].at \in Nat /\ follower[kind].at <= Len(log)
      BY <1>2, TrackFacts, TrackTypes DEF Followers
    <2> QED
      BY <1>3, <2>1
  <1>6. \A kind : Served(kind)' <=> Served(kind)
    BY <1>0 DEF Served
  <1>7. proc'.pc = "copy" /\ ~Served(Kind)' =>
           /\ proc'.lrv <= Len(clog') + 1
           /\ \A j \in proc'.todo : ClusterIn(clog', j, proc'.lrv - 1) # 0
    <2> SUFFICES ASSUME proc.pc = "copy", ~Served(Kind)
                 PROVE  /\ proc.lrv <= Len(log) + 1 + 1
                        /\ \A j \in proc.todo : ClusterIn(clog', j, proc.lrv - 1) # 0
      BY <1>0, <1>3, <1>6
    <2>1. /\ proc.lrv \in Nat /\ proc.lrv <= Len(log) + 1
          /\ \A j \in proc.todo : ClusterIn(log, j, proc.lrv - 1) # 0
      BY <1>2, TrackFacts, TrackTypes
    <2>2. PICK n \in Int : n = proc.lrv - 1
      BY <2>1
    <2>3. n <= Len(log)
      BY <1>3, <2>1, <2>2
    <2>4. \A j \in proc.todo : ClusterIn(Append(log, c), j, n) # 0
      BY <2>1, <2>2, <2>3, FirstChanges
    <2> QED
      BY <1>3, <2>1, <2>2, <2>4
  <1>8. ASSUME NEW j \in Keys, ~Served(KindOf[j])'
        PROVE  /\ StoredFrom(clog', store'[j], j, Seen(KindOf[j])')
               /\ Tracked(j)' => Fits(clog', store'[j], j, Seen(KindOf[j])')
    <2>0. PICK n \in Int : n = Seen(KindOf[j])
      BY TrackTypes
    <2>1. n <= Len(log)
      BY <1>2, <1>6, <1>8, <2>0, SeenBound, TrackTypes
    <2>2. StoredFrom(log, store[j], j, n) /\ (Tracked(j) => Fits(log, store[j], j, n))
      BY <1>2, <1>6, <1>8, <2>0, TrackFacts
    <2>3. Tracked(j)' <=> Tracked(j)
      BY <1>0 DEF Tracked
    <2>4. Seen(KindOf[j])' = n \/ (Seen(KindOf[j])' = Len(clog') /\ ~Tracked(j))
      BY <1>0, <2>0 DEF Seen, Tracked
    <2>5. CASE Seen(KindOf[j])' = n
      <3>1. PICK r : r = store[j]
        OBVIOUS
      <3>2. StoredFrom(Append(log, c), r, j, n)
        BY <2>1, <2>2, <3>1, StoredFromMore
      <3>3. Tracked(j) => Fits(Append(log, c), r, j, n)
        BY <2>1, <2>2, <3>1, FirstChanges
      <3> QED
        BY <1>0, <1>3, <2>3, <2>5, <3>1, <3>2, <3>3
    <2>6. CASE Seen(KindOf[j])' = Len(clog') /\ ~Tracked(j)
      <3>1. PICK r : r = store[j]
        OBVIOUS
      <3>2. Len(log) + 1 \in Int /\ n <= Len(log) + 1
        BY <1>3, <2>1
      <3>3. StoredFrom(Append(log, c), r, j, Len(log) + 1)
        BY <2>1, <2>2, <3>1, <3>2, StoredFromMore
      <3> QED
        BY <1>0, <1>3, <2>3, <2>6, <3>1, <3>3
    <2> QED
      BY <2>4, <2>5, <2>6
  <1> QED
    BY <1>4, <1>5, <1>7, <1>8, TrackNext

\* A list shows all that the cluster has, so what is not to be copied is absent.
LEMMA ListTrack ==
  ASSUME Basics, TrackInv, List
  PROVE  TrackInv'
  <1>0. /\ proc.pc = "list" /\ UNCHANGED <<clog, taken, store, version, follower>>
        /\ proc \in Procs /\ follower[Kind].st = "off" /\ Kind \in AllKinds
    BY TrackTypes DEF List
  <1>1. \A any : Served(any)' <=> Served(any)
    BY <1>0 DEF Served
  <1>2. ASSUME ~Served(Kind),
               proc' = [proc EXCEPT
                 !.pc = "copy", !.lrv = Revision, !.crv = IF Kind = "cpolr" THEN Revision ELSE @,
                 !.todo = {k \in KeysOf(Kind) \ Annotated : ClusterAt(k, Len(clog)) # 0}]
        PROVE  TrackInv'
    <2>1. /\ proc'.pc = "copy" /\ proc'.i = proc.i /\ proc'.lrv = Len(clog) + 1
          /\ proc'.todo = {k \in KeysOf(Kind) \ Annotated : ClusterAt(k, Len(clog)) # 0}
      BY <1>0, <1>2 DEF Procs, Revision
    <2>2. Kind' = Kind
      BY <2>1 DEF Kind
    <2>3. Len(clog) \in Nat /\ proc'.lrv - 1 = Len(clog)
      BY <2>1, TrackTypes
    <2>4. \A k : ClusterAt(k, Len(clog)) = ClusterIn(clog, k, Len(clog))
      BY DEF ClusterAt, ClusterIn, ChangesOf, ChangesIn
    <2>5. /\ proc'.lrv <= Len(clog) + 1
          /\ \A k \in proc'.todo : ClusterIn(clog, k, proc'.lrv - 1) # 0
      BY <2>1, <2>3, <2>4
    <2>6. ASSUME NEW k \in Keys
          PROVE  Seen(KindOf[k])' = Seen(KindOf[k])
      BY <1>0, <2>1, <2>2, <2>3 DEF Seen
    <2>7. ASSUME NEW k \in Keys, ~Served(KindOf[k])'
          PROVE  /\ StoredFrom(clog', store'[k], k, Seen(KindOf[k])')
                 /\ Tracked(k)' => Fits(clog', store'[k], k, Seen(KindOf[k])')
      <3>1. /\ StoredFrom(clog, store[k], k, Seen(KindOf[k]))
            /\ Tracked(k) => Fits(clog, store[k], k, Seen(KindOf[k]))
        BY <1>1, <2>7, TrackFacts
      <3>2. CASE KindOf[k] # Kind
        <4>1. Tracked(k)' => Tracked(k)
          BY <1>0, <2>2, <3>2 DEF Tracked
        <4> QED
          BY <1>0, <2>6, <3>1, <4>1
      <3>3. CASE KindOf[k] = Kind
        <4>1. Seen(KindOf[k])' = Len(clog)
          BY <1>0, <2>6, <3>3 DEF Seen
        <4>2. Tracked(k)' => k \notin proc'.todo /\ k \notin Annotated
          BY <1>0, <3>3 DEF Tracked
        <4>3. Tracked(k)' => ClusterIn(clog, k, Len(clog)) = 0
          BY <2>1, <2>4, <3>3, <4>2 DEF KeysOf
        <4>4. Tracked(k)' => Fits(clog, store[k], k, Len(clog))
          BY <2>3, <4>3, FitsAbsent
        <4> QED
          BY <1>0, <2>6, <3>1, <4>1, <4>4
      <3> QED
        BY <3>2, <3>3
    <2> QED
      BY <1>0, <1>1, <2>2, <2>5, <2>7, TrackFacts, TrackNext
  <1>3. ASSUME proc'.pc \in {"copy", "up"}, proc'.i = proc.i,
               proc'.pc = "copy" => Served(Kind)
        PROVE  TrackInv'
    <2>1. Kind' = Kind
      BY <1>3 DEF Kind
    <2>2. ASSUME NEW k \in Keys, ~Served(KindOf[k])'
          PROVE  Seen(KindOf[k])' = Seen(KindOf[k]) /\ (Tracked(k)' => Tracked(k))
      <3>1. proc'.pc = "copy" => Kind # KindOf[k]
        BY <1>1, <1>3, <2>2
      <3> QED
        BY <1>0, <2>1, <3>1 DEF Seen, Tracked
    <2> QED
      BY <1>0, <1>1, <1>3, <2>1, <2>2, TrackFacts, QuietTrack
  <1>4. CASE Served(Kind) /\ proc'.pc = "copy" /\ proc'.i = proc.i
    BY <1>3, <1>4
  <1>5. CASE proc' = [proc EXCEPT !.pc = "up", !.base = version]
    <2>1. proc'.pc = "up" /\ proc'.i = proc.i
      BY <1>0, <1>5 DEF Procs
    <2> QED
      BY <1>3, <2>1
  <1> DEFINE Stored == Max({1} \cup {store[k].rv : k \in {j \in KeysOf(Kind) : store[j] # NoReport}})
             Lists == /\ ~Served(Kind)
                      /\ proc' = [proc EXCEPT
                           !.pc = "copy", !.lrv = Revision, !.crv = IF Kind = "cpolr" THEN Revision ELSE @,
                           !.todo = {k \in KeysOf(Kind) \ Annotated : ClusterAt(k, Len(clog)) # 0}]
             Reads == /\ Served(Kind)
                      /\ proc' = [proc EXCEPT !.pc = "copy", !.lrv = Stored,
                                              !.crv = IF Kind = "cpolr" THEN Stored ELSE @]
             Stops == proc' = [proc EXCEPT !.pc = "up", !.base = version]
  <1>6. Lists \/ Reads \/ Stops
    BY DEF List
  <1>7. CASE Lists
    BY <1>2, <1>7
  <1>8. CASE Reads
    <2>1. PICK rv : rv = Stored
      OBVIOUS
    <2>2. PICK crv : crv = IF Kind = "cpolr" THEN rv ELSE proc.crv
      OBVIOUS
    <2>3. proc' = [proc EXCEPT !.pc = "copy", !.lrv = rv, !.crv = crv]
      BY <1>8, <2>1, <2>2, Zenon
    <2>4. proc'.pc = "copy" /\ proc'.i = proc.i
      BY <1>0, <2>3 DEF Procs
    <2> QED
      BY <1>4, <1>8, <2>4
  <1> QED
    BY <1>5, <1>6, <1>7, <1>8

\* What is copied is what the cluster had when it was listed.
LEMMA CopyTrack ==
  ASSUME ~Faults, Basics, TrackInv, Copy
  PROVE  TrackInv'
  <1>0. /\ proc.pc = "copy" /\ UNCHANGED <<clog, taken, version>> /\ proc \in Procs
        /\ proc.todo \subseteq Keys /\ proc.todo \subseteq KeysOf(Kind) /\ DOMAIN store = Keys
    BY TrackTypes DEF Copy, Basics, CopyInv, AheadIsOld
  <1>1. PICK k \in proc.todo :
          LET created == [store EXCEPT ![k] = [rv |-> ClusterAt(k, proc.lrv - 1), by |-> "list"]]
              fails == proc' = [proc EXCEPT !.pc = "failed"] /\ follower' = NoFollowers
          IN \/ /\ store[k] = NoReport
                /\ store' = created
                /\ \/ proc' = [proc EXCEPT !.todo = Copied(k)] /\ UNCHANGED follower
                   \/ Faults /\ fails
             \/ /\ store[k] # NoReport \/ Faults
                /\ UNCHANGED store
                /\ fails
    BY DEF Copy
  <1>2. \A any : Served(any)' <=> Served(any)
    BY <1>0 DEF Served
  <1>3. CASE proc' = [proc EXCEPT !.pc = "failed"] /\ follower' = NoFollowers /\ UNCHANGED store
    <2>1. proc'.pc = "failed" /\ \A kind \in AllKinds : follower'[kind].st = "off"
      BY <1>0, <1>3 DEF Procs, NoFollowers, NoFollower
    <2>2. /\ \A kind \in AllKinds : Seen(kind)' = Len(clog)
          /\ \A j \in Keys : ~Tracked(j)'
      BY <1>0, <2>1, TrackTypes DEF Seen, Tracked
    <2> QED
      BY <1>0, <1>3, <2>1, <2>2, TrackTypes, QuietTrack
  <1>4. PICK r : r = [rv |-> ClusterAt(k, proc.lrv - 1), by |-> "list"]
    OBVIOUS
  <1>5. CASE /\ store' = [store EXCEPT ![k] = r] /\ UNCHANGED follower
             /\ proc' = [proc EXCEPT !.todo = Copied(k)]
    <2>1. /\ proc'.pc = "copy" /\ proc'.i = proc.i /\ proc'.lrv = proc.lrv
          /\ proc'.todo = proc.todo \ {k}
      BY <1>0, <1>5 DEF Procs, Copied
    <2>2. Kind' = Kind /\ KindOf[k] = Kind /\ k \in Keys
      BY <1>0, <2>1 DEF Kind, KeysOf
    <2>3. \A kind \in AllKinds : Seen(kind)' = Seen(kind)
      BY <1>0, <1>5, <2>1, <2>2 DEF Seen
    <2>4. ASSUME NEW j \in Keys, ~Served(KindOf[j])'
          PROVE  /\ StoredFrom(clog', store'[j], j, Seen(KindOf[j])')
                 /\ Tracked(j)' => Fits(clog', store'[j], j, Seen(KindOf[j])')
      <3>1. CASE j # k
        <4>1. store'[j] = store[j] /\ (Tracked(j)' => Tracked(j))
          BY <1>0, <1>5, <2>1, <2>2, <3>1 DEF Tracked
        <4> QED
          BY <1>0, <1>2, <2>3, <2>4, <4>1, TrackFacts, TrackTypes
      <3>2. CASE j = k
        <4>1. Seen(KindOf[j]) = proc.lrv - 1 /\ ~Served(Kind)
          BY <1>0, <1>2, <2>2, <2>4, <3>2, TrackTypes DEF Seen
        <4>2. PICK n \in Int : n = proc.lrv - 1
          BY TrackTypes
        <4>3. ClusterAt(k, n) = ClusterIn(clog, k, n)
          BY DEF ClusterAt, ClusterIn, ChangesOf, ChangesIn
        <4>4. ClusterIn(clog, k, n) # 0
          BY <1>0, <4>1, <4>2, TrackFacts
        <4>5. PICK log : log = clog
          OBVIOUS
        <4>6. ClusterIn(log, k, n) \in Nat /\ ClusterIn(log, k, n) - 1 \in ChangesIn(log, k, n)
          BY <4>4, <4>5, ClusterInType
        <4>7. r.rv = ClusterIn(log, k, n) /\ r.by = "list"
          BY <1>4, <4>2, <4>3, <4>5
        <4>8. r # NoReport
          <5>1. r \in Reports
            BY <1>4, <4>2, <4>3, <4>5, <4>6 DEF Reports
          <5> QED
            BY <5>1, NoReportAssumption
        <4>9. StoredFrom(log, r, k, n) /\ Fits(log, r, k, n)
          BY <4>6, <4>7, <4>8 DEF StoredFrom, Fits
        <4>10. store'[j] = r /\ Seen(KindOf[j])' = n
          BY <1>0, <1>5, <2>2, <2>3, <3>2, <4>1, <4>2, TrackTypes
        <4> QED
          BY <1>0, <3>2, <4>5, <4>9, <4>10
      <3> QED
        BY <3>1, <3>2
    <2> QED
      BY <1>0, <1>2, <1>5, <2>1, <2>2, <2>4, TrackFacts, TrackNext
  <1> QED
    BY <1>1, <1>3, <1>4, <1>5

\* The watch begins where the list ends.
LEMMA FollowTrack ==
  ASSUME Basics, TrackInv, Follow
  PROVE  TrackInv'
  <1>0. /\ proc.pc = "copy" /\ proc.todo = {} /\ UNCHANGED <<clog, taken, store>>
        /\ proc \in Procs /\ proc.i \in 1..4 /\ Kind \in AllKinds /\ proc.lrv \in Nat
        /\ follower \in Followers /\ follower[Kind].st = "off" /\ Len(clog) \in Nat
    BY TrackTypes DEF Follow
  <1>1. \A any : Served(any)' <=> Served(any)
    BY <1>0 DEF Served
  <1>2. /\ \A kind \in AllKinds : kind # Kind => follower'[kind] = follower[kind]
        /\ ~Served(Kind) => follower'[Kind].st = "cluster" /\ follower'[Kind].at = proc.lrv - 1
        /\ Served(Kind) => follower'[Kind].st = "own"
    BY <1>0 DEF Follow, Followers, WatchFrom
  <1>3. proc'.pc \in {"reserve", "list"}
    BY <1>0 DEF Follow, Procs
  <1>4. \A kind \in AllKinds :
          follower'[kind].st = "cluster" => follower'[kind].at <= Len(clog)
    <2>1. ~Served(Kind) => proc.lrv - 1 <= Len(clog)
      BY <1>0, TrackFacts
    <2> QED
      BY <1>2, <2>1, TrackFacts
  <1>5. ASSUME NEW k \in Keys, ~Served(KindOf[k])'
        PROVE  Seen(KindOf[k])' = Seen(KindOf[k]) /\ (Tracked(k)' => Tracked(k))
    <2>1. CASE KindOf[k] = Kind
      BY <1>0, <1>1, <1>2, <1>5, <2>1 DEF Seen, Tracked
    <2>2. CASE KindOf[k] # Kind
      <3>1. follower'[KindOf[k]] = follower[KindOf[k]]
        BY <1>2, <2>2, TrackTypes
      <3> QED
        BY <1>0, <1>3, <2>2, <3>1 DEF Seen, Tracked
    <2> QED
      BY <2>1, <2>2
  <1> QED
    BY <1>0, <1>3, <1>4, <1>5, QuietTrack

LEMMA ServeTrack ==
  ASSUME Basics, TrackInv, Serve
  PROVE  TrackInv'
  <1>0. /\ proc.pc = "reserve" /\ proc'.pc = "up"
        /\ UNCHANGED <<clog, taken, store, follower>>
    BY TrackTypes DEF Serve, Procs
  <1>1. /\ \A kind \in AllKinds : Seen(kind)' = Seen(kind)
        /\ \A k \in Keys : Tracked(k)' <=> Tracked(k)
    BY <1>0 DEF Seen, Tracked
  <1> QED
    BY <1>0, <1>1, TrackFacts, TrackTypes, QuietTrack

\* A follower's next change is the first of its kind that it has not read, and
\* so the first of its key; the changes of other keys read so far stay the same.
LEMMA FollowNextTrack ==
  ASSUME ~Faults, Basics, TrackInv, NEW kind \in AllKinds, FollowNext(kind)
  PROVE  TrackInv'
  <1>0. /\ follower[kind].st = "cluster" /\ Pending(kind) # {}
        /\ UNCHANGED <<clog, taken, version, proc>> /\ Shapes /\ follower \in Followers
    BY TrackTypes DEF FollowNext, Basics, CopyInv
  <1>1. PICK i : i = Min(Pending(kind))
    OBVIOUS
  <1>2. PICK a \in Nat : a = follower[kind].at
    BY <1>0 DEF Followers
  <1>3. PICK log \in Seq(Changes) : log = clog
    BY TrackTypes
  <1>4. PICK k \in Keys : k = log[i].key /\ KindOf[k] = kind
    BY <1>0, <1>1, <1>3, NextPending DEF KeysOf
  <1>5. i \in a + 1 .. Len(log) /\ \A x \in a + 1 .. i - 1 : KindOf[log[x].key] # kind
    <2>0. Pending(kind) = {x \in a + 1 .. Len(log) : KindOf[log[x].key] = kind}
      BY <1>2, <1>3 DEF Pending
    <2>1. i \in Pending(kind) /\ \A x \in Pending(kind) : i <= x
      <3>1. Pending(kind) \in SUBSET Nat
        BY <2>0
      <3> QED
        BY <1>0, <1>1, <3>1, MinIn
    <2>2. i \in a + 1 .. Len(log)
      BY <2>0, <2>1
    <2>3. ASSUME NEW x \in a + 1 .. i - 1, KindOf[log[x].key] = kind PROVE FALSE
      <3>1. x \in a + 1 .. Len(log) /\ x < i
        BY <2>2
      <3>2. x \in Pending(kind)
        BY <2>0, <2>3, <3>1
      <3> QED
        BY <2>1, <2>2, <3>1, <3>2
    <2> QED
      BY <2>2, <2>3
  <1>6. PICK new : new = [rv |-> i + 1, by |-> "watch"]
    OBVIOUS
  <1>7. new.rv = i + 1 /\ new # NoReport
    <2>1. new \in Reports
      BY <1>5, <1>6 DEF Reports
    <2> QED
      BY <1>6, <2>1, NoReportAssumption
  <1>8. store' = IF \/ log[i].type = "Added" /\ store[k] = NoReport
                    \/ log[i].type = "Modified" /\ store[k] # NoReport
                 THEN [store EXCEPT ![k] = new] ELSE store
    BY <1>1, <1>3, <1>4, <1>6 DEF FollowNext, Applied
  <1>9. /\ \A other \in AllKinds : other # kind => follower'[other] = follower[other]
        /\ follower'[kind].st = "cluster" /\ follower'[kind].at = i
    BY <1>0, <1>1 DEF FollowNext, Followers
  <1>13. k \in Annotated => log[i].type = "Deleted"
    BY <1>1, <1>3, <1>4 DEF FollowNext, SaysServed
  <1>10. Kind' = Kind /\ \A any : Served(any)' <=> Served(any)
    BY <1>0 DEF Kind, Served
  <1>11. \A other \in AllKinds :
           follower'[other].st = "cluster" => follower'[other].at <= Len(clog')
    BY <1>0, <1>3, <1>5, <1>9, TrackFacts
  <1>12. ASSUME NEW j \in Keys, ~Served(KindOf[j])'
         PROVE  /\ StoredFrom(clog', store'[j], j, Seen(KindOf[j])')
                /\ Tracked(j)' => Fits(clog', store'[j], j, Seen(KindOf[j])')
    <2>0. /\ StoredFrom(clog, store[j], j, Seen(KindOf[j]))
          /\ Tracked(j) => Fits(clog, store[j], j, Seen(KindOf[j]))
      BY <1>10, <1>12, TrackFacts
    <2>1. CASE KindOf[j] # kind
      <3>1. store'[j] = store[j]
        BY <1>4, <1>8, <2>1, TrackTypes
      <3>2. follower'[KindOf[j]] = follower[KindOf[j]]
        BY <1>9, <2>1, TrackTypes
      <3>3. Seen(KindOf[j])' = Seen(KindOf[j]) /\ (Tracked(j)' <=> Tracked(j))
        BY <1>0, <1>10, <3>2 DEF Seen, Tracked
      <3> QED
        BY <1>0, <2>0, <3>1, <3>3
    <2>2. CASE KindOf[j] = kind
      <3>1. /\ Seen(KindOf[j]) = a /\ Seen(KindOf[j])' = i
            /\ Tracked(j)' <=> j \notin Annotated
            /\ Tracked(j) <=> j \notin Annotated
        BY <1>0, <1>2, <1>9, <2>2 DEF Seen, Tracked
      <3>2. PICK r : r = store[j]
        OBVIOUS
      <3>3. /\ StoredFrom(log, r, j, a)
            /\ j \notin Annotated => Fits(log, r, j, a)
        BY <1>3, <2>0, <3>1, <3>2
      <3>6. CASE j = k /\ j \in Annotated
        <4>1. store'[j] = r
          BY <1>8, <1>13, <3>2, <3>6
        <4>2. ChangesIn(log, j, a) \subseteq ChangesIn(log, j, i)
          BY <1>5 DEF ChangesIn
        <4>3. StoredFrom(log, r, j, i)
          BY <3>3, <4>2 DEF StoredFrom
        <4> QED
          BY <1>0, <1>3, <3>1, <3>6, <4>1, <4>3
      <3>4. CASE j = k /\ j \notin Annotated
        <4>1. PICK s : s = IF \/ log[i].type = "Added" /\ r = NoReport
                              \/ log[i].type = "Modified" /\ r # NoReport
                           THEN new ELSE r
          OBVIOUS
        <4>2. store'[j] = s
          BY <1>8, <3>2, <3>4, <4>1, TrackTypes
        <4>3. \A x \in a + 1 .. i - 1 : log[x].key # j
          BY <1>4, <1>5, <3>4
        <4>4. ModifiedIn(log)
          BY <1>3, TrackFacts
        <4>5. StoredFrom(log, s, j, i) /\ Fits(log, s, j, i)
          BY <1>4, <1>5, <1>7, <3>3, <3>4, <4>1, <4>3, <4>4, NextFits
        <4> QED
          BY <1>0, <1>3, <3>1, <4>2, <4>5
      <3>5. CASE j # k
        <4>1. store'[j] = r
          BY <1>8, <3>2, <3>5, TrackTypes
        <4>2. ChangesIn(log, j, i) = ChangesIn(log, j, a)
          <5>1. \A x \in a + 1 .. i : log[x].key # j
            BY <1>4, <1>5, <2>2, <3>5
          <5> QED
            BY <1>5, <5>1 DEF ChangesIn
        <4>3. ClusterIn(log, j, i) = ClusterIn(log, j, a)
          BY <4>2 DEF ClusterIn
        <4>4. /\ StoredFrom(log, r, j, i)
              /\ j \notin Annotated => Fits(log, r, j, i)
          BY <3>3, <4>2, <4>3 DEF StoredFrom, Fits
        <4> QED
          BY <1>0, <1>3, <3>1, <4>1, <4>4
      <3> QED
        BY <3>4, <3>5, <3>6
    <2> QED
      BY <2>1, <2>2
  <1> QED
    BY <1>0, <1>10, <1>11, <1>12, TrackFacts, TrackNext

LEMMA TrackInvStep ==
  ASSUME ~Faults, Basics, TrackInv, [Next]_vars
  PROVE  TrackInv'
  <1>1. CASE Start \/ Migrate \/ Crash
    BY <1>1, StartTrack, ListTrack, CopyTrack, FollowTrack, ServeTrack DEF Migrate
  <1>2. ASSUME NEW kind \in AllKinds, FollowerNext(kind) \/ Reconnect(kind)
        PROVE  TrackInv'
    BY <1>2, FollowNextTrack, FollowerTrack DEF FollowerNext
  <1>3. ASSUME NEW k \in Keys, ClusterWrite(k) \/ ApiWrite(k) \/ ApiDelete(k)
        PROVE  TrackInv'
    BY <1>3, ClusterWriteTrack, ApiTrack
  <1>4. ASSUME NEW g \in Groups, TakeOver(g)
        PROVE  TrackInv'
    BY <1>4, TakeOverTrack DEF TakeOver
  <1>5. CASE UNCHANGED vars
    BY <1>5, TakeOverTrack DEF vars
  <1> QED
    BY <1>1, <1>2, <1>3, <1>4, <1>5 DEF Next

LEMMA TrackInit == Init => TrackInv
  <1> SUFFICES ASSUME Init PROVE TrackInv
    OBVIOUS
  <1>1. /\ clog = <<>> /\ proc.pc = "down" /\ \A k \in Keys : store[k] = NoReport
        /\ \A kind \in AllKinds : follower[kind].st = "off"
    BY DEF Init, NoProc, NoFollowers, NoFollower
  <1>2. ModifiedExists
    BY <1>1 DEF ModifiedExists
  <1>3. \A k \in Keys : ~Tracked(k)
    BY <1>1, MigrationAssumption DEF Tracked
  <1> QED
    BY <1>1, <1>2, <1>3 DEF TrackInv

\* Without store failures, and as long as a group is the cluster's, the store
\* has of every report what the follower of its kind has read last: nothing is
\* lost between the list, the copying and the watch, however the cluster's
\* changes fall between them.  Deletions are not followed, and a report that
\* comes back after one is stored only when it is modified.
THEOREM FollowersStayCurrent == ASSUME ~Faults PROVE Spec => []FollowersCurrent
  <1>1. Basics /\ TrackInv => FollowersCurrent
    <2> SUFFICES ASSUME Basics, TrackInv, NEW k \in Keys \ Annotated, NEW n, n = follower[KindOf[k]].at,
                        follower[KindOf[k]].st = "cluster", ~Served(KindOf[k]),
                        NEW i, i = Max(ChangesOf(k, n)), ChangesOf(k, n) # {},
                        \/ clog[i].type = "Modified"
                        \/ clog[i].type = "Added" /\ Cardinality(ChangesOf(k, n)) = 1
                 PROVE  store[k] # NoReport /\ store[k].rv = ClusterAt(k, n)
      BY DEF FollowersCurrent
    <2>1. Seen(KindOf[k]) = n /\ Tracked(k)
      BY DEF Seen, Tracked
    <2>2. Agrees(k, n)
      BY <2>1 DEF TrackInv
    <2>3. ClusterAt(k, n) = i + 1 /\ i \in Nat
      <3>1. n \in Int
        BY TrackTypes DEF Followers
      <3> QED
        BY <3>1, LastChange DEF ClusterAt
    <2>4. store[k].rv = ClusterAt(k, n)
      BY <2>2 DEF Agrees
    <2> QED
      BY <2>2, <2>3, <2>4 DEF Agrees
  <1>2. Spec => []Basics
    BY Typing, PTL DEF Basics
  <1>3. Basics /\ TrackInv /\ [Next]_vars => TrackInv'
    BY TrackInvStep
  <1> QED
    BY <1>1, <1>2, <1>3, TrackInit, PTL DEF Spec


-----------------------------------------------------------------------------
(* A start goes forward, and so do the followers *)

\* A step of the migration leads nearer to its end.
LEMMA MigrateNearer ==
  ASSUME Basics, Migrate
  PROVE  Nearer
  <1>0. proc \in Procs /\ proc.i \in 1..4 /\ proc.todo \in SUBSET Keys
    BY TypeFacts DEF Basics
  <1>1. CASE List
    <2>1. proc.pc = "list"
      BY <1>1 DEF List
    <2>2. proc'.pc = "up" \/ (proc'.pc = "copy" /\ proc'.i = proc.i)
      BY <1>0, <1>1 DEF List, Procs
    <2> QED
      BY <2>1, <2>2 DEF Nearer
  <1>2. CASE Copy
    <2>1. PICK k \in proc.todo : \/ proc' = [proc EXCEPT !.todo = Copied(k)]
                                 \/ proc' = [proc EXCEPT !.pc = "failed"]
      BY <1>2 DEF Copy
    <2>2. proc.pc = "copy"
      BY <1>2 DEF Copy
    <2>3. CASE proc' = [proc EXCEPT !.todo = Copied(k)]
      <3>1. proc'.pc = "copy" /\ proc'.i = proc.i /\ proc'.todo = proc.todo \ {k}
        BY <1>0, <2>2, <2>3 DEF Copied, Procs
      <3> QED
        BY <2>2, <3>1 DEF Nearer
    <2>4. CASE proc' = [proc EXCEPT !.pc = "failed"]
      BY <1>0, <2>4 DEF Nearer, Procs
    <2> QED
      BY <2>1, <2>3, <2>4
  <1>3. CASE Follow
    <2>1. proc.pc = "copy"
      BY <1>3 DEF Follow
    <2>2. \/ proc'.pc = "reserve"
          \/ proc'.pc = "list" /\ proc'.i = proc.i + 1
      BY <1>0, <1>3 DEF Follow, Procs
    <2> QED
      BY <2>1, <2>2 DEF Nearer
  <1>4. CASE Serve
    <2>1. proc'.pc = "up"
      BY <1>0, <1>4 DEF Serve, Procs
    <2> QED
      BY <2>1 DEF Nearer
  <1> QED
    BY <1>1, <1>2, <1>3, <1>4 DEF Migrate

\* Whatever the cluster, the followers and the requests do, every step of a
\* start uses up something of which there is only so much.
THEOREM ForwardOnly == Spec => StartsGoForward
  <1> DEFINE Forward == /\ Migrate => Nearer
                        /\ ~Migrate => Start \/ Crash \/ UNCHANGED proc
  <1>1. Basics /\ [Next]_vars => [Forward]_vars
    <2> SUFFICES ASSUME Basics, Next PROVE Forward
      OBVIOUS
    <2>1. CASE Migrate
      BY <2>1, MigrateNearer
    <2>2. CASE ~Migrate
      BY <2>2 DEF Next, FollowerNext, FollowNext, FollowAnnotated, FollowOwn, Reconnect,
         ClusterWrite, ApiWrite, ApiDelete, TakeOver
    <2> QED
      BY <2>1, <2>2
  <1>2. Spec => []Basics
    BY Typing DEF Basics
  <1> HIDE DEF Forward
  <1>3. Spec => [][Forward]_vars
    BY <1>1, <1>2, PTL DEF Spec
  <1> QED
    BY <1>3 DEF Forward, StartsGoForward

\* What a step may do to the follower of a kind.
FollowerGoesOn(kind) ==
    follower[kind].st = "cluster" /\ follower'[kind].st = "cluster" =>
      /\ follower'[kind].at >= follower[kind].at
      /\ \A i \in follower[kind].at + 1 .. follower'[kind].at - 1 : KindOf[clog[i].key] # kind

\* A follower that is left alone goes on.
LEMMA LeftAlone ==
  ASSUME Basics, NEW kind \in AllKinds, follower'[kind] = follower[kind]
  PROVE  FollowerGoesOn(kind)
  <1>1. follower[kind].at \in Nat
    BY TypeFacts DEF Basics, Followers
  <1> QED
    BY <1>1 DEF FollowerGoesOn

\* Reading the next event passes over none of the kind.
LEMMA NextGoesOn ==
  ASSUME Basics, NEW kind \in AllKinds, FollowNext(kind)
  PROVE  FollowerGoesOn(kind)
  <1>1. /\ follower[kind].st = "cluster" /\ Pending(kind) # {}
        /\ follower' = [follower EXCEPT ![kind].at = Min(Pending(kind))]
    BY DEF FollowNext
  <1>2. PICK from \in Nat : from = follower[kind].at
    BY TypeFacts DEF Basics, Followers
  <1>3. Pending(kind) \in SUBSET Nat
    BY <1>2 DEF Pending
  <1>4. PICK m \in Pending(kind) : m = Min(Pending(kind)) /\ \A x \in Pending(kind) : m <= x
    BY <1>1, <1>3, MinIn
  <1>5. m \in from + 1 .. Len(clog) /\ Len(clog) \in Nat
    BY <1>2, TypeFacts DEF Pending, Basics
  <1>6. follower'[kind].at = m
    BY <1>1, <1>4, TypeFacts DEF Basics, Followers
  <1>7. ASSUME NEW i \in from + 1 .. m - 1
        PROVE  KindOf[clog[i].key] # kind
    <2>1. i \in from + 1 .. Len(clog) /\ ~(m <= i)
      BY <1>5
    <2>2. i \notin Pending(kind)
      BY <1>4, <2>1
    <2> QED
      BY <1>2, <2>1, <2>2 DEF Pending
  <1> QED
    BY <1>2, <1>5, <1>6, <1>7 DEF FollowerGoesOn

\* For any changes of the cluster, lives of the server and answers of the
\* store, a follower passes no change of its kind over.
THEOREM ChangesInOrder == Spec => NoneSkipped
  <1> DEFINE GoOn == \A kind \in AllKinds : FollowerGoesOn(kind)
  <1>1. Basics /\ [Next]_vars => [GoOn]_vars
    <2> SUFFICES ASSUME Basics, Next, NEW kind \in AllKinds PROVE FollowerGoesOn(kind)
      OBVIOUS
    <2>0. follower \in Followers
      BY TypeFacts DEF Basics
    <2>1. CASE UNCHANGED follower
      BY <2>1, LeftAlone
    <2>2. CASE follower' = NoFollowers
      BY <2>2 DEF NoFollowers, NoFollower, FollowerGoesOn
    <2>3. CASE Follow
      <3>1. CASE kind = Kind
        <4>1. follower[kind].st # "cluster"
          BY <2>3, <3>1, TrackTypes DEF Follow
        <4> QED
          BY <4>1 DEF FollowerGoesOn
      <3>2. CASE kind # Kind
        BY <2>0, <2>3, <3>2, LeftAlone DEF Follow, Followers
      <3> QED
        BY <3>1, <3>2
    <2>4. ASSUME NEW other \in AllKinds, FollowNext(other) PROVE FollowerGoesOn(kind)
      <3>1. CASE kind = other
        BY <2>4, <3>1, NextGoesOn
      <3>2. CASE kind # other
        BY <2>0, <2>4, <3>2, LeftAlone DEF FollowNext, Followers
      <3> QED
        BY <3>1, <3>2
    <2>5. ASSUME NEW other \in AllKinds,
                 FollowAnnotated(other) \/ FollowOwn(other) \/ Reconnect(other)
          PROVE  FollowerGoesOn(kind)
      <3>1. CASE kind = other
        <4>1. follower'[kind].st # "cluster"
          BY <2>0, <2>5, <3>1 DEF FollowAnnotated, FollowOwn, Reconnect, Followers, NoFollower
        <4> QED
          BY <4>1 DEF FollowerGoesOn
      <3>2. CASE kind # other
        BY <2>0, <2>5, <3>2, LeftAlone DEF FollowAnnotated, FollowOwn, Reconnect, Followers
      <3> QED
        BY <3>1, <3>2
    <2>6. CASE Migrate
      BY <2>1, <2>2, <2>3, <2>6 DEF Migrate, List, Copy, Serve
    <2> QED
      BY <2>1, <2>2, <2>4, <2>5, <2>6 DEF Next, FollowerNext, Start, Crash, ClusterWrite, ApiWrite,
         ApiDelete, TakeOver
  <1>2. Spec => []Basics
    BY Typing DEF Basics
  <1> HIDE DEF GoOn
  <1>3. Spec => [][GoOn]_vars
    BY <1>1, <1>2, PTL DEF Spec
  <1> QED
    BY <1>3 DEF GoOn, FollowerGoesOn, NoneSkipped

=============================================================================
