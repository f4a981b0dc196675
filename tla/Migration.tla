----------------------------- MODULE Migration ------------------------------
(***************************************************************************)
(* The start of a server and its migration (pkg/server/config.go, Complete *)
(* and migration): kind by kind the reports that the cluster's own API     *)
(* server holds are listed, copied to the store and from then on followed  *)
(* by a goroutine that writes their changes to the store.  At some moment  *)
(* the API service of a group is installed: the group's requests, those of *)
(* the migration too, then reach the reports server, not the cluster.      *)
(*                                                                         *)
(* There is one server process at a time.  A report is the version it      *)
(* carries and where it came from; the store's operations are atomic       *)
(* (EtcdStore; PostgresStore with one server and no replicas).             *)
(***************************************************************************)
EXTENDS Versioning, Integers, Sequences, FiniteSetsExt

CONSTANTS
    Keys,           \* the identities of reports: a kind, a namespace, a name
    KindOf,         \* the kind of a key
    Annotated,      \* those that carry the served-by annotation in the cluster
    NoReport,       \* "there is no report"
    Faults,         \* TRUE: a store call may fail, with or without effect
    ListsFail,      \* TRUE: the list of a kind may fail (a kind is not there)
    Crashes,        \* TRUE: the process may die at any moment
    Compacts,       \* TRUE: a watch may be too old to be resumed
    Reserve,        \* versions left for the followers (9999 in the code)
    MaxEvents,      \* bound on the changes of the cluster's reports
    MaxVersion      \* bound on the versions that API requests get

Kinds == <<"cpolr", "polr", "cephr", "ephr">>   \* in the order of migration
AllKinds == {Kinds[i] : i \in 1..4}
GroupOf == [kind \in AllKinds |-> IF kind \in {"cpolr", "polr"} THEN "wgpolicyk8s.io"
                                                                ELSE "reports.kyverno.io"]
Groups == {"wgpolicyk8s.io", "reports.kyverno.io"}
KeysOf(kind) == {k \in Keys : KindOf[k] = kind}

ASSUME MigrationAssumption ==
    /\ KindOf \in [Keys -> AllKinds]
    /\ Annotated \subseteq Keys
    /\ {Faults, ListsFail, Crashes, Compacts} \subseteq BOOLEAN
    /\ Reserve \in Nat \ {0}
    /\ MaxEvents \in Nat /\ MaxVersion \in Nat

Reports == [rv : Nat, by : {"list", "watch", "api"}]
ASSUME NoReportAssumption == NoReport \notin Reports

VARIABLES
    clog,       \* the changes of the reports in the cluster's API server
    taken,      \* the groups whose API service is installed
    store,      \* the reports in the server's database
    version,    \* the resource-version counter of the process
    proc,       \* where the start is, and its locals
    follower    \* the goroutine that follows each kind

vars == <<clog, taken, store, version, proc, follower>>

-----------------------------------------------------------------------------
(* The cluster's API server *)

\* Its revision, which is the version of the report of the last change.
Revision == Len(clog) + 1

\* The changes of key k among the first n.
ChangesOf(k, n) == {i \in 1..n : clog[i].key = k}

\* The version of the report under key k after the first n changes, or 0.
ClusterAt(k, n) ==
    IF ChangesOf(k, n) = {} THEN 0
    ELSE LET i == Max(ChangesOf(k, n)) IN IF clog[i].type = "Deleted" THEN 0 ELSE i + 1

Served(kind) == GroupOf[kind] \in taken

\* Somebody changes a report while the cluster's API server is in charge.
ClusterWrite(k) ==
    /\ ~Served(KindOf[k]) /\ Len(clog) < MaxEvents
    /\ \E type \in IF ClusterAt(k, Len(clog)) = 0 THEN {"Added"}
                                                         ELSE {"Modified", "Deleted"} :
         clog' = Append(clog, [key |-> k, type |-> type])
    /\ UNCHANGED <<taken, store, version, proc, follower>>

\* The API service of a group is installed.
TakeOver(g) ==
    /\ g \notin taken
    /\ taken' = taken \cup {g}
    /\ UNCHANGED <<clog, store, version, proc, follower>>

-----------------------------------------------------------------------------
(* The start *)

\* The locals of a start: the kind it is at (an index of Kinds), the reports of
\* the list still to be copied, the list's version and that of the cluster
\* policy reports' list.  Ghosts: the keys stored and the revision when it
\* began, whether it went through, the counter when it began to serve.
NoProc == [pc |-> "down", i |-> 1, todo |-> {}, lrv |-> 1, crv |-> 1,
           old |-> {}, since |-> 1, complete |-> FALSE, base |-> 1]
NoFollower == [st |-> "off", at |-> 0]
NoFollowers == [kind \in AllKinds |-> NoFollower]

Kind == Kinds[proc.i]

\* A new process; what is in the database stays.
Start ==
    /\ proc.pc \in {"down", "failed"}
    /\ proc' = [NoProc EXCEPT !.pc = "list", !.since = Revision,
                              !.old = {k \in Keys : store[k] # NoReport}]
    /\ version' = NewVersioning
    /\ UNCHANGED <<clog, taken, store, follower>>

\* The list of a kind, from the cluster, of which annotated reports are skipped,
\* or, once the API service is there, from a reports server: then all it shows
\* is annotated and skipped.
\* No list ends the migration, without an error.
List ==
    /\ proc.pc = "list"
    /\ \/ /\ ~Served(Kind)
          /\ proc' = [proc EXCEPT
               !.pc = "copy", !.lrv = Revision, !.crv = IF Kind = "cpolr" THEN Revision ELSE @,
               !.todo = {k \in KeysOf(Kind) \ Annotated : ClusterAt(k, Len(clog)) # 0}]
       \/ /\ Served(Kind)
          /\ LET rv == Max({1} \cup {store[k].rv : k \in {j \in KeysOf(Kind) : store[j] # NoReport}})
             IN proc' = [proc EXCEPT !.pc = "copy", !.lrv = rv,
                                     !.crv = IF Kind = "cpolr" THEN rv ELSE @]
       \/ /\ Served(Kind) \/ ListsFail
          /\ proc' = [proc EXCEPT !.pc = "up", !.base = version]
    /\ UNCHANGED <<clog, taken, store, version, follower>>

\* Mutant of Copied: the loop does not get on to the next item.
CopiedNone(k) == proc.todo

\* What is left to copy after k.
Copied(k) == proc.todo \ {k}

\* Mutant of Copy: it waits for a report that is there to go away.
CopyWaits ==
    /\ proc.pc = "copy"
    /\ \E k \in proc.todo :
         /\ store[k] = NoReport
         /\ store' = [store EXCEPT ![k] = [rv |-> ClusterAt(k, proc.lrv - 1), by |-> "list"]]
         /\ proc' = [proc EXCEPT !.todo = Copied(k)]
    /\ UNCHANGED <<clog, taken, version, follower>>

\* The next listed report is created in the store; any error ends the start,
\* and the process.
Copy ==
    /\ proc.pc = "copy"
    /\ \E k \in proc.todo :
         LET created == [store EXCEPT ![k] = [rv |-> ClusterAt(k, proc.lrv - 1), by |-> "list"]]
             fails == proc' = [proc EXCEPT !.pc = "failed"] /\ follower' = NoFollowers
         IN \/ /\ store[k] = NoReport
               /\ store' = created
               /\ \/ proc' = [proc EXCEPT !.todo = Copied(k)] /\ UNCHANGED follower
                  \/ Faults /\ fails
            \/ /\ store[k] # NoReport \/ Faults
               /\ UNCHANGED store
               /\ fails
    /\ UNCHANGED <<clog, taken, version>>

\* Mutant of WatchFrom: the watch begins with what is new when it begins.
WatchFromNow == Len(clog)

\* The change after which the watch begins: that of the list.
WatchFrom == proc.lrv - 1

\* A kind is copied: the counter moves up to the list's version (for policy
\* reports: to that of the cluster policy reports' list) and the goroutine
\* is started.
Follow ==
    /\ proc.pc = "copy" /\ proc.todo = {}
    /\ version' = SetResourceVersion(version, IF Kind = "polr" THEN proc.crv ELSE proc.lrv)
    /\ follower' = [follower EXCEPT ![Kind] =
                      IF Served(Kind) THEN [st |-> "own", at |-> 0]
                                      ELSE [st |-> "cluster", at |-> WatchFrom]]
    /\ proc' = IF proc.i = 4 THEN [proc EXCEPT !.pc = "reserve"]
                             ELSE [proc EXCEPT !.pc = "list", !.i = @ + 1]
    /\ UNCHANGED <<clog, taken, store>>

\* Mutant of Reserved: no versions are left for the followers.
ReservedNone(v) == UseResourceVersion(v)

\* The counter after the last lines of migration.
Reserved(v) == SetResourceVersion(UseResourceVersion(v), v + Reserve)

\* Versions are set aside, the API is installed and serves.
Serve ==
    /\ proc.pc = "reserve"
    /\ version' = Reserved(version)
    /\ proc' = [proc EXCEPT !.pc = "up", !.complete = TRUE, !.base = version']
    /\ UNCHANGED <<clog, taken, store, follower>>

Crash ==
    /\ Crashes /\ proc.pc \notin {"down", "failed"}
    /\ proc' = NoProc
    /\ follower' = NoFollowers
    /\ UNCHANGED <<clog, taken, store, version>>

-----------------------------------------------------------------------------
(* The followers, and the requests that the server serves beside them *)

\* The changes that the watch of a kind has still to deliver.
Pending(kind) == {i \in follower[kind].at + 1 .. Len(clog) : KindOf[clog[i].key] = kind}

\* The goroutine looks for the annotation in what is added or modified.
SaysServed(i) == clog[i].key \in Annotated /\ clog[i].type # "Deleted"

\* What the follower makes of a change of key k: Added creates, Modified
\* updates, Deleted is ignored; the store's refusal is only logged.
Applied(i) ==
    LET k == clog[i].key
    IN IF \/ clog[i].type = "Added" /\ store[k] = NoReport
          \/ clog[i].type = "Modified" /\ store[k] # NoReport
       THEN [store EXCEPT ![k] = [rv |-> i + 1, by |-> "watch"]]
       ELSE store

\* Mutant of FollowNext: a call to the store that fails ends the goroutine.
FollowUntilError(kind) ==
    /\ follower[kind].st = "cluster" /\ Pending(kind) # {}
    /\ LET i == Min(Pending(kind))
       IN /\ ~SaysServed(i)
          /\ \/ store' = Applied(i) /\ follower' = [follower EXCEPT ![kind].at = i]
             \/ /\ Faults /\ UNCHANGED store
                /\ follower' = [follower EXCEPT ![kind] = [st |-> "returned", at |-> i]]
    /\ UNCHANGED <<clog, taken, version, proc>>

\* The goroutine of a kind reads its next event.
FollowNext(kind) ==
    /\ follower[kind].st = "cluster" /\ Pending(kind) # {}
    /\ LET i == Min(Pending(kind))
       IN /\ ~SaysServed(i)
          /\ store' = Applied(i) \/ (Faults /\ UNCHANGED store)
          /\ follower' = [follower EXCEPT ![kind].at = i]
    /\ UNCHANGED <<clog, taken, version, proc>>

\* ... and returns when this is of an annotated report: it reads no more.
FollowAnnotated(kind) ==
    /\ follower[kind].st = "cluster" /\ Pending(kind) # {}
    /\ LET i == Min(Pending(kind))
       IN /\ SaysServed(i)
          /\ follower' = [follower EXCEPT ![kind] = [st |-> "returned", at |-> i]]
    /\ UNCHANGED <<clog, taken, store, version, proc>>

\* The watch breaks and is resumed, from the reports server when the API
\* service is there by now (what was pending is lost); or it is too old.
Reconnect(kind) ==
    /\ follower[kind].st = "cluster"
    /\ \/ /\ Served(kind)
          /\ follower' = [follower EXCEPT ![kind].st = "own"]
       \/ /\ ~Served(kind) /\ Compacts /\ Pending(kind) # {}
          /\ follower' = [follower EXCEPT ![kind].st = "expired"]
    /\ UNCHANGED <<clog, taken, store, version, proc>>

\* What a reports server sends is annotated, and ends the goroutine.
FollowOwn(kind) ==
    /\ follower[kind].st = "own"
    /\ \E k \in KeysOf(kind) : store[k] # NoReport
    /\ follower' = [follower EXCEPT ![kind] = NoFollower]
    /\ UNCHANGED <<clog, taken, store, version, proc>>

\* A request of a served kind creates or updates a report (ReportsApi).
ApiWrite(k) ==
    /\ proc.pc = "up" /\ Served(KindOf[k]) /\ version <= MaxVersion
    /\ store' = [store EXCEPT ![k] = [rv |-> version, by |-> "api"]]
    /\ version' = UseResourceVersion(version)
    /\ UNCHANGED <<clog, taken, proc, follower>>

\* ... or deletes one.
ApiDelete(k) ==
    /\ proc.pc = "up" /\ Served(KindOf[k]) /\ store[k] # NoReport
    /\ store' = [store EXCEPT ![k] = NoReport]
    /\ UNCHANGED <<clog, taken, version, proc, follower>>

-----------------------------------------------------------------------------
Init ==
    /\ clog = <<>>
    /\ taken = {}
    /\ store = [k \in Keys |-> NoReport]
    /\ version = NewVersioning
    /\ proc = NoProc
    /\ follower = NoFollowers

Migrate == List \/ Copy \/ Follow \/ Serve
FollowerNext(kind) == FollowNext(kind) \/ FollowAnnotated(kind) \/ FollowOwn(kind)

Next ==
    \/ Start \/ Migrate \/ Crash
    \/ \E kind \in AllKinds : FollowerNext(kind) \/ Reconnect(kind)
    \/ \E k \in Keys : ClusterWrite(k) \/ ApiWrite(k) \/ ApiDelete(k)
    \/ \E g \in Groups : TakeOver(g)

Spec == Init /\ [][Next]_vars

\* The goroutine that starts the server and those that follow are scheduled,
\* lists are answered and watches deliver.  Nobody owes a write, a crash, an
\* API service or a new start.
FairSpec ==
    Spec /\ WF_vars(Migrate) /\ \A kind \in AllKinds : WF_vars(FollowerNext(kind))

-----------------------------------------------------------------------------
(* Properties *)

\* Every variable has its type.
TypeOK ==
    /\ clog \in Seq([key : Keys, type : {"Added", "Modified", "Deleted"}])
    /\ taken \in SUBSET Groups
    /\ store \in [Keys -> Reports \cup {NoReport}]
    /\ version \in Nat
    /\ proc \in [pc : {"down", "failed", "list", "copy", "reserve", "up"}, i : 1..4,
                 todo : SUBSET Keys, lrv : Nat, crv : Nat, old : SUBSET Keys,
                 since : Nat, complete : BOOLEAN, base : Nat]
    /\ follower \in [AllKinds -> [st : {"off", "cluster", "own", "expired", "returned"}, at : Nat]]

\* As long as a group is the cluster's, the store has what the follower of a
\* kind has read of the cluster, copied or followed, whatever changes between
\* the list and the watch.  Two exceptions: what the cluster deleted stays,
\* and a report that comes back after a deletion is not stored before it is
\* modified.  (No store failures.)  Reports that are annotated in the cluster
\* are not copied.
FollowersCurrent ==
    \A k \in Keys \ Annotated :
      LET f == follower[KindOf[k]]
          i == Max(ChangesOf(k, f.at))
      IN (/\ f.st = "cluster" /\ ~Served(KindOf[k])
          /\ ChangesOf(k, f.at) # {}
          /\ \/ clog[i].type = "Modified"
             \/ clog[i].type = "Added" /\ Cardinality(ChangesOf(k, f.at)) = 1)
         => store[k] # NoReport /\ store[k].rv = ClusterAt(k, f.at)

\* A version that a request got in this life of the process.
ApiVersion(rv) == rv \in proc.base .. version - 1

\* While the cluster has not made more changes than versions were set aside.
WithinReserve == Revision < proc.since + Reserve

\* Policy reports that an earlier process left: their list is served by a
\* reports server, and the counter is not moved up to its version.
Overlooked == {k \in proc.old : KindOf[k] = "polr" /\ Served("polr")}

\* When the migration went through, a report that a request writes shares its
\* version with no other stored report, copied, followed or left by an
\* earlier process, even though the followers go on beside the requests; the
\* policy reports that an earlier process left are the exception.
VersionsUnique ==
    proc.pc = "up" /\ proc.complete /\ WithinReserve =>
      \A j \in Keys, k \in Keys \ Overlooked :
        j # k /\ NoReport \notin {store[j], store[k]} /\ store[j].rv = store[k].rv
        => ~ApiVersion(store[j].rv) \/ j \in Overlooked

\* The purpose of the last line of the migration, "leave some versions for
\* resources added using watchers": what a follower adds to the store has a
\* version that no request gets.
WatchersHaveVersions ==
    proc.pc = "up" /\ WithinReserve =>
      \A j, k \in Keys :
        (/\ NoReport \notin {store[j], store[k]}
         /\ store[k].by = "watch" /\ store[k].rv > proc.since
         /\ store[j].by = "api" /\ ApiVersion(store[j].rv))
        => store[j].rv # store[k].rv

\* A start fails only when the store does, or when it finds a copy that an
\* earlier start, or its followers, left: it is never stopped by its own
\* followers or by changes of the cluster during the migration.
OnlyOldCopiesStopAStart ==
    proc.pc = "failed" => Faults \/ \E k \in proc.old : store[k].by \in {"list", "watch"}

\* A start ends: the server serves or the process exits.
StartEnds == proc.pc \in {"list", "copy", "reserve"} ~> proc.pc \in {"up", "failed", "down"}

\* The goroutine of a kind has returned at a change of an annotated report.
ReturnedAtAnnotated(kind) ==
    /\ follower[kind].st = "returned"
    /\ \E k \in Annotated : follower[kind].at \in ChangesOf(k, Len(clog))

\* A change of the cluster reaches the server: the follower of a running server
\* comes to every change of its kind, whatever the store answers to the ones
\* before it.  Three things end it before, for good, and nothing else does: the
\* API service is installed, the watch is too old to be resumed, and a report
\* that is annotated in the cluster is added or modified.
FollowersCatchUp ==
    \A kind \in AllKinds :
      follower[kind].st = "cluster" /\ Pending(kind) # {} ~>
        \/ follower[kind].st = "cluster" /\ Pending(kind) = {}
        \/ Served(kind) \/ proc.pc # "up"
        \/ follower[kind].st = "expired" \/ ReturnedAtAnnotated(kind)

-----------------------------------------------------------------------------
(* The inductive invariant behind OnlyOldCopiesStopAStart                   *)

\* What the argument needs of the types.
Shapes ==
    /\ clog \in Seq([key : Keys, type : {"Added", "Modified", "Deleted"}])
    /\ DOMAIN store = Keys
    /\ \A k \in Keys : store[k] # NoReport => store[k].by \in {"list", "watch", "api"}
    /\ DOMAIN proc = DOMAIN NoProc /\ proc.i \in 1..4
    /\ DOMAIN follower = AllKinds
    /\ \A kind \in AllKinds :
         /\ DOMAIN follower[kind] = {"st", "at"}
         /\ follower[kind].st = "cluster" => follower[kind].at \in Nat

\* Only the migration up to the current kind has started followers.
FollowersBehind ==
    /\ proc.pc \in {"down", "failed"} => \A kind \in AllKinds : follower[kind].st = "off"
    /\ proc.pc \in {"list", "copy"} => \A n \in proc.i .. 4 : follower[Kinds[n]].st = "off"

\* What requests wrote is of a group that is served, for good.
ApiServed ==
    \A k \in Keys : store[k] # NoReport /\ store[k].by = "api" => Served(KindOf[k])

\* What is still to be copied, of this kind and of the later ones.
Ahead ==
    {k \in Keys : \E n \in proc.i .. 4 :
       KindOf[k] = Kinds[n] /\ (proc.pc = "copy" /\ n = proc.i => k \in proc.todo)}

\* If it is in the store, it was there when the process began, and what is
\* about to be copied was put there by a migration.
AheadIsOld ==
    proc.pc \in {"list", "copy"} =>
      /\ \A k \in Ahead : store[k] # NoReport => k \in proc.old
      /\ proc.pc = "list" => proc.todo = {}
      /\ proc.pc = "copy" =>
           /\ proc.todo \subseteq KeysOf(Kind)
           /\ ~Served(Kind) => proc.lrv \in Nat \ {0}
           /\ \A k \in proc.todo : store[k] # NoReport => store[k].by # "api"

CopyInv ==
    /\ Shapes /\ FollowersBehind /\ ApiServed /\ AheadIsOld
    /\ OnlyOldCopiesStopAStart

-----------------------------------------------------------------------------
(* The inductive invariant behind TypeOK: there is a highest stored version *)

VersionsBounded ==
    \E b \in Nat : \A k \in Keys : store[k] # NoReport => store[k].rv <= b

TypeInv == TypeOK /\ VersionsBounded

-----------------------------------------------------------------------------
(* The inductive invariant behind VersionsUnique                            *)

\* The version that the counter moves up to when the current kind is copied.
MovesTo == IF Kind = "polr" THEN proc.crv ELSE proc.lrv

\* Setting versions aside from v on keeps requests off the version of k.
Covered(k, v) ==
    store[k].rv <= v \/ (store[k].by # "api" /\ proc.since <= v)

\* What the cluster gave is no newer than the cluster.
ClusterVersions ==
    /\ proc.since <= Revision
    /\ \A k \in Keys : store[k] # NoReport /\ store[k].by # "api" => store[k].rv <= Revision

\* The current kind's list, and that of the cluster policy reports.
ListCovers ==
    /\ (/\ proc.pc = "copy" \/ (proc.pc = "list" /\ proc.i > 1)
        /\ ~Served("cpolr"))
       => proc.since <= proc.crv
    /\ proc.pc = "copy" =>
         /\ ~Served(Kind) \/ proc.todo # {} => proc.since <= MovesTo /\ proc.lrv <= Revision
         /\ \A k \in KeysOf(Kind) \ Overlooked : store[k] # NoReport => Covered(k, MovesTo)

\* The counter, once the lists up to the current kind have moved it.
CounterCovers ==
    proc.pc \in {"list", "copy", "reserve"} =>
      /\ ~proc.complete
      /\ \A kind \in AllKinds : follower[kind].st = "cluster" => proc.since <= version
      /\ \A k \in Keys \ Overlooked :
           store[k] # NoReport /\ (\E n \in 1..4 : /\ KindOf[k] = Kinds[n]
                                                   /\ n < proc.i \/ proc.pc = "reserve")
           => Covered(k, version)

\* What requests of this life have written, and all the rest.
BaseCovers ==
    proc.pc = "up" /\ proc.complete =>
      /\ proc.base <= version
      /\ \A kind \in AllKinds : follower[kind].st = "cluster" => proc.since + Reserve <= proc.base
      /\ \A k \in Keys \ Overlooked : store[k] # NoReport =>
           \/ store[k].rv < proc.base
           \/ store[k].by # "api" /\ proc.since + Reserve <= proc.base
           \/ store[k].by = "api" /\ ApiVersion(store[k].rv)
      /\ \A j, k \in Keys \ Overlooked :
           (/\ j # k /\ NoReport \notin {store[j], store[k]}
            /\ store[j].by = "api" /\ ApiVersion(store[j].rv)
            /\ store[k].by = "api" /\ ApiVersion(store[k].rv))
           => store[j].rv # store[k].rv

VersionInv == ClusterVersions /\ ListCovers /\ CounterCovers /\ BaseCovers

-----------------------------------------------------------------------------
(* The inductive invariant behind FollowersCurrent                          *)

\* Only a report that is there is modified.
ModifiedExists ==
    \A i \in 1..Len(clog) : clog[i].type = "Modified" => ClusterAt(clog[i].key, i - 1) # 0

\* How many changes of the cluster the process has seen of a kind, through the
\* kind's watch or its list; before that, as many as there are.
Seen(kind) ==
    IF follower[kind].st = "cluster" THEN follower[kind].at
    ELSE IF proc.pc = "copy" /\ Kind = kind THEN proc.lrv - 1
    ELSE Len(clog)

\* The report has been copied if it had to, and is followed if the kind is.
Tracked(k) ==
    /\ k \notin Annotated
    /\ \/ follower[KindOf[k]].st = "cluster"
       \/ proc.pc = "copy" /\ Kind = KindOf[k] /\ k \notin proc.todo

\* The store agrees with the first n changes of the cluster, as far as
\* FollowersCurrent claims it, and has the report if the cluster had it.
Agrees(k, n) ==
    /\ ClusterAt(k, n) # 0 => store[k] # NoReport
    /\ LET i == Max(ChangesOf(k, n))
       IN (/\ ChangesOf(k, n) # {}
           /\ \/ clog[i].type = "Modified"
              \/ clog[i].type = "Added" /\ Cardinality(ChangesOf(k, n)) = 1)
          => store[k].rv = ClusterAt(k, n)

TrackInv ==
    /\ ModifiedExists
    /\ \A kind \in AllKinds : follower[kind].st = "cluster" => follower[kind].at <= Len(clog)
    /\ proc.pc = "copy" /\ ~Served(Kind) =>
         proc.lrv <= Revision /\ \A k \in proc.todo : ClusterAt(k, proc.lrv - 1) # 0
    /\ \A k \in Keys : ~Served(KindOf[k]) =>
         /\ store[k] # NoReport => store[k].rv - 1 \in ChangesOf(k, Seen(KindOf[k]))
         /\ Tracked(k) => Agrees(k, Seen(KindOf[k]))

-----------------------------------------------------------------------------
(* What makes StartEnds and FollowersCatchUp true                           *)

\* Nearer to the end of a start: over, at the next kind, at the last lines, or
\* at the same kind with its list read or one report less to copy.
Nearer ==
    \/ proc'.pc \in {"up", "failed"}
    \/ proc'.pc \in {"list", "copy"} /\ proc'.i = proc.i + 1
    \/ proc.pc = "copy" /\ proc'.pc = "reserve"
    \/ /\ proc'.i = proc.i /\ proc'.pc = "copy"
       /\ \/ proc.pc = "list"
          \/ proc.pc = "copy" /\ proc'.todo # proc.todo /\ proc'.todo \subseteq proc.todo

\* Every step of a migration brings it nearer to its end, and nothing but a
\* crash or a new start moves it otherwise: neither changes of the cluster nor
\* followers nor an API service that is installed meanwhile add to its work.
StartsGoForward ==
    [][/\ Migrate => Nearer
       /\ ~Migrate => Start \/ Crash \/ UNCHANGED proc]_vars

\* A follower reads the cluster's changes in their order and skips none of its
\* kind, whatever the store answers and however lists, API services, the other
\* followers and the requests come between.
NoneSkipped ==
    [][\A kind \in AllKinds :
         follower[kind].st = "cluster" /\ follower'[kind].st = "cluster" =>
           /\ follower'[kind].at >= follower[kind].at
           /\ \A i \in follower[kind].at + 1 .. follower'[kind].at - 1 :
                KindOf[clog[i].key] # kind]_vars

=============================================================================
