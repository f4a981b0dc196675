----------------------------- MODULE ReportsApi -----------------------------
(***************************************************************************)
(* The REST storages of the four report kinds (pkg/api/polr.go, cpolr.go,  *)
(* ephr.go, cephr.go) in one server process: the request handlers, which   *)
(* run concurrently and without a common lock, the resource-version        *)
(* counter they share, the store they write to, and the watchers they feed *)
(* through each kind's broadcaster.                                        *)
(*                                                                         *)
(* A handler is several atomic steps: between reading the store, taking a  *)
(* resource version, writing the store and broadcasting the event, any     *)
(* other handler may run.  The store's own operations are one step each    *)
(* here.  On etcd they are atomic (EtcdStore).  On Postgres the writes are *)
(* single statements, and a read, those of Watch and DeleteCollection      *)
(* included, may show an earlier state, of a replica that lags, and of its *)
(* rows only some, when the connection breaks (PostgresStore).             *)
(*                                                                         *)
(* A broadcast event reaches every registered watcher of its kind, in      *)
(* broadcast order (Broadcast), so a watcher is modelled by what a client  *)
(* that applies its stream knows.                                          *)
(* The migration goroutines of pkg/server/config.go, which also write the  *)
(* store, are not here: there are no upstream reports left to follow.      *)
(***************************************************************************)
EXTENDS Versioning, FiniteSets

CONSTANTS
    Clients,        \* goroutines that serve one request at a time
    Keys,           \* the identities of reports: a kind, a namespace, a name
    KindOf,         \* the kind of a key
    NsOf,           \* the namespace of a key (any value for cluster kinds)
    Values,         \* what a report says; label selectors tell values apart
    Watchers,       \* watch connections
    NoReport,       \* "there is no report"
    StrictUpdate,   \* TRUE: etcd, an update of a missing key fails;
                    \* FALSE: Postgres, it affects no row and succeeds
    MaxBehind,      \* bound on the earlier states that replicas may show;
                    \* 0: there are no replicas
    BrokenStreams,  \* TRUE: an answer of several rows may break off
    Faults,         \* TRUE: a store call may fail, with or without effect
    Apply,          \* TRUE: clients use server-side apply (forceAllowCreate)
    Reservations,   \* what a start may pass to SetResourceVersion
    MaxVersion      \* bound on the resource versions of one process lifetime

Kinds == {"polr", "cpolr", "ephr", "cephr"}
Reports == [rv : Nat, val : Values]
Namespaces == {NsOf[k] : k \in Keys}
AllNamespaces == "all"

ASSUME ReportsApiAssumption ==
    /\ KindOf \in [Keys -> Kinds]
    /\ Keys # {}
    /\ NoReport \notin Reports
    /\ AllNamespaces \notin Namespaces
    /\ StrictUpdate \in BOOLEAN /\ Faults \in BOOLEAN /\ Apply \in BOOLEAN
    /\ MaxBehind \in Nat /\ BrokenStreams \in BOOLEAN
    /\ StrictUpdate => MaxBehind = 0 /\ ~BrokenStreams
    /\ Reservations \subseteq Nat
    /\ MaxVersion \in Nat

VARIABLES
    store,      \* the reports in the database, by key
    behind,     \* earlier states of it that a replica shows or has to come to
    version,    \* the resource-version counter of this process
    req,        \* the local variables of each client's handler
    watch,      \* each watch connection and what its client has been told
    used,       \* ghost: resource versions this process has committed
    left,       \* ghost: what each client's DeleteCollection has listed and
                \* nobody has deleted since
    unsettled   \* ghost: keys whose events may end in the wrong order, or
                \* with an event that no write stands behind

vars == <<store, behind, version, req, watch, used, left, unsettled>>

-----------------------------------------------------------------------------
(* Requests *)

Ops == {"none", "create", "update", "delete", "deleteCollection"}
Steps == {"idle", "createStore", "updateMerge", "updateStore", "deleteStore",
          "collect", "announce"}
EventTypes == {"none", "Added", "Modified", "Deleted"}
Answers == {"none", "ok", "AlreadyExists", "Conflict", "BadRequest",
            "NotFound", "Invalid", "error", "panic"}

KeysOf(kind) == {k \in Keys : KindOf[k] = kind}

\* The locals of a handler on entry.  obj is the report the handler works
\* on, todo what DeleteCollection has still to delete.
Request(op, k, forced, dry) ==
    [pc |-> "idle", op |-> op, key |-> k, obj |-> NoReport, ev |-> "none",
     forced |-> forced, dry |-> dry, todo |-> {}, resp |-> "none"]

NoRequest == Request("none", CHOOSE k \in Keys : TRUE, FALSE, FALSE)

Idle(c) == req[c].pc = "idle"

\* A client issues a request only while the counter stays within its bound.
Issues(c) ==
    /\ Idle(c)
    /\ version + Cardinality({d \in Clients : ~Idle(d)}) < MaxVersion

\* The handler returns to its client with this answer, its locals are gone.
Return(c, answer) == req' = [req EXCEPT ![c] = [NoRequest EXCEPT !.resp = answer]]

Goto(c, r, pc) == req' = [req EXCEPT ![c] = [r EXCEPT !.pc = pc]]

\* A read goes to any replica, or to the primary when they all fail.
States == {store} \cup behind

\* What a read may find: a report, none, or an error the handlers treat alike.
Read(k) == {s[k] : s \in States} \cup (IF Faults THEN {NoReport} ELSE {})

\* allowObjectListWatch: the label selector is the only filter left in it.
allowObjectListWatch(report, selector) == report.val \in selector

\* The rows of state s that a list of this namespace ("" lists all) selects.
Rows(s, kind, ns) ==
    {k \in KeysOf(kind) : ns \in {AllNamespaces, NsOf[k]} /\ s[k] # NoReport}

\* What arrives of them: rows.Err is not asked, so the break of the connection
\* looks like their end.
Arriving(rows) == IF BrokenStreams THEN SUBSET rows ELSE {rows}

\* The sets of keys that List may return when the database shows it state s.
Listed(s, kind, ns, selector) ==
    {{k \in rows : allowObjectListWatch(s[k], selector)} :
       rows \in Arriving(Rows(s, kind, ns))}

-----------------------------------------------------------------------------
(* Writing the store *)

\* Client d has written key k and not broadcast the event yet.
Announcing(d, k) == req[d].pc = "announce" /\ req[d].key = k

\* What a watcher's client believes of the key once it has applied the event.
Effect(r) == IF r.ev = "Deleted" THEN NoReport ELSE r.obj

\* Ghost: a write settles its key when no other writer still has an event of
\* that key to broadcast, which might then come after this write's own.
SettleAfterWrite(c, k) ==
    unsettled' = IF \E d \in Clients \ {c} : Announcing(d, k)
                 THEN unsettled \cup {k} ELSE unsettled \ {k}

\* The store takes the new report (NoReport for a deletion).  The state before
\* joins those that replicas show, until they have all got past it.
Write(k, report) ==
    /\ store' = [store EXCEPT ![k] = report]
    /\ behind' \in {b \in SUBSET (behind \cup {store}) : Cardinality(b) <= MaxBehind}
    /\ used' = IF report = NoReport THEN used ELSE used \cup {report.rv}

\* Ghost: what the clients' DeleteCollections have left after this write.
LeftAfter(k, report) ==
    [d \in Clients |-> IF report = NoReport THEN left[d] \ {k} ELSE left[d]]

\* The store call succeeds and the handler goes on to broadcast the event.
Commit(c, report, ev) ==
    /\ Write(req[c].key, report)
    /\ left' = LeftAfter(req[c].key, report)
    /\ Goto(c, [req[c] EXCEPT !.ev = ev], "announce")
    /\ SettleAfterWrite(c, req[c].key)

\* The handler goes on to broadcast an event although nothing was written.
AnnounceNothing(c, ev) ==
    /\ Goto(c, [req[c] EXCEPT !.ev = ev], "announce")
    /\ unsettled' = unsettled \cup {req[c].key}
    /\ UNCHANGED <<store, behind, used, left>>

\* The store call returns an error; the client is told, nobody else is.
Fail(c, answer) ==
    /\ Return(c, answer)
    /\ left' = [left EXCEPT ![c] = {}]
    /\ UNCHANGED <<store, behind, used, unsettled>>

\* The store call returns an error although the database took the write (the
\* reply was lost): the client is told that it failed, watchers hear nothing.
FailAfterWrite(c, report, answer) ==
    /\ Faults
    /\ Write(req[c].key, report)
    /\ left' = [LeftAfter(req[c].key, report) EXCEPT ![c] = {}]
    /\ Return(c, answer)
    /\ unsettled' = unsettled \cup {req[c].key}

-----------------------------------------------------------------------------
(* Handlers *)

\* Get: one read of the store.
Get(c, kind) ==
    /\ Idle(c)
    /\ \E k \in KeysOf(kind) : \E found \in Read(k) :
         Return(c, IF found = NoReport THEN "NotFound" ELSE "ok")
    /\ UNCHANGED <<store, behind, version, watch, used, left, unsettled>>

\* List: one read of the store; a read error is answered with BadRequest, a
\* resource version that is no number with the error of parsing it.
\* What it shows is in Listed, which Watch and DeleteCollection go on to use.
List(c, kind) ==
    /\ Idle(c) /\ KeysOf(kind) # {}
    /\ \E parses \in BOOLEAN :
         \/ parses /\ Return(c, "ok")
         \/ ~parses /\ Return(c, "error")
         \/ Faults /\ Return(c, "BadRequest")
    /\ UNCHANGED <<store, behind, version, watch, used, left, unsettled>>

\* Create, up to taking the resource version.  A failed validation ends it in
\* the field-validation mode Strict, the modes Ignore and Warn go on; so does a
\* report with neither a name nor a generate name, and a dry run.
CreateBegin(c, kind, unnamed) ==
    /\ Issues(c) /\ KeysOf(kind) # {}
    /\ \/ \E answer \in {"Invalid", unnamed, "ok"} : Return(c, answer) /\ UNCHANGED version
       \/ /\ \E k \in KeysOf(kind), v \in Values :
               Goto(c, [Request("create", k, FALSE, FALSE) EXCEPT
                          !.obj = [rv |-> version, val |-> v]], "createStore")
          /\ version' = UseResourceVersion(version)
    /\ UNCHANGED <<store, behind, watch, used, left, unsettled>>

\* createPolr's store call: any error is answered with the kind's own code.
CreateStore(c, kind, exists) ==
    /\ req[c].pc = "createStore" /\ req[c].key \in KeysOf(kind)
    /\ LET k == req[c].key
       IN \/ store[k] = NoReport /\ Commit(c, req[c].obj, "Added")
          \/ (store[k] # NoReport \/ Faults) /\ Fail(c, exists)
          \/ store[k] = NoReport /\ FailAfterWrite(c, req[c].obj, exists)
    /\ UNCHANGED <<version, watch>>

\* Mutant of MissingEndsUpdate: the error of the read is not looked at.
MissingIsIgnored(old, forced) == FALSE

\* A missing (or unreadable) old report ends an update that is not forced.
MissingEndsUpdate(old, forced) == old = NoReport /\ ~forced

\* Update reads the old report; a missing one ends it unless it is forced.
UpdateBegin(c, kind) ==
    /\ Issues(c)
    /\ \E k \in KeysOf(kind), dry \in BOOLEAN,
          forced \in {FALSE} \cup (IF Apply THEN {TRUE} ELSE {}) :
       \E old \in Read(k) :
         IF MissingEndsUpdate(old, forced) THEN Return(c, "error")
         ELSE Goto(c, Request("update", k, forced, dry), "updateMerge")
    /\ UNCHANGED <<store, behind, version, watch, used, left, unsettled>>

\* Mutant of UpdateWrites: an update never looks at the dry-run flag.
DryRunIgnored(r) == TRUE

\* The update whose locals are r goes on to the store: it is forced, or it is
\* no dry run.
UpdateWrites(r) == r.forced \/ ~r.dry

\* objInfo.UpdatedObject computes the new report, or fails: a failure is an
\* error, and in a forced update a type assertion on nil.  A validation that
\* fails in the mode Strict ends the update, and so does a dry run; a forced
\* update skips the one and ignores the other.
UpdateMerge(c, kind) ==
    /\ req[c].pc = "updateMerge" /\ req[c].key \in KeysOf(kind)
    /\ LET r == req[c]
       IN \/ /\ Return(c, IF r.forced THEN "panic" ELSE "error")
             /\ UNCHANGED version
          \/ /\ ~r.forced
             /\ Return(c, "Invalid") \/ (r.dry /\ Return(c, "ok"))
             /\ UNCHANGED version
          \/ /\ UpdateWrites(r)
             /\ \E v \in Values :
                  Goto(c, [r EXCEPT !.obj = [rv |-> version, val |-> v]], "updateStore")
             /\ version' = UseResourceVersion(version)
    /\ UNCHANGED <<store, behind, watch, used, left, unsettled>>

\* Mutant of MissingRowSucceeds: etcd's Update forgets to look for the key.
MissingKeySucceeds == TRUE

\* The store answers success to an update of a report it does not have.
MissingRowSucceeds == ~StrictUpdate

\* updatePolr's store call.  A forced update goes on to broadcast whatever
\* the store answered; Postgres answers success when the row is missing.
UpdateStore(c, kind) ==
    /\ req[c].pc = "updateStore" /\ req[c].key \in KeysOf(kind)
    /\ LET r == req[c]
           found == store[r.key] # NoReport
       IN \/ found /\ Commit(c, r.obj, "Modified")
          \/ ~found /\ MissingRowSucceeds /\ AnnounceNothing(c, "Modified")
          \/ /\ (~found /\ ~MissingRowSucceeds) \/ Faults
             /\ IF r.forced THEN AnnounceNothing(c, "Modified")
                            ELSE Fail(c, "BadRequest")
          \/ found /\ ~r.forced /\ FailAfterWrite(c, r.obj, "BadRequest")
    /\ UNCHANGED <<version, watch>>

\* Mutant of DeleteRead: DeleteCollection passes over a report that Delete
\* answers NotFound for, which Delete does for every error of its read.
DeleteReadForgiving(c, r) ==
    \E old \in Read(r.key), valid \in BOOLEAN :
      CASE old = NoReport -> IF r.op = "delete" THEN Return(c, "NotFound")
                                                ELSE Goto(c, r, "collect")
        [] old # NoReport /\ ~valid -> Return(c, "BadRequest")
        [] old # NoReport /\ valid /\ r.dry -> Return(c, "ok")
        [] OTHER -> Goto(c, r, "deleteStore")

\* The part of Delete before the store call: the report must be there and
\* pass deleteValidation.
DeleteRead(c, r) ==
    \E old \in Read(r.key), valid \in BOOLEAN :
      CASE old = NoReport -> Return(c, IF r.op = "delete" THEN "NotFound"
                                          ELSE "BadRequest")
        [] old # NoReport /\ ~valid -> Return(c, "BadRequest")
        [] old # NoReport /\ valid /\ r.dry -> Return(c, "ok")
        [] OTHER -> Goto(c, r, "deleteStore")

DeleteBegin(c, kind) ==
    /\ Issues(c)
    /\ \E k \in KeysOf(kind), dry \in BOOLEAN :
         DeleteRead(c, Request("delete", k, FALSE, dry))
    /\ UNCHANGED <<store, behind, version, watch, used, left, unsettled>>

\* Mutant of DeleteStore: the event of a deletion is never broadcast.
DeleteStoreSilent(c, kind) ==
    /\ req[c].pc = "deleteStore" /\ req[c].key \in KeysOf(kind)
    /\ IF store[req[c].key] = NoReport THEN Fail(c, "BadRequest")
       ELSE /\ Write(req[c].key, NoReport)
            /\ left' = LeftAfter(req[c].key, NoReport)
            /\ Return(c, "ok")
            /\ SettleAfterWrite(c, req[c].key)
    /\ UNCHANGED <<version, watch>>

\* deletePolr's store call: it reads the report, a missing one is an error,
\* and deletes it.  Where the read is one of a replica, the report may be gone
\* by then; to delete no row succeeds.
DeleteStore(c, kind) ==
    /\ req[c].pc = "deleteStore" /\ req[c].key \in KeysOf(kind)
    /\ LET found == \E s \in States : s[req[c].key] # NoReport
           missed == \E s \in States : s[req[c].key] = NoReport
       IN \/ found /\ Commit(c, NoReport, "Deleted")
          \/ (missed \/ Faults) /\ Fail(c, "BadRequest")
          \/ found /\ FailAfterWrite(c, NoReport, "BadRequest")
    /\ UNCHANGED <<version, watch>>

\* Ghost: of what the DeleteCollection of c has listed, what is really there.
ToDelete(c, listed) ==
    left' = [left EXCEPT ![c] = {k \in listed : store[k] # NoReport}]

\* DeleteCollection lists, and then runs Delete for each listed report; it
\* stops at the first one that is not deleted.
CollectBegin(c, kind, namespaces) ==
    /\ Issues(c) /\ KeysOf(kind) # {}
    /\ \E ns \in namespaces, selector \in SUBSET Values, dry, parses \in BOOLEAN :
         LET r == Request("deleteCollection", CHOOSE k \in KeysOf(kind) : TRUE, FALSE, dry)
         IN \/ parses /\ dry /\ Return(c, "ok") /\ UNCHANGED left
            \/ /\ parses /\ ~dry
               /\ \E s \in States : \E listed \in Listed(s, kind, ns, selector) :
                    /\ Goto(c, [r EXCEPT !.todo = listed], "collect")
                    /\ ToDelete(c, listed)
            \/ (~parses \/ Faults) /\ Return(c, "BadRequest") /\ UNCHANGED left
    /\ UNCHANGED <<store, behind, version, watch, used, unsettled>>

\* The next listed report; an answer that ends the request clears its ghost.
CollectNext(c, kind) ==
    /\ req[c].pc = "collect" /\ req[c].key \in KeysOf(kind)
    /\ IF req[c].todo = {} THEN Return(c, "ok") /\ UNCHANGED left
       ELSE /\ \E k \in req[c].todo :
                 DeleteRead(c, [req[c] EXCEPT !.key = k, !.todo = @ \ {k}])
            /\ left' = IF req'[c].pc = "idle" THEN [left EXCEPT ![c] = {}] ELSE left
    /\ UNCHANGED <<store, behind, version, watch, used, unsettled>>

\* broadcaster.Action, the last step of every handler that wrote: every
\* registered watcher of the kind gets the event.  A watcher between its
\* List and its registration does not, and is blind to it unless the list
\* already showed it.  The call waits while the broadcaster's queue is full
\* (polr.go:32, WaitIfChannelFull); module Broadcast is about how long.
Announce(c, kind) ==
    /\ req[c].pc = "announce" /\ req[c].key \in KeysOf(kind)
    /\ LET r == req[c]
           told(wt) == [wt EXCEPT !.view = [@ EXCEPT ![r.key] = Effect(r)],
                                  !.blind = @ \ {r.key}]
           missed(wt) == [wt EXCEPT !.blind = IF wt.view[r.key] = Effect(r)
                                              THEN @ ELSE @ \cup {r.key}]
       IN /\ watch' = [w \in Watchers |->
                         IF watch[w].kind # kind THEN watch[w]
                         ELSE CASE watch[w].st = "on" -> told(watch[w])
                                [] watch[w].st = "listed" -> missed(watch[w])
                                [] OTHER -> watch[w]]
          /\ IF r.op = "deleteCollection"
             THEN Goto(c, [r EXCEPT !.ev = "none"], "collect")
             ELSE Return(c, "ok")
    /\ UNCHANGED <<store, behind, version, used, left, unsettled>>

-----------------------------------------------------------------------------
(* Watch *)

NoWatch == [st |-> "off", kind |-> "polr", view |-> [k \in Keys |-> NoReport],
            blind |-> {}]

\* Watch with resource version "" or "0" registers at once and replays
\* nothing; with any other it first lists what the prefix will replay (when
\* that list fails there is no watch).
WatchBegin(w, kind, namespaces) ==
    /\ watch[w].st = "off" /\ KeysOf(kind) # {}
    /\ \/ watch' = [watch EXCEPT ![w] =
                      [NoWatch EXCEPT !.st = "on", !.kind = kind, !.blind = KeysOf(kind)]]
       \/ \E ns \in namespaces, selector \in SUBSET Values, s \in States :
          \E shown \in Listed(s, kind, ns, selector) :
            watch' = [watch EXCEPT ![w] =
              [st |-> "listed", kind |-> kind,
               view |-> [k \in Keys |-> IF k \in shown THEN s[k] ELSE NoReport],
               blind |-> {k \in KeysOf(kind) :
                            \/ ns \notin {AllNamespaces, NsOf[k]}
                            \/ s[k] # store[k]
                            \/ s[k] # NoReport /\ k \notin shown}]]
    /\ UNCHANGED <<store, behind, version, req, used, left, unsettled>>

\* Mutant of WatchRegister: the listed reports are not replayed.
WatchRegisterBare(w, kind) ==
    /\ watch[w].st = "listed" /\ watch[w].kind = kind
    /\ watch' = [watch EXCEPT ![w].st = "on", ![w].view = NoWatch.view]
    /\ UNCHANGED <<store, behind, version, req, used, left, unsettled>>

\* WatchWithPrefix: the listed reports are replayed, live events follow.
WatchRegister(w, kind) ==
    /\ watch[w].st = "listed" /\ watch[w].kind = kind
    /\ watch' = [watch EXCEPT ![w].st = "on"]
    /\ UNCHANGED <<store, behind, version, req, used, left, unsettled>>

\* The client disconnects: the endpoint stops the watch.
WatchStop(w) ==
    /\ watch[w].st = "on"
    /\ watch' = [watch EXCEPT ![w] = NoWatch]
    /\ UNCHANGED <<store, behind, version, req, used, left, unsettled>>

-----------------------------------------------------------------------------
(* The four kinds.  They differ in the namespaces a list may name and in   *)
(* the answers Create gives.                                                *)

InNamespaces == Namespaces \cup {AllNamespaces}
ClusterWide == {AllNamespaces}

PolrGet(c) == Get(c, "polr")
PolrList(c) == List(c, "polr")
PolrCreate(c) == \/ CreateBegin(c, "polr", "Conflict")
                 \/ CreateStore(c, "polr", "AlreadyExists")
PolrUpdate(c) == UpdateBegin(c, "polr") \/ UpdateMerge(c, "polr") \/ UpdateStore(c, "polr")
PolrDelete(c) == DeleteBegin(c, "polr") \/ DeleteStore(c, "polr")
PolrDeleteCollection(c) == CollectBegin(c, "polr", Namespaces) \/ CollectNext(c, "polr")
PolrWatch(w) == WatchBegin(w, "polr", InNamespaces) \/ WatchRegister(w, "polr")

CpolrGet(c) == Get(c, "cpolr")
CpolrList(c) == List(c, "cpolr")
CpolrCreate(c) == \/ CreateBegin(c, "cpolr", "AlreadyExists")
                  \/ CreateStore(c, "cpolr", "BadRequest")
CpolrUpdate(c) == UpdateBegin(c, "cpolr") \/ UpdateMerge(c, "cpolr") \/ UpdateStore(c, "cpolr")
CpolrDelete(c) == DeleteBegin(c, "cpolr") \/ DeleteStore(c, "cpolr")
CpolrDeleteCollection(c) == CollectBegin(c, "cpolr", ClusterWide) \/ CollectNext(c, "cpolr")
CpolrWatch(w) == WatchBegin(w, "cpolr", ClusterWide) \/ WatchRegister(w, "cpolr")

EphrGet(c) == Get(c, "ephr")
EphrList(c) == List(c, "ephr")
EphrCreate(c) == \/ CreateBegin(c, "ephr", "Conflict")
                 \/ CreateStore(c, "ephr", "AlreadyExists")
EphrUpdate(c) == UpdateBegin(c, "ephr") \/ UpdateMerge(c, "ephr") \/ UpdateStore(c, "ephr")
EphrDelete(c) == DeleteBegin(c, "ephr") \/ DeleteStore(c, "ephr")
EphrDeleteCollection(c) == CollectBegin(c, "ephr", Namespaces) \/ CollectNext(c, "ephr")
EphrWatch(w) == WatchBegin(w, "ephr", InNamespaces) \/ WatchRegister(w, "ephr")

CephrGet(c) == Get(c, "cephr")
CephrList(c) == List(c, "cephr")
CephrCreate(c) == \/ CreateBegin(c, "cephr", "AlreadyExists")
                  \/ CreateStore(c, "cephr", "BadRequest")
CephrUpdate(c) == UpdateBegin(c, "cephr") \/ UpdateMerge(c, "cephr") \/ UpdateStore(c, "cephr")
CephrDelete(c) == DeleteBegin(c, "cephr") \/ DeleteStore(c, "cephr")
CephrDeleteCollection(c) == CollectBegin(c, "cephr", ClusterWide) \/ CollectNext(c, "cephr")
CephrWatch(w) == WatchBegin(w, "cephr", ClusterWide) \/ WatchRegister(w, "cephr")

-----------------------------------------------------------------------------
(* The process *)

\* A start ends with the counter wherever migration left it: untouched when
\* a list of the upstream reports fails, else moved by SetResourceVersion.
StartVersions == {SetResourceVersion(NewVersioning, n) : n \in Reservations}

Init ==
    /\ store = [k \in Keys |-> NoReport]
    /\ behind = {}
    /\ version \in StartVersions
    /\ req = [c \in Clients |-> NoRequest]
    /\ watch = [w \in Watchers |-> NoWatch]
    /\ used = {}
    /\ left = [c \in Clients |-> {}]
    /\ unsettled = {}

\* The process dies and is started again: handlers, watches and the counter
\* are gone, the database is not.
Restart ==
    /\ version' \in StartVersions
    /\ req' = [c \in Clients |-> NoRequest]
    /\ watch' = [w \in Watchers |-> NoWatch]
    /\ used' = {}
    /\ left' = [c \in Clients |-> {}]
    /\ unsettled' = {}
    /\ UNCHANGED <<store, behind>>

ClientNext(c) ==
    \/ PolrGet(c) \/ PolrList(c) \/ PolrCreate(c) \/ PolrUpdate(c)
    \/ PolrDelete(c) \/ PolrDeleteCollection(c)
    \/ CpolrGet(c) \/ CpolrList(c) \/ CpolrCreate(c) \/ CpolrUpdate(c)
    \/ CpolrDelete(c) \/ CpolrDeleteCollection(c)
    \/ EphrGet(c) \/ EphrList(c) \/ EphrCreate(c) \/ EphrUpdate(c)
    \/ EphrDelete(c) \/ EphrDeleteCollection(c)
    \/ CephrGet(c) \/ CephrList(c) \/ CephrCreate(c) \/ CephrUpdate(c)
    \/ CephrDelete(c) \/ CephrDeleteCollection(c)
    \/ \E kind \in Kinds : Announce(c, kind)

WatcherNext(w) ==
    PolrWatch(w) \/ CpolrWatch(w) \/ EphrWatch(w) \/ CephrWatch(w) \/ WatchStop(w)

Next ==
    \/ \E c \in Clients : ClientNext(c)
    \/ \E w \in Watchers : WatcherNext(w)
    \/ Restart

Spec == Init /\ [][Next]_vars

-----------------------------------------------------------------------------
(* Properties *)

Requests ==
    [pc : Steps, op : Ops, key : Keys, obj : Reports \cup {NoReport},
     ev : EventTypes, forced : BOOLEAN, dry : BOOLEAN, todo : SUBSET Keys,
     resp : Answers]
Watches ==
    [st : {"off", "listed", "on"}, kind : Kinds,
     view : [Keys -> Reports \cup {NoReport}], blind : SUBSET Keys]

\* Every variable has its type: in particular a handler never writes or
\* broadcasts something that is not a report.
TypeOK ==
    /\ store \in [Keys -> Reports \cup {NoReport}]
    /\ behind \in SUBSET [Keys -> Reports \cup {NoReport}]
    /\ version \in Nat
    /\ req \in [Clients -> Requests]
    /\ watch \in [Watchers -> Watches]
    /\ used \in SUBSET Nat
    /\ left \in [Clients -> SUBSET Keys]
    /\ unsettled \in SUBSET Keys

\* What a watching client knows of a key is what the database holds, once the
\* last event of the key is out (polr.go Watch, and the broadcaster.Action
\* that ends Create, Update and Delete).  The exceptions are these three:
\* the list of the watch did not show the key as it was (no list, another
\* namespace, rejected by the selector, a replica behind, a row cut off), or an
\* event was missed between List and WatchWithPrefix, and no event of the key
\* has come since (blind); the last writers of the key overlapped, so that
\* their events may have come out in the wrong order; or the last event has no
\* write, or the last write no event, to go with it (unsettled).
WatchersConverge ==
    \A w \in Watchers, k \in Keys :
      (/\ watch[w].st = "on" /\ watch[w].kind = KindOf[k]
       /\ k \notin watch[w].blind /\ k \notin unsettled
       /\ \A c \in Clients : ~Announcing(c, k))
      => watch[w].view[k] = store[k]

\* With one request at a time, on a store that does not fail and without
\* forced updates, an event is in the wrong order or without its write in one
\* case only: an update read from a replica that is behind (multiDB.go:60) a
\* report that is deleted, and the UPDATE of no row succeeds (polr.go:224).
OnlyStaleReadsUnsettle ==
    [][\A k \in unsettled' \ unsettled :
         store[k] = NoReport /\ \E s \in behind : s[k] # NoReport]_vars

\* A client is told that its DeleteCollection succeeded only when every report
\* that it listed and that was there has been deleted since (polr.go:284, the
\* loop over Delete): no other request, no read of a replica that misses a
\* report and no failing call makes it pass one over.
CollectionsWhole ==
    [][\A c \in Clients :
         (/\ ~Idle(c) /\ req[c].op = "deleteCollection"
          /\ req'[c].pc = "idle" /\ req'[c].resp = "ok") => left[c] = {}]_vars

\* No two reports that the handlers of one process write carry the same resource
\* version, of whatever kinds they are and however the handlers overlap between
\* UseResourceVersion and the store call.
FreshVersions ==
    [][\A k \in Keys :
         store'[k] # store[k] /\ store'[k] # NoReport => store'[k].rv \notin used]_vars

\* A client is told that its create succeeded only after that report was
\* written and every registered watcher of the kind was sent it; the same
\* holds of an update, unless it was forced or the store does not report
\* missing rows.
AckedWritesCommitted ==
    [][\A c \in Clients :
         LET r == req[c]
         IN (/\ ~Idle(c) /\ req'[c].pc = "idle" /\ req'[c].resp = "ok" /\ ~r.dry
             /\ \/ r.op = "create"
                \/ r.op = "update" /\ ~r.forced /\ StrictUpdate)
            => /\ r.obj # NoReport /\ r.obj.rv \in used
               /\ \A w \in Watchers : watch[w].st = "on" /\ watch[w].kind = KindOf[r.key]
                                      => watch'[w].view[r.key] = r.obj]_vars

\* A dry run never changes the store, except that a forced update does not
\* look at the flag (polr.go:186 comes before the test of isDryRun).
DryRunsWriteNothing ==
    [][\A k \in Keys : store'[k] # store[k] =>
         \E c \in Clients : /\ req[c].key = k
                            /\ req'[c] # req[c]
                            /\ ~req[c].dry \/ req[c].forced]_vars

-----------------------------------------------------------------------------
(* The inductive invariant behind WatchersConverge and FreshVersions *)

\* A handler on its way to a store write holds the resource version it took.
HoldsVersion(c) == req[c].pc \in {"createStore", "updateStore"}

\* Every version handed out lies below the counter, none is held twice, and
\* one that is held has not been written yet.
VersionsApart ==
    /\ \A n \in used : n < version
    /\ \A c \in Clients : HoldsVersion(c) =>
         req[c].obj # NoReport /\ req[c].obj.rv < version /\ req[c].obj.rv \notin used
    /\ \A c, d \in Clients : HoldsVersion(c) /\ HoldsVersion(d) /\ c # d
                               => req[c].obj.rv # req[d].obj.rv

\* An event of a settled key that is still to come says what the store holds.
EventsCurrent ==
    \A c \in Clients, k \in Keys :
      Announcing(c, k) /\ k \notin unsettled => Effect(req[c]) = store[k]

\* A watcher, listed or registered, knows a settled key it is not blind to, or
\* an event of that key is still to come.
ViewsCurrent ==
    \A w \in Watchers, k \in Keys :
      (/\ watch[w].st # "off" /\ watch[w].kind = KindOf[k]
       /\ k \notin watch[w].blind /\ k \notin unsettled)
      => watch[w].view[k] = store[k] \/ \E c \in Clients : Announcing(c, k)

Inv == TypeOK /\ VersionsApart /\ EventsCurrent /\ ViewsCurrent

\* What the locals r of a handler say at each of its steps, when these resource
\* versions are committed: only a request that may write is on its way to the
\* store, and one that is about to broadcast a create, or an update that had to
\* find its report, has written its report.
InStep(r, committed) ==
    LET written == r.obj # NoReport /\ r.obj.rv \in committed
    IN /\ r.pc = "createStore" => r.op = "create" /\ ~r.dry
       /\ r.pc = "updateMerge" => r.op = "update"
       /\ r.pc = "updateStore" => r.op = "update" /\ UpdateWrites(r)
       /\ r.pc = "deleteStore" => r.op \in {"delete", "deleteCollection"} /\ ~r.dry
       /\ r.pc = "collect" => r.op = "deleteCollection" /\ ~r.dry
       /\ r.pc = "announce" /\ r.op = "create" => r.ev = "Added" /\ written
       /\ r.pc = "announce" /\ r.op = "update" =>
            r.ev = "Modified" /\ (~r.forced /\ StrictUpdate => written)
       /\ r.pc = "announce" /\ r.op = "deleteCollection" => ~r.dry

LocalsInStep == \A c \in Clients : InStep(req[c], used)

\* Behind OnlyStaleReadsUnsettle: the report that an update has read is still
\* there, or is still shown by a replica.
UpdatesFind ==
    \A c \in Clients :
      /\ ~req[c].forced
      /\ req[c].pc \in {"updateMerge", "updateStore"} =>
           \E s \in States : s[req[c].key] # NoReport

\* What the DeleteCollection whose locals are r has still to delete.
Remaining(r) ==
    IF r.op # "deleteCollection" THEN {}
    ELSE CASE r.pc \in {"collect", "announce"} -> r.todo
           [] r.pc = "deleteStore" -> r.todo \cup {r.key}
           [] OTHER -> {}

\* Behind CollectionsWhole: what a DeleteCollection has left is still on its
\* list, or is the report that it is at.
LeftListed == \A c \in Clients : left[c] \subseteq Remaining(req[c])

-----------------------------------------------------------------------------
(* Progress                                                                *)

\* How far a handler is with one report.
Rank == [createStore |-> 1, updateMerge |-> 1, deleteStore |-> 1, updateStore |-> 2,
         announce |-> 3, collect |-> 4]

\* From locals r to locals s: the handler is done, has one listed report less
\* to delete, or is further with the one it is at.
Onwards(r, s) ==
    \/ s.pc = "idle"
    \/ s.todo # r.todo /\ s.todo \subseteq r.todo
    \/ s.todo = r.todo /\ r.pc # "idle" /\ s.pc # "idle" /\ Rank[s.pc] > Rank[r.pc]

\* Every step of a request that has been issued brings its answer nearer, and
\* no other request can set it back: DeleteCollection works through the list
\* it began with, whatever is created, deleted or fails under it.  Whether the
\* step comes is up to the store call and to broadcaster.Action.
RequestsGoForward ==
    [][\A c \in Clients : ~Idle(c) /\ req'[c] # req[c] => Onwards(req[c], req'[c])]_vars

=============================================================================
