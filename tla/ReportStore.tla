---------------------------- MODULE ReportStore -----------------------------
(***************************************************************************)
(* What the REST storages rely on a backend for (pkg/storage/api): each    *)
(* call of Get, List, Create, Update or Delete takes effect at one moment  *)
(* between its start and its return, creates only what is absent, updates  *)
(* and deletes only what is present, and may instead fail, in which case   *)
(* the caller does not know whether it took effect.  The backends disagree *)
(* on an update of what is absent: it is refused, or succeeds and does     *)
(* nothing.                                                                *)
(***************************************************************************)
CONSTANTS
    Callers,        \* goroutines that call the store, one call at a time each
    Keys,           \* namespace and name of a report of one kind
    NsOf,           \* the namespace of a key
    AllNamespaces,  \* the empty namespace, with which List lists all
    Reports,        \* the reports
    NoReport,       \* "there is no report"
    StrictUpdate,   \* TRUE: an update of what is absent is refused
    Faults          \* TRUE: the database may fail a call

Namespaces == {NsOf[k] : k \in Keys} \cup {AllNamespaces}
MaybeReports == Reports \cup {NoReport}
SomeKey == CHOOSE k \in Keys : TRUE

\* The arguments of a call; those its method does not have are fixed.
Args ==
    [op : {"Create", "Update"}, key : Keys, ns : {AllNamespaces}, obj : Reports]
    \cup [op : {"Get", "Delete"}, key : Keys, ns : {AllNamespaces}, obj : {NoReport}]
    \cup [op : {"List"}, key : {SomeKey}, ns : Namespaces, obj : {NoReport}]
Errors == {"none", "NotFound", "AlreadyExists", "unavailable"}
Results == [err : Errors, found : [Keys -> MaybeReports]]

VARIABLES
    db,     \* the reports, by key
    call    \* each caller's call: where it is, its arguments, its result

vars == <<db, call>>

Nothing == [k \in Keys |-> NoReport]
Fails(err) == [err |-> err, found |-> Nothing]
NoArgs == [op |-> "Get", key |-> SomeKey, ns |-> AllNamespaces, obj |-> NoReport]
NoCall == [st |-> "idle", args |-> NoArgs, res |-> Fails("none")]

\* What a call with arguments a does to a database d.
Succeeds(d, a) ==
    CASE a.op = "Create" -> d[a.key] = NoReport
      [] a.op = "List"   -> TRUE
      [] a.op = "Update" -> StrictUpdate => d[a.key] # NoReport
      [] OTHER           -> d[a.key] # NoReport
Refusal(a) == IF a.op = "Create" THEN "AlreadyExists" ELSE "NotFound"
After(d, a) ==
    CASE a.op = "Create" -> [d EXCEPT ![a.key] = a.obj]
      [] a.op = "Update" -> IF d[a.key] = NoReport THEN d ELSE [d EXCEPT ![a.key] = a.obj]
      [] a.op = "Delete" -> [d EXCEPT ![a.key] = NoReport]
      [] OTHER           -> d
Selected(a) ==
    CASE a.op = "Get"  -> {a.key}
      [] a.op = "List" -> {k \in Keys : a.ns \in {AllNamespaces, NsOf[k]}}
      [] OTHER         -> {}
Found(d, a) == [k \in Keys |-> IF k \in Selected(a) THEN d[k] ELSE NoReport]

-----------------------------------------------------------------------------
Init ==
    /\ db \in [Keys -> MaybeReports]
    /\ call = [c \in Callers |-> NoCall]

Invoke(c, a) ==
    /\ call[c].st = "idle"
    /\ call' = [call EXCEPT ![c] = [st |-> "called", args |-> a, res |-> Fails("none")]]
    /\ UNCHANGED db

Finish(c, result) ==
    call' = [call EXCEPT ![c] = [st |-> "done", args |-> @.args, res |-> result]]

Perform(c) ==
    /\ call[c].st = "called"
    /\ LET a == call[c].args
       IN \/ /\ Succeeds(db, a)
             /\ db' = After(db, a)
             /\ Finish(c, [err |-> "none", found |-> Found(db, a)])
          \/ /\ ~Succeeds(db, a)
             /\ UNCHANGED db
             /\ Finish(c, Fails(Refusal(a)))
          \/ /\ Faults
             /\ db' = db \/ (Succeeds(db, a) /\ db' = After(db, a))
             /\ Finish(c, Fails("unavailable"))

Reply(c) ==
    /\ call[c].st = "done"
    /\ call' = [call EXCEPT ![c] = NoCall]
    /\ UNCHANGED db

Next == \E c \in Callers : (\E a \in Args : Invoke(c, a)) \/ Perform(c) \/ Reply(c)

Spec == Init /\ [][Next]_vars

=============================================================================
