----------------------------- MODULE Broadcast ------------------------------
(***************************************************************************)
(* The broadcaster of one report kind, as the REST storages use it: each   *)
(* creates one with a queue of 1000 events per watcher that makes the      *)
(* sender wait when it is full (pkg/api/polr.go, PolicyReportStore), calls *)
(* Action after every write, and Watch or WatchWithPrefix for a watch.     *)
(* The broadcaster itself is k8s.io/apimachinery/pkg/watch, which is not   *)
(* in the repository: a bounded queue that one goroutine distributes, a    *)
(* lock that a caller keeps until its entry is in the queue or, for a      *)
(* registration or its end, has been run.                                  *)
(***************************************************************************)
EXTENDS Integers, Sequences, FiniteSets

CONSTANTS
    Handlers,       \* goroutines that call Action
    Watchers,       \* watch connections
    Nobody,         \* no holder, no watcher
    QueueLen,       \* length of the incoming queue
    ChanLen,        \* length of a watcher's channel (1000 in the code)
    MaxPrefix,      \* bound on the events that a watch begins with
    MaxEvents       \* bound on the events

ASSUME BroadcastAssumption ==
    /\ Nobody \notin Handlers \cup Watchers /\ Handlers \cap Watchers = {}
    /\ QueueLen \in Nat \ {0} /\ ChanLen \in Nat \ {0}
    /\ MaxPrefix \in Nat /\ MaxEvents \in Nat

VARIABLES
    lock,       \* who holds incomingBlock
    incoming,   \* the queue: events and functions to be run
    current,    \* the event under distribution and who has yet to get it
    acting,     \* the handlers inside Action
    watcher,    \* each watch connection
    sent        \* how many events have entered the queue; they are numbered

vars == <<lock, incoming, current, acting, watcher, sent>>

\* st: off; wants to be registered; on; stopped, but not yet unregistered.
\* since, got: ghosts, the events before the registration and those read.
NoWatcher == [st |-> "off", chan |-> <<>>, cap |-> ChanLen, prefix |-> 0, since |-> 0, got |-> <<>>]
NoEvent == [ev |-> 0, left |-> {}, at |-> Nobody]

Registered == {w \in Watchers : watcher[w].st \in {"on", "stopped"}}

Entry(type, n, w) == [type |-> type, ev |-> n, w |-> w]
Events(n, m) == [i \in 1 .. m - n |-> n + i]        \* the events n + 1 to m
Prefix(w) == [i \in 1 .. watcher[w].prefix |-> 0]   \* what was listed, all alike

-----------------------------------------------------------------------------
(* Callers *)

\* The last line of Create, Update and Delete: broadcaster.Action.
Action(h) ==
    /\ h \notin acting /\ sent + Cardinality(acting) < MaxEvents
    /\ acting' = acting \cup {h}
    /\ UNCHANGED <<lock, incoming, current, watcher, sent>>

\* Mutant of Room: the channel has its usual length, whatever is listed.
RoomForEvents(n) == ChanLen

\* The length of the channel of a watcher that begins with n events.
Room(n) == IF n + 1 > ChanLen THEN n + 1 ELSE ChanLen

\* Watch and WatchWithPrefix: a registration with what was listed.
Watch(w) ==
    /\ watcher[w].st = "off"
    /\ \E n \in 0 .. MaxPrefix :
         watcher' = [watcher EXCEPT ![w] =
                       [NoWatcher EXCEPT !.st = "wanted", !.prefix = n, !.cap = Room(n)]]
    /\ UNCHANGED <<lock, incoming, current, acting, sent>>

\* Stop, called by the watch endpoint when the client is gone: from now on
\* the distributor does not wait for this watcher.
Stop(w) ==
    /\ watcher[w].st = "on"
    /\ watcher' = [watcher EXCEPT ![w].st = "stopped"]
    /\ UNCHANGED <<lock, incoming, current, acting, sent>>

\* The client reads an event.
Receive(w) ==
    /\ watcher[w].st = "on" /\ watcher[w].chan # <<>>
    /\ watcher' = [watcher EXCEPT ![w].chan = Tail(@), ![w].got = Append(@, Head(watcher[w].chan))]
    /\ UNCHANGED <<lock, incoming, current, acting, sent>>

\* Who waits for the lock: handlers, and watchers that come or go.
Waits(x) == x \in acting \/ (x \in Watchers /\ watcher[x].st \in {"wanted", "stopped"})

\* incomingBlock.Lock()
Lock(x) ==
    /\ lock = Nobody /\ Waits(x)
    /\ lock' = x
    /\ UNCHANGED <<incoming, current, acting, watcher, sent>>

\* The holder's entry enters the queue: Action returns, a registration (or its
\* end) goes on to wait for its function to be run.
Enqueue(x) ==
    /\ lock = x /\ Len(incoming) < QueueLen
    /\ \/ /\ x \in Handlers
          /\ sent' = sent + 1
          /\ incoming' = Append(incoming, Entry("event", sent', Nobody))
          /\ acting' = acting \ {x}
          /\ lock' = Nobody
       \/ /\ x \in Watchers /\ \A i \in DOMAIN incoming : incoming[i].w # x
          /\ incoming' = Append(incoming, Entry("run", 0, x))
          /\ UNCHANGED <<sent, acting, lock>>
    /\ UNCHANGED <<current, watcher>>

-----------------------------------------------------------------------------
(* The distributing goroutine *)

Idle == current.left = {} /\ current.at = Nobody

\* The function of an entry: the watcher is registered and its channel filled
\* with the prefix, or it is forgotten.
Run(w) ==
    watcher' = [watcher EXCEPT ![w] =
                  IF @.st = "wanted"
                  THEN [@ EXCEPT !.st = "on", !.since = sent, !.chan = Prefix(w)]
                  ELSE NoWatcher]

\* The next entry of the queue is run, or is an event for all watchers that
\* are registered by now.
Take ==
    /\ Idle /\ incoming # <<>>
    /\ incoming' = Tail(incoming)
    /\ LET e == Head(incoming)
       IN IF e.type = "run"
          THEN Run(e.w) /\ lock' = Nobody /\ UNCHANGED current
          ELSE /\ current' = [ev |-> e.ev, left |-> Registered, at |-> Nobody]
               /\ UNCHANGED <<lock, watcher>>
    /\ UNCHANGED <<acting, sent>>

\* The distributor turns to the next watcher, in no particular order.
Turn ==
    /\ current.at = Nobody
    /\ \E w \in current.left :
         current' = [current EXCEPT !.left = @ \ {w}, !.at = w]
    /\ UNCHANGED <<lock, incoming, acting, watcher, sent>>

\* Mutants of Give: a full channel drops the event (DropIfChannelFull); the
\* distributor waits for a watcher that has stopped, too.
GiveOrDrop(w) ==
    /\ current.at = w
    /\ watcher' = IF Len(watcher[w].chan) < watcher[w].cap
                  THEN [watcher EXCEPT ![w].chan = Append(@, current.ev)] ELSE watcher
    /\ current' = [current EXCEPT !.at = Nobody]
    /\ UNCHANGED <<lock, incoming, acting, sent>>
GiveAlways(w) ==
    /\ current.at = w /\ Len(watcher[w].chan) < watcher[w].cap
    /\ watcher' = [watcher EXCEPT ![w].chan = Append(@, current.ev)]
    /\ current' = [current EXCEPT !.at = Nobody]
    /\ UNCHANGED <<lock, incoming, acting, sent>>

\* The event enters the watcher's channel once there is room, unless the
\* watcher has stopped (WaitIfChannelFull).
Give(w) ==
    /\ current.at = w
    /\ \/ /\ Len(watcher[w].chan) < watcher[w].cap
          /\ watcher' = [watcher EXCEPT ![w].chan = Append(@, current.ev)]
       \/ watcher[w].st = "stopped" /\ UNCHANGED watcher
    /\ current' = [current EXCEPT !.at = Nobody]
    /\ UNCHANGED <<lock, incoming, acting, sent>>

-----------------------------------------------------------------------------
Init ==
    /\ lock = Nobody
    /\ incoming = <<>>
    /\ current = NoEvent
    /\ acting = {}
    /\ watcher = [w \in Watchers |-> NoWatcher]
    /\ sent = 0

Distribute == Take \/ Turn \/ \E w \in Watchers : Give(w)

Next ==
    \/ \E h \in Handlers : Action(h)
    \/ \E w \in Watchers : Watch(w) \/ Stop(w) \/ Receive(w)
    \/ \E x \in Handlers \cup Watchers : Lock(x) \/ Enqueue(x)
    \/ Distribute

Spec == Init /\ [][Next]_vars

\* The distributor and the callers are scheduled and the mutex starves nobody;
\* a client reads what it is sent for as long as its watch is not stopped.
FairSpec ==
    /\ Spec /\ WF_vars(Distribute)
    /\ \A w \in Watchers : WF_vars(Receive(w) \/ Stop(w))
    /\ \A x \in Handlers \cup Watchers : SF_vars(Lock(x)) /\ WF_vars(Enqueue(x))

-----------------------------------------------------------------------------
(* Properties *)

\* Every variable has its type; no queue is longer than it may be.
TypeOK ==
    /\ lock \in Handlers \cup Watchers \cup {Nobody}
    /\ incoming \in Seq([type : {"event", "run"}, ev : Nat, w : Watchers \cup {Nobody}])
    /\ Len(incoming) <= QueueLen
    /\ current \in [ev : Nat, left : SUBSET Watchers, at : Watchers \cup {Nobody}]
    /\ acting \in SUBSET Handlers
    /\ watcher \in [Watchers -> [st : {"off", "wanted", "on", "stopped"}, chan : Seq(Nat),
                                 cap : Nat, prefix : Nat, since : Nat, got : Seq(Nat)]]
    /\ \A w \in Watchers : Len(watcher[w].chan) <= watcher[w].cap
    /\ sent \in Nat

\* The event on its way to a watcher.
Underway(w) == IF current.at = w \/ w \in current.left THEN <<current.ev>> ELSE <<>>

\* What a watch client has read, what is in its channel and the event on its
\* way are together the listed reports and then every event distributed since
\* the registration, each once and in the order of the Action calls, however
\* full the queues are; and the queue holds, in this order too, every event
\* sent and not yet distributed.  None is dropped, doubled or overtaken.
EventsInOrder ==
    /\ \A w \in Watchers :
         watcher[w].st = "on" =>
           watcher[w].got \o watcher[w].chan \o Underway(w)
             = Prefix(w) \o Events(watcher[w].since, current.ev)
    /\ \A i \in DOMAIN incoming : incoming[i].type = "event" => incoming[i].ev = current.ev + i
    /\ sent = current.ev + Cardinality({i \in DOMAIN incoming : incoming[i].type = "event"})

\* Every Action call returns, and so does the request that ends with it, and
\* every watch that was asked for is registered, as long as each watch client
\* reads or is stopped: a watcher that comes or goes, or stopped while its
\* channel was full, holds nobody up for ever.
CallersReturn ==
    /\ \A h \in Handlers : h \in acting ~> h \notin acting
    /\ \A w \in Watchers : watcher[w].st = "wanted" ~> watcher[w].st # "wanted"

-----------------------------------------------------------------------------
(* The inductive invariant behind TypeOK and EventsInOrder                  *)

\* The last entry of the queue is a registration, or the end of one.
RunLast == incoming # <<>> /\ incoming[Len(incoming)].type = "run"

\* The queue: events, numbered from the last one taken, and behind them at most
\* one function, that of the watcher that keeps the lock until it is run.
QueueInv ==
    /\ \A i \in 1 .. Len(incoming) :
         IF incoming[i].type = "event" THEN incoming[i].ev = current.ev + i
         ELSE i = Len(incoming) /\ incoming[i].w = lock /\ lock \in Watchers
    /\ sent = current.ev + Len(incoming) - (IF RunLast THEN 1 ELSE 0)
    /\ lock \in Watchers => watcher[lock].st \in {"wanted", "stopped"}

\* The watchers: there is room for what a watch begins with and one more.
WatcherInv ==
    /\ current.at \notin current.left
    /\ \A w \in Watchers :
         /\ watcher[w].prefix < watcher[w].cap
         /\ watcher[w].st = "wanted" => watcher[w].got = <<>>
         /\ watcher[w].st = "on" =>
              /\ watcher[w].since <= current.ev
              /\ watcher[w].got \o watcher[w].chan \o Underway(w)
                   = Prefix(w) \o Events(watcher[w].since, current.ev)

BroadcastInv == TypeOK /\ QueueInv /\ WatcherInv

-----------------------------------------------------------------------------
(* Nobody waits for ever on somebody who waits                              *)

\* Whoever an event is on its way to is registered, stopped or not.
RegisteredInv == \A w \in current.left \cup ({current.at} \ {Nobody}) : w \in Registered

\* Somebody is inside Action, comes or goes, or is to get an event.
Busy == lock # Nobody \/ (\E x \in Handlers \cup Watchers : Waits(x)) \/ incoming # <<>> \/ ~Idle

\* The server can go on by itself: the lock is free for a caller, its holder
\* can put its entry into the queue, or the distributor can take the next
\* entry, turn to the next watcher, or be done with the one it is at.
ServerCanStep ==
    \/ lock = Nobody /\ \E x \in Handlers \cup Watchers : Waits(x)
    \/ /\ lock # Nobody /\ Len(incoming) < QueueLen
       /\ lock \in Watchers => \A i \in DOMAIN incoming : incoming[i].w # lock
    \/ Idle /\ incoming # <<>>
    \/ current.at = Nobody /\ current.left # {}
    \/ \E w \in Watchers : /\ current.at = w
                           /\ Len(watcher[w].chan) < watcher[w].cap \/ watcher[w].st = "stopped"

\* A client is to read: the distributor waits for it, it has not stopped and
\* its channel holds events for it.
ClientIsToRead ==
    \E w \in Watchers : current.at = w /\ watcher[w].st = "on" /\ watcher[w].chan # <<>>

\* The lock, the queue and the full channels never hold each other up: as long
\* as anything is left to do, the server can go on, or one client that watches
\* has events to read.  A caller that waits for the distributor, a distributor
\* that waits for a watcher that waits for the lock to go, and a watcher that
\* left while its channel was full are no circle.
NeverStuck == Busy => ServerCanStep \/ ClientIsToRead

=============================================================================
