-------------------------- MODULE BroadcastProofs ---------------------------
(***************************************************************************)
(* Proofs about Broadcast, for any handlers, watchers, lengths of queues   *)
(* and numbers of events: no queue overflows, and every watch client gets  *)
(* what was listed and then every event since, once and in order; and      *)
(* nobody waits for somebody who waits.                                    *)
(***************************************************************************)
EXTENDS Broadcast, SequenceTheorems, FiniteSetTheorems, TLAPS

-----------------------------------------------------------------------------
(* Sequences of events *)

\* What was listed, and the events from n to m, are sequences.
LEMMA EventsType ==
  ASSUME NEW n \in Nat, NEW m \in Nat, n <= m
  PROVE  Events(n, m) \in Seq(Nat) /\ Len(Events(n, m)) = m - n
  BY DEF Events

\* A sequence of one number.
LEMMA OneNumber ==
  ASSUME NEW e \in Nat
  PROVE  <<e>> \in Seq(Nat) /\ Len(<<e>>) = 1 /\ <<e>>[1] = e
  OBVIOUS

\* The parts of two sequences, one behind the other.
LEMMA Joined ==
  ASSUME NEW s \in Seq(Nat), NEW t \in Seq(Nat)
  PROVE  /\ s \o t \in Seq(Nat) /\ Len(s \o t) = Len(s) + Len(t)
         /\ Len(s) \in Nat /\ Len(t) \in Nat
         /\ \A i \in 1 .. Len(s) + Len(t) :
              (s \o t)[i] = IF i <= Len(s) THEN s[i] ELSE t[i - Len(s)]
  BY ConcatProperties

\* A sequence, and nothing behind or before it.
LEMMA Alone ==
  ASSUME NEW s \in Seq(Nat)
  PROVE  s \o <<>> = s /\ <<>> \o s = s
  BY ConcatEmptySeq

\* What a watch begins with.
LEMMA Listed ==
  ASSUME NEW n \in Nat
  PROVE  [i \in 1 .. n |-> 0] \in Seq(Nat) /\ Len([i \in 1 .. n |-> 0]) = n
  OBVIOUS

\* No event comes between an event and itself.
LEMMA NoneBetween ==
  ASSUME NEW n \in Nat
  PROVE  Events(n, n) = <<>>
  <1>1. n <= n
    OBVIOUS
  <1>2. PICK s \in Seq(Nat) : s = Events(n, n) /\ Len(s) = n - n
    BY <1>1, EventsType
  <1>3. Len(s) = 0
    BY <1>2
  <1> QED
    BY <1>2, <1>3, EmptySeq

\* One more event in a channel.
LEMMA Appended ==
  ASSUME NEW s \in Seq(Nat), NEW e \in Nat
  PROVE  Append(s, e) \in Seq(Nat) /\ Len(Append(s, e)) = Len(s) + 1 /\ Len(s) \in Nat
  OBVIOUS

\* Three sequences, one behind the other.
LEMMA Together ==
  ASSUME NEW s \in Seq(Nat), NEW t \in Seq(Nat), NEW u \in Seq(Nat)
  PROVE  (s \o t) \o u = s \o (t \o u)
  BY SMTT(60)

\* One more event comes behind the others.
LEMMA NextEvent ==
  ASSUME NEW p \in Seq(Nat), NEW n \in Nat, NEW m \in Nat, n <= m, NEW e \in Nat, e = m + 1
  PROVE  p \o Events(n, e) = (p \o Events(n, m)) \o <<e>>
  <1>0. n <= e
    OBVIOUS
  <1>1. PICK before \in Seq(Nat) : before = Events(n, m)
    BY EventsType
  <1>2. PICK after \in Seq(Nat) : after = Events(n, e)
    BY <1>0, EventsType
  <1>3. PICK one \in Seq(Nat) : one = <<e>>
    BY OneNumber
  <1>4. /\ Len(before) = m - n /\ \A i \in 1 .. m - n : before[i] = n + i
        /\ Len(after) = e - n /\ \A i \in 1 .. e - n : after[i] = n + i
        /\ Len(one) = 1 /\ one[1] = e
    BY <1>0, <1>1, <1>2, <1>3, EventsType, OneNumber DEF Events
  <1>5. PICK s \in Seq(Nat) : s = before \o one
    BY Joined
  <1>6. /\ Len(s) = Len(before) + Len(one)
        /\ \A i \in 1 .. Len(before) + Len(one) :
             s[i] = IF i <= Len(before) THEN before[i] ELSE one[i - Len(before)]
    BY <1>5, Joined
  <1>7. ASSUME NEW i \in 1 .. e - n PROVE s[i] = n + i
    <2>0. i \in 1 .. Len(before) + Len(one) /\ Len(before) \in Nat
      BY <1>4
    <2>1. CASE i <= m - n
      <3>1. s[i] = before[i]
        BY <1>4, <1>6, <2>0, <2>1
      <3> QED
        BY <1>4, <2>1, <3>1
    <2>2. CASE i = e - n
      <3>1. i - Len(before) = 1 /\ ~(i <= Len(before)) /\ n + i = e
        BY <1>4, <2>2
      <3>2. s[i] = one[1]
        BY <1>6, <2>0, <3>1
      <3> QED
        BY <1>4, <3>1, <3>2
    <2> QED
      BY <2>1, <2>2
  <1>8. Len(s) = e - n /\ Len(after) = Len(s)
    BY <1>4, <1>6
  <1>9. \A i \in 1 .. Len(after) : after[i] = s[i]
    BY <1>4, <1>7
  <1>10. after = s
    BY <1>8, <1>9, SeqEqual
  <1>11. (p \o before) \o one = p \o (before \o one)
    BY Together, ZenonT(60)
  <1> QED
    BY <1>1, <1>2, <1>3, <1>5, <1>10, <1>11

\* Where the i-th event is, when the head of a channel of lc events has moved
\* behind the lg events read before.
LEMMA BehindHead ==
  ASSUME NEW i \in Nat, NEW lh \in Nat, NEW lg \in Nat, NEW lc \in Nat,
         lh = lg + 1, i <= lg + lc, i > lg + 1
  PROVE  /\ i - lh \in 1 .. lc - 1 /\ i - lh + 1 = i - lg
         /\ ~(i <= lh) /\ ~(i <= lg)
  OBVIOUS

\* Reading moves the head of the channel behind what was read before.
LEMMA ReadOne ==
  ASSUME NEW g \in Seq(Nat), NEW c \in Seq(Nat), c # <<>>
  PROVE  Append(g, Head(c)) \o Tail(c) = g \o c
  <1>1. /\ Head(c) \in Nat /\ Tail(c) \in Seq(Nat) /\ Len(c) \in Nat \ {0}
        /\ Len(Tail(c)) = Len(c) - 1
        /\ \A i \in 1 .. Len(c) - 1 : Tail(c)[i] = c[i + 1]
    BY HeadTailProperties, EmptySeq
  <1>2. Head(c) = c[1]
    OBVIOUS
  <1>3. PICK h \in Seq(Nat) : h = Append(g, Head(c))
    BY <1>1, AppendProperties
  <1>4. /\ Len(h) = Len(g) + 1 /\ Len(g) \in Nat
        /\ \A i \in 1 .. Len(g) : h[i] = g[i]
        /\ h[Len(g) + 1] = c[1]
    BY <1>1, <1>2, <1>3, AppendProperties
  <1>5. PICK tail \in Seq(Nat) : tail = Tail(c)
    BY <1>1
  <1>6. PICK s \in Seq(Nat) : s = h \o tail
    BY Joined
  <1>7. /\ Len(s) = Len(g) + Len(c)
        /\ \A i \in 1 .. Len(s) : s[i] = IF i <= Len(h) THEN h[i] ELSE tail[i - Len(h)]
    <2>1. /\ Len(s) = Len(h) + Len(tail)
          /\ \A i \in 1 .. Len(h) + Len(tail) :
               s[i] = IF i <= Len(h) THEN h[i] ELSE tail[i - Len(h)]
      BY <1>6, Joined
    <2>2. Len(tail) = Len(c) - 1
      BY <1>1, <1>5
    <2>3. Len(s) = Len(g) + Len(c)
      BY <1>1, <1>4, <2>1, <2>2
    <2> QED
      BY <2>1, <2>3
  <1>8. PICK t \in Seq(Nat) : t = g \o c
    BY Joined
  <1>9. /\ Len(t) = Len(g) + Len(c)
        /\ \A i \in 1 .. Len(t) : t[i] = IF i <= Len(g) THEN g[i] ELSE c[i - Len(g)]
    BY <1>8, Joined
  <1>10. ASSUME NEW i \in 1 .. Len(s) PROVE s[i] = t[i]
    <2>1. CASE i <= Len(g)
      <3>1. i \in 1 .. Len(g) /\ i <= Len(h) /\ i \in 1 .. Len(t)
        BY <1>1, <1>4, <1>7, <1>9, <2>1
      <3> QED
        BY <1>4, <1>7, <1>9, <2>1, <3>1
    <2>2. CASE i = Len(g) + 1
      <3>1. i - Len(g) = 1 /\ ~(i <= Len(g)) /\ i <= Len(h)
        BY <1>4, <2>2
      <3>2. s[i] = h[i]
        BY <1>7, <3>1
      <3>3. i \in 1 .. Len(t)
        BY <1>7, <1>9
      <3>4. t[i] = c[1]
        BY <1>9, <3>1, <3>3
      <3> QED
        BY <1>4, <2>2, <3>2, <3>4
    <2>3. CASE i > Len(g) + 1
      <3>1. /\ i - Len(h) \in 1 .. Len(c) - 1 /\ i - Len(h) + 1 = i - Len(g)
            /\ ~(i <= Len(h)) /\ ~(i <= Len(g))
        <4>1. /\ Len(h) = Len(g) + 1 /\ Len(g) \in Nat /\ Len(c) \in Nat
              /\ i \in Nat /\ i <= Len(g) + Len(c)
          BY <1>1, <1>4, <1>7
        <4> QED
          BY <2>3, <4>1, BehindHead
      <3>2. s[i] = tail[i - Len(h)]
        BY <1>7, <3>1
      <3>3. i \in 1 .. Len(t)
        BY <1>7, <1>9
      <3>4. t[i] = c[i - Len(g)]
        BY <1>9, <3>1, <3>3
      <3>5. tail[i - Len(h)] = c[i - Len(h) + 1]
        BY <1>1, <1>5, <3>1
      <3> QED
        BY <3>1, <3>2, <3>4, <3>5
    <2> QED
      BY <1>1, <1>4, <1>7, <2>1, <2>2, <2>3
  <1>11. s = t
    BY <1>7, <1>9, <1>10, SeqEqual
  <1> QED
    BY <1>3, <1>5, <1>6, <1>8, <1>11

\* Giving moves the event on its way into the channel.
LEMMA GiveOne ==
  ASSUME NEW g \in Seq(Nat), NEW c \in Seq(Nat), NEW e \in Nat
  PROVE  (g \o Append(c, e)) \o <<>> = (g \o c) \o <<e>>
  <1>1. <<e>> \in Seq(Nat) /\ Append(c, e) \in Seq(Nat) /\ g \o Append(c, e) \in Seq(Nat)
    OBVIOUS
  <1>2. Append(c, e) = c \o <<e>>
    BY AppendIsConcat
  <1> QED
    BY <1>1, <1>2, ConcatAssociative, ConcatEmptySeq

-----------------------------------------------------------------------------
(* The types of the variables *)

Entries == [type : {"event", "run"}, ev : Nat, w : Watchers \cup {Nobody}]
Currents == [ev : Nat, left : SUBSET Watchers, at : Watchers \cup {Nobody}]
WatcherStates == [st : {"off", "wanted", "on", "stopped"}, chan : Seq(Nat),
                  cap : Nat, prefix : Nat, since : Nat, got : Seq(Nat)]

LEMMA Types ==
  ASSUME BroadcastInv
  PROVE  /\ lock \in Handlers \cup Watchers \cup {Nobody}
         /\ incoming \in Seq(Entries) /\ Len(incoming) \in Nat /\ Len(incoming) <= QueueLen
         /\ current \in Currents /\ current.ev \in Nat /\ current.left \subseteq Watchers
         /\ current.at \in Watchers \cup {Nobody}
         /\ acting \in SUBSET Handlers
         /\ watcher \in [Watchers -> WatcherStates]
         /\ sent \in Nat
  <1>1. /\ lock \in Handlers \cup Watchers \cup {Nobody}
        /\ incoming \in Seq(Entries) /\ Len(incoming) <= QueueLen
        /\ current \in Currents /\ acting \in SUBSET Handlers
        /\ watcher \in [Watchers -> WatcherStates] /\ sent \in Nat
    BY DEF BroadcastInv, TypeOK, Entries, Currents, WatcherStates
  <1>2. Len(incoming) \in Nat
    BY <1>1
  <1> QED
    BY <1>1, <1>2 DEF Currents

LEMMA WatcherTypes ==
  ASSUME BroadcastInv, NEW w \in Watchers
  PROVE  /\ watcher[w] \in WatcherStates
         /\ watcher[w].chan \in Seq(Nat) /\ watcher[w].got \in Seq(Nat)
         /\ watcher[w].cap \in Nat /\ watcher[w].prefix \in Nat /\ watcher[w].since \in Nat
         /\ Len(watcher[w].chan) <= watcher[w].cap
  <1>1. watcher[w] \in WatcherStates
    BY Types
  <1>2. Len(watcher[w].chan) <= watcher[w].cap
    BY DEF BroadcastInv, TypeOK
  <1> QED
    BY <1>1, <1>2 DEF WatcherStates

\* What is claimed of a watcher: of its record r, of the event e and of what is
\* under way, u.
Served(r, e, u) ==
    /\ r \in WatcherStates /\ Len(r.chan) <= r.cap /\ r.prefix < r.cap
    /\ r.st = "wanted" => r.got = <<>>
    /\ r.st = "on" =>
         /\ r.since <= e
         /\ r.got \o r.chan \o u = [i \in 1 .. r.prefix |-> 0] \o Events(r.since, e)

LEMMA ServedNow ==
  ASSUME BroadcastInv, NEW w \in Watchers
  PROVE  Served(watcher[w], current.ev, Underway(w))
  <1>1. watcher[w] \in WatcherStates /\ Len(watcher[w].chan) <= watcher[w].cap
    BY WatcherTypes
  <1> QED
    BY <1>1 DEF BroadcastInv, WatcherInv, Served, Prefix

\* The invariant after a step.
LEMMA InvNext ==
  ASSUME lock' \in Handlers \cup Watchers \cup {Nobody},
         incoming' \in Seq(Entries), Len(incoming') <= QueueLen,
         current' \in Currents, acting' \in SUBSET Handlers, sent' \in Nat,
         watcher' \in [Watchers -> WatcherStates], current'.at \notin current'.left,
         QueueInv',
         \A w \in Watchers : Served(watcher'[w], current'.ev, Underway(w)')
  PROVE  BroadcastInv'
  <1>1. TypeOK'
    BY DEF TypeOK, Entries, Currents, WatcherStates, Served
  <1>2. WatcherInv'
    BY DEF WatcherInv, Served, Prefix
  <1> QED
    BY <1>1, <1>2 DEF BroadcastInv

\* Steps that leave the queue, the lock and the distributor alone and change
\* the record of one watcher.
LEMMA WatcherStep ==
  ASSUME BroadcastInv, NEW w \in Watchers, NEW r, watcher' = [watcher EXCEPT ![w] = r],
         UNCHANGED <<lock, incoming, current, acting, sent>>,
         Served(r, current.ev, Underway(w)),
         lock = w => r.st \in {"wanted", "stopped"}
  PROVE  BroadcastInv'
  <1>0. r \in WatcherStates
    BY DEF Served
  <1>1. watcher' \in [Watchers -> WatcherStates]
    BY <1>0, Types
  <1>2. \A x \in Watchers : watcher'[x] = IF x = w THEN r ELSE watcher[x]
    BY Types
  <1>3. \A x \in Watchers : Underway(x)' = Underway(x)
    BY DEF Underway
  <1>4. \A x \in Watchers : Served(watcher'[x], current.ev, Underway(x))
    BY <1>2, ServedNow
  <1>5. QueueInv'
    <2>1. lock \in Watchers => watcher'[lock].st \in {"wanted", "stopped"}
      BY <1>2 DEF BroadcastInv, QueueInv
    <2> QED
      BY <2>1 DEF BroadcastInv, QueueInv, RunLast
  <1>6. current'.at \notin current'.left
    BY DEF BroadcastInv, WatcherInv
  <1> QED
    BY <1>1, <1>3, <1>4, <1>5, <1>6, InvNext, Types

-----------------------------------------------------------------------------
(* Watch clients *)

LEMMA WatchStep ==
  ASSUME BroadcastInv, NEW w \in Watchers, Watch(w)
  PROVE  BroadcastInv'
  <1>1. PICK n \in 0 .. MaxPrefix :
          watcher' = [watcher EXCEPT ![w] =
                        [NoWatcher EXCEPT !.st = "wanted", !.prefix = n, !.cap = Room(n)]]
    BY DEF Watch
  <1>2. PICK r : r = [NoWatcher EXCEPT !.st = "wanted", !.prefix = n, !.cap = Room(n)]
    OBVIOUS
  <1>3. n \in Nat /\ Room(n) \in Nat /\ n < Room(n)
    BY BroadcastAssumption DEF Room
  <1>4. PICK empty \in Seq(Nat) : empty = <<>> /\ Len(empty) = 0
    BY EmptySeq
  <1>5. r = [st |-> "wanted", chan |-> empty, cap |-> Room(n), prefix |-> n, since |-> 0,
             got |-> empty]
    BY <1>2, <1>4 DEF NoWatcher
  <1>6. r \in WatcherStates
    BY <1>3, <1>5 DEF WatcherStates
  <1>7. Len(r.chan) <= r.cap /\ r.prefix < r.cap /\ r.st = "wanted" /\ r.got = <<>>
    BY <1>3, <1>4, <1>5
  <1>8. Served(r, current.ev, Underway(w))
    BY <1>6, <1>7 DEF Served
  <1> QED
    BY <1>1, <1>2, <1>7, <1>8, WatcherStep DEF Watch

LEMMA StopStep ==
  ASSUME BroadcastInv, NEW w \in Watchers, Stop(w)
  PROVE  BroadcastInv'
  <1>1. PICK r : r = [watcher[w] EXCEPT !.st = "stopped"]
    OBVIOUS
  <1>2. watcher[w] \in WatcherStates
    BY WatcherTypes
  <1>3. /\ r \in WatcherStates /\ r.st = "stopped" /\ r.chan = watcher[w].chan
        /\ r.cap = watcher[w].cap /\ r.prefix = watcher[w].prefix
    BY <1>1, <1>2 DEF WatcherStates
  <1>4. Served(r, current.ev, Underway(w))
    BY <1>3, ServedNow DEF Served
  <1>5. watcher' = [watcher EXCEPT ![w] = r]
    BY <1>1 DEF Stop
  <1> QED
    BY <1>3, <1>4, <1>5, WatcherStep DEF Stop

\* What a client reads goes from its channel to what it has read.
LEMMA ReceiveStep ==
  ASSUME BroadcastInv, NEW w \in Watchers, Receive(w)
  PROVE  BroadcastInv'
  <1>1. PICK old : old = watcher[w]
    OBVIOUS
  <1>2. /\ old \in WatcherStates /\ old.st = "on" /\ old.chan # <<>>
        /\ old.chan \in Seq(Nat) /\ old.got \in Seq(Nat) /\ old.cap \in Nat
        /\ Len(old.chan) <= old.cap
    BY <1>1, WatcherTypes DEF Receive
  <1>3. PICK chan \in Seq(Nat) : chan = Tail(old.chan) /\ Len(chan) = Len(old.chan) - 1
    BY <1>2, HeadTailProperties
  <1>4. PICK got \in Seq(Nat) : got = Append(old.got, Head(old.chan))
    BY <1>2, HeadTailProperties, AppendProperties
  <1>5. PICK r : r = [old EXCEPT !.chan = chan, !.got = got]
    OBVIOUS
  <1>6. /\ r \in WatcherStates /\ r.st = "on" /\ r.chan = chan /\ r.got = got
        /\ r.cap = old.cap /\ r.prefix = old.prefix /\ r.since = old.since
    BY <1>2, <1>5 DEF WatcherStates
  <1>7. got \o chan = old.got \o old.chan
    BY <1>2, <1>3, <1>4, ReadOne
  <1>8. Len(chan) <= old.cap
    BY <1>2, <1>3, LenProperties
  <1>9. Served(old, current.ev, Underway(w))
    BY <1>1, ServedNow
  <1>10. Served(r, current.ev, Underway(w))
    BY <1>2, <1>6, <1>7, <1>8, <1>9 DEF Served
  <1>11. watcher' = [watcher EXCEPT ![w] = r]
    BY <1>1, <1>3, <1>4, <1>5, Types DEF Receive
  <1>12. lock # w
    BY <1>1, <1>2 DEF BroadcastInv, QueueInv
  <1> QED
    BY <1>10, <1>11, <1>12, WatcherStep DEF Receive

-----------------------------------------------------------------------------
(* Callers *)

\* Steps that leave the watchers and the distributor alone.
LEMMA CallerStep ==
  ASSUME BroadcastInv, UNCHANGED <<current, watcher>>, acting' \in SUBSET Handlers, sent' \in Nat,
         lock' \in Handlers \cup Watchers \cup {Nobody},
         incoming' \in Seq(Entries), Len(incoming') <= QueueLen, QueueInv'
  PROVE  BroadcastInv'
  <1>1. \A x \in Watchers : Underway(x)' = Underway(x)
    BY DEF Underway
  <1>2. \A x \in Watchers : Served(watcher'[x], current'.ev, Underway(x)')
    BY <1>1, ServedNow
  <1>3. current'.at \notin current'.left
    BY DEF BroadcastInv, WatcherInv
  <1> QED
    BY <1>2, <1>3, InvNext, Types

LEMMA ActionStep ==
  ASSUME BroadcastInv, NEW h \in Handlers, Action(h)
  PROVE  BroadcastInv'
  <1>1. QueueInv'
    BY DEF Action, BroadcastInv, QueueInv, RunLast
  <1>2. acting' \in SUBSET Handlers
    BY Types DEF Action
  <1> QED
    BY <1>1, <1>2, CallerStep, Types DEF Action

\* Nobody has the lock, so no function is in the queue.
LEMMA LockStep ==
  ASSUME BroadcastInv, NEW x \in Handlers \cup Watchers, Lock(x)
  PROVE  BroadcastInv'
  <1>0. lock = Nobody /\ lock \notin Watchers /\ lock' = x
        /\ UNCHANGED <<incoming, current, acting, watcher, sent>>
    BY BroadcastAssumption DEF Lock
  <1>1. \A i \in 1 .. Len(incoming) : incoming[i].type = "event"
    BY <1>0 DEF BroadcastInv, QueueInv
  <1>2. x \in Watchers => watcher[x].st \in {"wanted", "stopped"}
    BY Types, BroadcastAssumption DEF Lock, Waits
  <1>3. QueueInv'
    BY <1>0, <1>1, <1>2 DEF BroadcastInv, QueueInv, RunLast
  <1> QED
    BY <1>0, <1>3, CallerStep, Types

\* An entry joins the queue; the one who puts it there has the lock.
LEMMA EnqueueStep ==
  ASSUME BroadcastInv, NEW x \in Handlers \cup Watchers, Enqueue(x)
  PROVE  BroadcastInv'
  <1>0. /\ lock = x /\ Len(incoming) < QueueLen /\ UNCHANGED <<current, watcher>>
        /\ incoming \in Seq(Entries) /\ Len(incoming) \in Nat /\ QueueLen \in Nat
        /\ sent \in Nat /\ current.ev \in Nat /\ QueueInv
    BY Types, BroadcastAssumption DEF Enqueue, BroadcastInv
  <1>1. \A i \in 1 .. Len(incoming) : incoming[i].type = "event" /\ incoming[i].ev = current.ev + i
    <2> SUFFICES ASSUME NEW i \in 1 .. Len(incoming), incoming[i].type # "event"
                 PROVE  FALSE
      BY <1>0 DEF QueueInv
    <2>1. incoming[i].w = x /\ x \in Watchers
      BY <1>0 DEF QueueInv
    <2>2. x \notin Handlers /\ i \in DOMAIN incoming
      BY <1>0, <2>1, BroadcastAssumption
    <2> QED
      BY <2>1, <2>2 DEF Enqueue
  <1>2. ~RunLast
    <2> SUFFICES ASSUME RunLast PROVE FALSE
      OBVIOUS
    <2>1. Len(incoming) \in 1 .. Len(incoming)
      BY <1>0, EmptySeq DEF RunLast
    <2> QED
      BY <1>1, <2>1 DEF RunLast
  <1>3. sent = current.ev + Len(incoming)
    BY <1>0, <1>2 DEF QueueInv
  <1>4. sent + 1 = current.ev + (Len(incoming) + 1)
    <2>1. PICK n \in Nat : n = Len(incoming)
      BY <1>0
    <2>2. PICK m \in Nat : m = current.ev
      BY <1>0
    <2>3. sent = m + n
      BY <1>3, <2>1, <2>2
    <2>4. sent + 1 = m + (n + 1)
      BY <2>3
    <2> QED
      BY <2>1, <2>2, <2>4
  <1>5. ASSUME NEW e \in Entries, incoming' = Append(incoming, e)
        PROVE  /\ incoming' \in Seq(Entries) /\ Len(incoming') = Len(incoming) + 1
               /\ Len(incoming') <= QueueLen /\ incoming' # <<>>
               /\ \A i \in 1 .. Len(incoming) : incoming'[i] = incoming[i]
               /\ incoming'[Len(incoming) + 1] = e
    BY <1>0, <1>5, AppendProperties
  <1>6. CASE x \in Handlers
    <2>0. x \notin Watchers
      BY <1>6, BroadcastAssumption
    <2>1. /\ sent' = sent + 1 /\ acting' = acting \ {x} /\ lock' = Nobody
          /\ incoming' = Append(incoming, Entry("event", sent', Nobody))
      BY <1>6, <2>0 DEF Enqueue
    <2>2. PICK e : e = Entry("event", sent', Nobody)
      OBVIOUS
    <2>3. e \in Entries /\ e.type = "event" /\ e.ev = sent + 1
      BY <1>0, <2>1, <2>2 DEF Entry, Entries
    <2>4. /\ incoming' \in Seq(Entries) /\ Len(incoming') = Len(incoming) + 1
          /\ Len(incoming') <= QueueLen /\ incoming' # <<>>
          /\ \A i \in 1 .. Len(incoming) : incoming'[i] = incoming[i]
          /\ incoming'[Len(incoming) + 1] = e
      BY <1>5, <2>1, <2>2, <2>3
    <2>5. \A i \in 1 .. Len(incoming') :
            incoming'[i].type = "event" /\ incoming'[i].ev = current.ev + i
      <3> SUFFICES ASSUME NEW i \in 1 .. Len(incoming')
                   PROVE  incoming'[i].type = "event" /\ incoming'[i].ev = current.ev + i
        OBVIOUS
      <3>1. CASE i \in 1 .. Len(incoming)
        BY <1>1, <2>4, <3>1
      <3>2. CASE i = Len(incoming) + 1
        BY <1>4, <2>3, <2>4, <3>2
      <3> QED
        BY <1>0, <2>4, <3>1, <3>2
    <2>6. ~RunLast'
      BY <1>0, <2>3, <2>4 DEF RunLast
    <2>7. sent' = current.ev + Len(incoming')
      BY <1>4, <2>1, <2>4
    <2>8. lock' \notin Watchers
      BY <2>1, BroadcastAssumption
    <2>9. QueueInv'
      <3>1. sent' = current'.ev + Len(incoming') - 0
        BY <1>0, <2>4, <2>7
      <3> QED
        BY <1>0, <2>5, <2>6, <2>8, <3>1 DEF QueueInv
    <2> QED
      BY <1>0, <2>1, <2>4, <2>9, CallerStep, Types
  <1>7. CASE x \in Watchers
    <2>0. x \notin Handlers
      BY <1>7, BroadcastAssumption
    <2>1. /\ incoming' = Append(incoming, Entry("run", 0, x))
          /\ UNCHANGED <<sent, acting, lock>>
      BY <1>7, <2>0 DEF Enqueue
    <2>2. PICK e : e = Entry("run", 0, x)
      OBVIOUS
    <2>3. e \in Entries /\ e.type = "run" /\ e.w = x
      BY <1>7, <2>2 DEF Entry, Entries
    <2>4. /\ incoming' \in Seq(Entries) /\ Len(incoming') = Len(incoming) + 1
          /\ Len(incoming') <= QueueLen /\ incoming' # <<>>
          /\ \A i \in 1 .. Len(incoming) : incoming'[i] = incoming[i]
          /\ incoming'[Len(incoming) + 1] = e
      BY <1>5, <2>1, <2>2, <2>3
    <2>5. ASSUME NEW i \in 1 .. Len(incoming')
          PROVE  IF incoming'[i].type = "event" THEN incoming'[i].ev = current'.ev + i
                 ELSE i = Len(incoming') /\ incoming'[i].w = lock' /\ lock' \in Watchers
      <3>1. CASE i \in 1 .. Len(incoming)
        BY <1>0, <1>1, <2>4, <3>1
      <3>2. CASE i = Len(incoming) + 1
        BY <1>0, <1>7, <2>1, <2>3, <2>4, <3>2
      <3> QED
        BY <1>0, <2>4, <3>1, <3>2
    <2>6. RunLast'
      BY <1>0, <2>3, <2>4 DEF RunLast
    <2>7. sent' = current'.ev + Len(incoming') - 1
      BY <1>0, <1>3, <2>1, <2>4
    <2>8. lock' \in Watchers => watcher'[lock'].st \in {"wanted", "stopped"}
      BY <1>0, <2>1 DEF QueueInv
    <2>9. QueueInv'
      BY <2>5, <2>6, <2>7, <2>8 DEF QueueInv
    <2> QED
      BY <1>0, <2>1, <2>4, <2>9, CallerStep, Types
  <1> QED
    BY <1>6, <1>7

-----------------------------------------------------------------------------
(* The distributor *)

\* The queue after its head is taken.
LEMMA HeadTaken ==
  ASSUME BroadcastInv, incoming # <<>>, incoming' = Tail(incoming)
  PROVE  /\ Head(incoming) \in Entries /\ Head(incoming) = incoming[1]
         /\ 1 \in 1 .. Len(incoming)
         /\ incoming' \in Seq(Entries) /\ Len(incoming') = Len(incoming) - 1
         /\ Len(incoming') \in Nat /\ Len(incoming') <= QueueLen
         /\ \A i \in 1 .. Len(incoming') : incoming'[i] = incoming[i + 1]
  <1>1. incoming \in Seq(Entries) /\ Len(incoming) <= QueueLen /\ QueueLen \in Nat
    BY Types, BroadcastAssumption
  <1>2. Len(incoming) \in Nat \ {0}
    BY <1>1, EmptySeq
  <1>3. /\ Head(incoming) \in Entries
        /\ incoming' \in Seq(Entries) /\ Len(incoming') = Len(incoming) - 1
        /\ \A i \in 1 .. Len(incoming') : incoming'[i] = incoming[i + 1]
    BY <1>1, HeadTailProperties
  <1>4. Head(incoming) = incoming[1]
    BY <1>1
  <1> QED
    BY <1>1, <1>2, <1>3, <1>4

\* A registration, or its end, is run: it was the only entry, so the watcher
\* begins with the next event.
LEMMA RunStep ==
  ASSUME BroadcastInv, Take, Head(incoming).type = "run"
  PROVE  BroadcastInv'
  <1>0. /\ Idle /\ incoming # <<>> /\ incoming' = Tail(incoming)
        /\ UNCHANGED <<acting, sent, current>> /\ lock' = Nobody /\ Run(Head(incoming).w)
        /\ QueueInv
    BY DEF Take, BroadcastInv
  <1>1. incoming[1].type = "run" /\ 1 \in 1 .. Len(incoming)
    BY <1>0, HeadTaken
  <1>2. 1 = Len(incoming) /\ incoming[1].w = lock /\ lock \in Watchers
    BY <1>0, <1>1 DEF QueueInv
  <1>3. PICK w \in Watchers : w = lock /\ Head(incoming).w = w
    BY <1>0, <1>2, HeadTaken
  <1>4. watcher[w].st \in {"wanted", "stopped"}
    BY <1>0, <1>3 DEF QueueInv
  <1>5. Len(incoming') = 0 /\ incoming' \in Seq(Entries) /\ Len(incoming') <= QueueLen
    BY <1>0, <1>2, HeadTaken
  <1>6. RunLast
    BY <1>0, <1>1, <1>2 DEF RunLast
  <1>7. sent = current.ev /\ sent \in Nat
    <2>1. sent = current.ev + Len(incoming) - 1
      BY <1>0, <1>6 DEF QueueInv
    <2>2. PICK m \in Nat : m = current.ev
      BY Types
    <2>3. sent = m + 1 - 1
      BY <1>2, <2>1, <2>2
    <2> QED
      BY <2>2, <2>3
  <1>8. QueueInv'
    <2>1. ~RunLast'
      BY <1>5, EmptySeq DEF RunLast
    <2>2. lock' \notin Watchers
      BY <1>0, BroadcastAssumption
    <2>3. sent' = current'.ev + Len(incoming') - 0
      BY <1>0, <1>5, <1>7
    <2>4. \A i \in 1 .. Len(incoming') : FALSE
      BY <1>5
    <2> QED
      BY <2>1, <2>2, <2>3, <2>4 DEF QueueInv
  <1>9. PICK old : old = watcher[w]
    OBVIOUS
  <1>10. /\ old \in WatcherStates /\ old.prefix \in Nat /\ old.cap \in Nat
         /\ old.prefix < old.cap
         /\ old.st = "wanted" => old.got = <<>>
    BY <1>9, WatcherTypes DEF BroadcastInv, WatcherInv
  <1>11. PICK r : /\ r = IF old.st = "wanted"
                         THEN [old EXCEPT !.st = "on", !.since = sent, !.chan = Prefix(w)]
                         ELSE NoWatcher
                  /\ watcher' = [watcher EXCEPT ![w] = r]
    BY <1>0, <1>3, <1>9, Types DEF Run
  <1>12. Underway(w) = <<>>
    BY <1>0, BroadcastAssumption DEF Underway, Idle
  <1>13. Served(r, current.ev, <<>>) /\ r \in WatcherStates
    <2>1. CASE old.st = "wanted"
      <3>1. PICK prefix \in Seq(Nat) :
              /\ prefix = [i \in 1 .. old.prefix |-> 0] /\ Len(prefix) = old.prefix
        BY <1>10, Listed
      <3>2. prefix = Prefix(w)
        BY <1>9, <3>1 DEF Prefix
      <3>3. r = [old EXCEPT !.st = "on", !.since = sent, !.chan = prefix]
        BY <1>11, <2>1, <3>2
      <3>4. /\ r \in WatcherStates /\ r.st = "on" /\ r.since = sent /\ r.chan = prefix
            /\ r.cap = old.cap /\ r.prefix = old.prefix /\ r.got = old.got
        BY <1>7, <1>10, <3>3 DEF WatcherStates
      <3>5. Events(sent, sent) = <<>>
        BY <1>7, NoneBetween
      <3>6. (r.got \o r.chan) \o <<>> = prefix \o <<>>
        <4>1. r.got = <<>> /\ r.got \o r.chan = prefix
          BY <1>10, <2>1, <3>4, Alone
        <4> QED
          BY <4>1
      <3>7. Len(r.chan) <= r.cap /\ r.prefix < r.cap
        BY <1>10, <3>1, <3>4
      <3> QED
        <4>1. PICK m \in Nat : m = sent /\ m = current.ev /\ m <= m
          BY <1>7
        <4>2. r.since = m /\ Events(r.since, m) = <<>>
          BY <3>4, <3>5, <4>1
        <4>3. r.got \o r.chan \o <<>> = [i \in 1 .. r.prefix |-> 0] \o Events(r.since, m)
          BY <3>1, <3>4, <3>6, <4>2
        <4>4. r.since <= m
          BY <4>1, <4>2
        <4>5. r.st # "wanted"
          BY <3>4
        <4>6. Served(r, m, <<>>)
          BY <3>4, <3>7, <4>3, <4>4, <4>5 DEF Served
        <4> QED
          BY <3>4, <4>1, <4>6
    <2>2. CASE old.st # "wanted"
      <3>1. r = NoWatcher
        BY <1>11, <2>2
      <3>2. PICK empty \in Seq(Nat) : empty = <<>> /\ Len(empty) = 0
        BY EmptySeq
      <3>3. r = [st |-> "off", chan |-> empty, cap |-> ChanLen, prefix |-> 0, since |-> 0,
                 got |-> empty]
        BY <3>1, <3>2 DEF NoWatcher
      <3>4. ChanLen \in Nat /\ 0 < ChanLen
        BY BroadcastAssumption
      <3>5. r \in WatcherStates
        BY <3>3, <3>4 DEF WatcherStates
      <3> QED
        BY <3>2, <3>3, <3>4, <3>5 DEF Served
    <2> QED
      BY <2>1, <2>2
  <1>14. \A x \in Watchers : Underway(x)' = Underway(x)
    BY <1>0 DEF Underway
  <1>15. \A x \in Watchers : Served(watcher'[x], current'.ev, Underway(x)')
    <2> SUFFICES ASSUME NEW x \in Watchers PROVE Served(watcher'[x], current.ev, Underway(x))
      BY <1>0, <1>14
    <2>1. CASE x = w
      <3>1. watcher'[x] = r
        BY <1>11, <2>1, Types
      <3> QED
        BY <1>12, <1>13, <2>1, <3>1
    <2>2. CASE x # w
      <3>1. watcher'[x] = watcher[x]
        BY <1>11, <2>2, Types
      <3> QED
        BY <3>1, ServedNow
    <2> QED
      BY <2>1, <2>2
  <1>16. watcher' \in [Watchers -> WatcherStates]
    BY <1>11, <1>13, Types
  <1>17. current'.at \notin current'.left
    BY <1>0 DEF BroadcastInv, WatcherInv
  <1> QED
    BY <1>0, <1>5, <1>8, <1>15, <1>16, <1>17, InvNext, Types

\* An event is taken from the queue, for all that are registered.
LEMMA TakeStep ==
  ASSUME BroadcastInv, Take, Head(incoming).type # "run"
  PROVE  BroadcastInv'
  <1>0. /\ Idle /\ incoming # <<>> /\ incoming' = Tail(incoming)
        /\ UNCHANGED <<acting, sent, lock, watcher>> /\ QueueInv
        /\ current' = [ev |-> Head(incoming).ev, left |-> Registered, at |-> Nobody]
    BY DEF Take, BroadcastInv
  <1>1. incoming[1] \in Entries /\ incoming[1].type = "event" /\ 1 \in 1 .. Len(incoming)
    BY <1>0, HeadTaken DEF Entries
  <1>2. PICK m \in Nat : m = current.ev
    BY Types
  <1>3. PICK e \in Nat : e = m + 1
    OBVIOUS
  <1>4. current'.ev = e /\ current'.left = Registered /\ current'.at = Nobody
    BY <1>0, <1>1, <1>2, <1>3, HeadTaken DEF QueueInv
  <1>5. current' \in Currents /\ current'.at \notin current'.left
    BY <1>0, <1>4, BroadcastAssumption DEF Currents, Registered
  <1>6. QueueInv'
    <2>0. /\ Len(incoming') = Len(incoming) - 1 /\ Len(incoming') \in Nat /\ Len(incoming) \in Nat
          /\ \A i \in 1 .. Len(incoming') : incoming'[i] = incoming[i + 1]
      BY <1>0, HeadTaken, Types
    <2>1. ASSUME NEW i \in 1 .. Len(incoming')
          PROVE  IF incoming'[i].type = "event" THEN incoming'[i].ev = current'.ev + i
                 ELSE i = Len(incoming') /\ incoming'[i].w = lock' /\ lock' \in Watchers
      <3>1. PICK j \in 1 .. Len(incoming) : j = i + 1 /\ incoming'[i] = incoming[j]
        BY <2>0
      <3>2. IF incoming[j].type = "event" THEN incoming[j].ev = m + j
            ELSE j = Len(incoming) /\ incoming[j].w = lock /\ lock \in Watchers
        BY <1>0, <1>2 DEF QueueInv
      <3>3. m + j = e + i /\ (j = Len(incoming) => i = Len(incoming'))
        BY <1>3, <2>0, <3>1
      <3> QED
        BY <1>0, <1>4, <3>1, <3>2, <3>3
    <2>2. RunLast' <=> RunLast
      <3>1. CASE Len(incoming') = 0
        <4>1. Len(incoming) = 1 /\ incoming' = <<>>
          BY <2>0, <3>1, HeadTaken, <1>0, EmptySeq
        <4> QED
          BY <1>1, <4>1 DEF RunLast
      <3>2. CASE Len(incoming') # 0
        <4>1. incoming' # <<>> /\ Len(incoming') \in 1 .. Len(incoming')
          <5>1. PICK s, n : s = incoming' /\ n = Len(s) /\ n \in Nat /\ n # 0
            BY <2>0, <3>2
          <5>2. s # <<>> /\ n \in 1 .. n
            BY <5>1, EmptySeq
          <5> QED
            BY <5>1, <5>2
        <4>2. incoming'[Len(incoming')] = incoming[Len(incoming)]
          BY <2>0, <4>1
        <4> QED
          BY <1>0, <4>1, <4>2 DEF RunLast
      <3> QED
        BY <3>1, <3>2
    <2>3. sent' = current'.ev + Len(incoming') - (IF RunLast' THEN 1 ELSE 0)
      <3>1. PICK n \in Nat : n = Len(incoming) /\ n - 1 = Len(incoming')
        BY <2>0
      <3>2. sent = m + n - (IF RunLast THEN 1 ELSE 0)
        BY <1>0, <1>2, <3>1 DEF QueueInv
      <3>3. m + n = e + (n - 1)
        BY <1>3
      <3>4. sent = e + (n - 1) - (IF RunLast THEN 1 ELSE 0)
        BY <3>2, <3>3
      <3> QED
        BY <1>0, <1>4, <2>2, <3>1, <3>4
    <2>4. lock' \in Watchers => watcher'[lock'].st \in {"wanted", "stopped"}
      BY <1>0 DEF QueueInv
    <2> QED
      BY <2>1, <2>3, <2>4 DEF QueueInv
  <1>7. ASSUME NEW w \in Watchers
        PROVE  Served(watcher'[w], current'.ev, Underway(w)')
    <2>1. Underway(w) = <<>>
      BY <1>0, BroadcastAssumption DEF Underway, Idle
    <2>2. PICK r : r = watcher[w]
      OBVIOUS
    <2>3. Served(r, m, <<>>)
      BY <1>2, <2>1, <2>2, ServedNow
    <2>4. CASE r.st = "on"
      <3>1. Underway(w)' = <<e>>
        BY <1>4, <2>2, <2>4 DEF Underway, Registered
      <3>2. /\ r.got \in Seq(Nat) /\ r.chan \in Seq(Nat) /\ r.since \in Nat /\ r.prefix \in Nat
            /\ r.since <= m
        BY <2>2, <2>3, <2>4, WatcherTypes DEF Served
      <3>3. PICK p \in Seq(Nat) : p = [i \in 1 .. r.prefix |-> 0]
        BY <3>2, Listed
      <3>4. PICK read \in Seq(Nat) : read = r.got \o r.chan
        BY <3>2, Joined
      <3>5. read = p \o Events(r.since, m)
        <4>1. read \o <<>> = p \o Events(r.since, m)
          BY <2>3, <2>4, <3>3, <3>4 DEF Served
        <4>2. read \o <<>> = read
          BY Alone
        <4> QED
          BY <4>1, <4>2
      <3>6. read \o <<e>> = p \o Events(r.since, e)
        <4>1. PICK n \in Nat : n = r.since /\ n <= m
          BY <3>2
        <4>2. p \o Events(n, e) = (p \o Events(n, m)) \o <<e>>
          <5>1. e = m + 1 /\ n <= m
            BY <1>3, <4>1
          <5> QED
            BY <5>1, NextEvent, ZenonT(60)
        <4> QED
          BY <3>5, <4>1, <4>2
      <3>7. r.since <= e
        BY <1>3, <3>2
      <3>8. Served(r, e, <<e>>)
        BY <2>3, <2>4, <3>3, <3>4, <3>6, <3>7 DEF Served
      <3> QED
        BY <1>0, <1>4, <2>2, <3>1, <3>8
    <2>5. CASE r.st # "on"
      BY <1>0, <2>2, <2>3, <2>5 DEF Served
    <2> QED
      BY <2>4, <2>5
  <1> QED
    BY <1>0, <1>5, <1>6, <1>7, HeadTaken, InvNext, Types

\* The distributor turns to a watcher: the event is still under way to it.
LEMMA TurnStep ==
  ASSUME BroadcastInv, Turn
  PROVE  BroadcastInv'
  <1>1. PICK w \in current.left :
          /\ current.at = Nobody /\ current' = [current EXCEPT !.left = @ \ {w}, !.at = w]
    BY DEF Turn
  <1>2. /\ UNCHANGED <<lock, incoming, acting, watcher, sent>> /\ current \in Currents
        /\ w \in Watchers
    BY Types DEF Turn
  <1>3. /\ current' \in Currents /\ current'.ev = current.ev
        /\ current'.left = current.left \ {w} /\ current'.at = w
    BY <1>1, <1>2 DEF Currents
  <1>4. QueueInv'
    BY <1>2, <1>3 DEF BroadcastInv, QueueInv, RunLast
  <1>5. \A x \in Watchers : Underway(x)' = Underway(x)
    BY <1>1, <1>3, BroadcastAssumption DEF Underway
  <1> QED
    BY <1>2, <1>3, <1>4, <1>5, ServedNow, InvNext, Types

\* The event goes into the channel of a watcher that has room, or is not
\* waited for.
LEMMA GiveStep ==
  ASSUME BroadcastInv, NEW w \in Watchers, Give(w)
  PROVE  BroadcastInv'
  <1>0. /\ current.at = w /\ UNCHANGED <<lock, incoming, acting, sent>>
        /\ current' = [current EXCEPT !.at = Nobody] /\ current \in Currents
        /\ current.at \notin current.left
    BY Types DEF Give, BroadcastInv, WatcherInv
  <1>1. /\ current' \in Currents /\ current'.ev = current.ev
        /\ current'.left = current.left /\ current'.at = Nobody
    BY <1>0 DEF Currents
  <1>2. current'.at \notin current'.left
    BY <1>1, Types, BroadcastAssumption
  <1>3. PICK e \in Nat : e = current.ev
    BY Types
  <1>4. PICK old : old = watcher[w]
    OBVIOUS
  <1>5. /\ old \in WatcherStates /\ old.chan \in Seq(Nat) /\ old.got \in Seq(Nat)
        /\ old.cap \in Nat
    BY <1>4, WatcherTypes
  <1>6. Underway(w) = <<e>> /\ Underway(w)' = <<>>
    BY <1>0, <1>1, <1>3, BroadcastAssumption DEF Underway
  <1>7. \A x \in Watchers : x # w => Underway(x)' = Underway(x)
    BY <1>0, <1>1, BroadcastAssumption DEF Underway
  <1>8. Served(old, e, <<e>>)
    BY <1>3, <1>4, <1>6, ServedNow
  <1>9. PICK r : /\ watcher' = [watcher EXCEPT ![w] = r] /\ r.st = old.st
                 /\ Served(r, e, <<>>)
    <2>1. CASE Len(old.chan) < old.cap /\ watcher' = [watcher EXCEPT ![w].chan = Append(@, current.ev)]
      <3>1. PICK chan \in Seq(Nat) : chan = Append(old.chan, e) /\ Len(chan) = Len(old.chan) + 1
        BY <1>5, Appended
      <3>2. PICK r : r = [old EXCEPT !.chan = chan]
        OBVIOUS
      <3>3. /\ r \in WatcherStates /\ r.chan = chan /\ r.st = old.st /\ r.cap = old.cap
            /\ r.prefix = old.prefix /\ r.since = old.since /\ r.got = old.got
        BY <1>5, <3>2 DEF WatcherStates
      <3>4. watcher' = [watcher EXCEPT ![w] = r]
        BY <1>3, <1>4, <2>1, <3>1, <3>2, Types
      <3>5. Len(chan) <= old.cap
        BY <1>5, <2>1, <3>1, LenProperties
      <3>6. (r.got \o r.chan) \o <<>> = (old.got \o old.chan) \o <<e>>
        <4>1. PICK got \in Seq(Nat), before \in Seq(Nat) : got = old.got /\ before = old.chan
          BY <1>5
        <4>2. (got \o Append(before, e)) \o <<>> = (got \o before) \o <<e>>
          BY GiveOne
        <4> QED
          BY <3>1, <3>3, <4>1, <4>2
      <3>7. Served(r, e, <<>>)
        BY <1>8, <3>3, <3>5, <3>6 DEF Served
      <3> QED
        BY <3>3, <3>4, <3>7
    <2>2. CASE old.st = "stopped" /\ UNCHANGED watcher
      <3>1. watcher' = [watcher EXCEPT ![w] = old]
        BY <1>4, <2>2, Types
      <3>2. Served(old, e, <<>>)
        BY <1>8, <2>2 DEF Served
      <3> QED
        BY <3>1, <3>2
    <2> QED
      BY <1>4, <2>1, <2>2 DEF Give
  <1>10. \A x \in Watchers : watcher'[x] = IF x = w THEN r ELSE watcher[x]
    BY <1>9, Types
  <1>11. watcher' \in [Watchers -> WatcherStates]
    BY <1>9, Types DEF Served
  <1>12. \A x \in Watchers : Served(watcher'[x], current'.ev, Underway(x)')
    <2> SUFFICES ASSUME NEW x \in Watchers
                 PROVE  Served(watcher'[x], e, Underway(x)')
      BY <1>1, <1>3
    <2>1. CASE x = w
      BY <1>6, <1>9, <1>10, <2>1
    <2>2. CASE x # w
      BY <1>3, <1>7, <1>10, <2>2, ServedNow
    <2> QED
      BY <2>1, <2>2
  <1>13. QueueInv'
    <2>1. lock \in Watchers => watcher'[lock].st = watcher[lock].st
      BY <1>4, <1>9, <1>10
    <2> QED
      BY <1>0, <1>1, <2>1 DEF BroadcastInv, QueueInv, RunLast
  <1> QED
    BY <1>0, <1>1, <1>2, <1>11, <1>12, <1>13, InvNext, Types

-----------------------------------------------------------------------------
LEMMA InvInit == Init => BroadcastInv
  <1> SUFFICES ASSUME Init PROVE BroadcastInv
    OBVIOUS
  <1>1. /\ NoEvent \in Currents /\ NoEvent.ev = 0 /\ NoEvent.left = {} /\ NoEvent.at = Nobody
    BY DEF NoEvent, Currents
  <1>2. PICK empty \in Seq(Nat) : empty = <<>> /\ Len(empty) = 0
    BY EmptySeq
  <1>3. NoWatcher = [st |-> "off", chan |-> empty, cap |-> ChanLen, prefix |-> 0, since |-> 0,
                     got |-> empty]
    BY <1>2 DEF NoWatcher
  <1>4. ChanLen \in Nat /\ 0 < ChanLen
    BY BroadcastAssumption
  <1>5. /\ NoWatcher \in WatcherStates /\ Len(NoWatcher.chan) <= NoWatcher.cap
        /\ NoWatcher.prefix < NoWatcher.cap /\ NoWatcher.st = "off"
    BY <1>2, <1>3, <1>4 DEF WatcherStates
  <1>6. Len(incoming) = 0 /\ incoming \in Seq(Entries) /\ ~RunLast
    BY EmptySeq DEF Init, RunLast
  <1>7. TypeOK
    BY <1>1, <1>5, <1>6, BroadcastAssumption DEF Init, TypeOK, Entries, Currents, WatcherStates
  <1>8. WatcherInv
    BY <1>1, <1>5 DEF Init, WatcherInv
  <1>9. QueueInv
    BY <1>1, <1>6, BroadcastAssumption DEF Init, QueueInv
  <1> QED
    BY <1>7, <1>8, <1>9 DEF BroadcastInv

LEMMA InvStep == BroadcastInv /\ [Next]_vars => BroadcastInv'
  <1> SUFFICES ASSUME BroadcastInv, [Next]_vars PROVE BroadcastInv'
    OBVIOUS
  <1>1. ASSUME NEW h \in Handlers, Action(h) PROVE BroadcastInv'
    BY <1>1, ActionStep
  <1>2. ASSUME NEW w \in Watchers, Watch(w) \/ Stop(w) \/ Receive(w) PROVE BroadcastInv'
    BY <1>2, WatchStep, StopStep, ReceiveStep
  <1>3. ASSUME NEW x \in Handlers \cup Watchers, Lock(x) \/ Enqueue(x) PROVE BroadcastInv'
    BY <1>3, LockStep, EnqueueStep
  <1>4. CASE Distribute
    BY <1>4, RunStep, TakeStep, TurnStep, GiveStep DEF Distribute
  <1>5. CASE UNCHANGED vars
    <2>1. QueueInv'
      BY <1>5 DEF vars, BroadcastInv, QueueInv, RunLast
    <2> QED
      BY <1>5, <2>1, CallerStep, Types DEF vars
  <1> QED
    BY <1>1, <1>2, <1>3, <1>4, <1>5 DEF Next

LEMMA Invariance == Spec => []BroadcastInv
  BY InvInit, InvStep, PTL DEF Spec

\* No queue is ever longer than it may be: the queue of the broadcaster, the
\* channel of a watcher that begins with a list of any length and then gets
\* events.
THEOREM TypeCorrect == Spec => []TypeOK
  <1>1. BroadcastInv => TypeOK
    BY DEF BroadcastInv
  <1> QED
    BY <1>1, Invariance, PTL

\* Every watch client gets the reports that were listed and then every event
\* since its registration, once and in the order of the Action calls, and no
\* event that was sent is missing from the queue before it is distributed:
\* for any number of handlers, of watchers that come and go, and of events.
THEOREM AllInOrder == Spec => []EventsInOrder
  <1>1. BroadcastInv => EventsInOrder
    <2> SUFFICES ASSUME BroadcastInv PROVE EventsInOrder
      OBVIOUS
    <2>0. /\ incoming \in Seq(Entries) /\ Len(incoming) \in Nat /\ sent \in Nat
          /\ current.ev \in Nat /\ QueueInv
      BY Types DEF BroadcastInv
    <2>1. DOMAIN incoming = 1 .. Len(incoming)
      BY <2>0
    <2>2. PICK n \in Nat : n = Len(incoming)
      BY <2>0
    <2>3. sent = current.ev + Cardinality({i \in 1 .. n : incoming[i].type = "event"})
      <3>1. CASE RunLast
        <4>0. n # 0 /\ incoming[n].type = "run"
          BY <2>0, <2>2, <3>1, EmptySeq DEF RunLast
        <4>1. {i \in 1 .. n : incoming[i].type = "event"} = 1 .. n - 1
          BY <2>0, <2>2, <4>0 DEF QueueInv
        <4>2. Cardinality(1 .. n - 1) = n - 1
          BY <4>0, FS_Interval
        <4> QED
          BY <2>0, <2>2, <3>1, <4>1, <4>2 DEF QueueInv
      <3>2. CASE ~RunLast
        <4>0. n # 0 => incoming[n].type # "run"
          BY <2>0, <2>2, <3>2 DEF RunLast
        <4>1. {i \in 1 .. n : incoming[i].type = "event"} = 1 .. n
          <5>1. ASSUME NEW i \in 1 .. n PROVE incoming[i].type = "event"
            <6>1. incoming[i] \in Entries
              BY <2>0, <2>2
            <6>2. incoming[i].type \in {"event", "run"}
              BY <6>1 DEF Entries
            <6>3. incoming[i].type = "run" => i = n
              BY <2>0, <2>2 DEF QueueInv
            <6> QED
              BY <4>0, <6>2, <6>3
          <5> QED
            BY <5>1
        <4>2. Cardinality(1 .. n) = n
          BY FS_Interval
        <4> QED
          <5>1. PICK m \in Nat : m = current.ev
            BY <2>0
          <5>2. sent = m + n - 0
            BY <2>0, <2>2, <3>2, <5>1 DEF QueueInv
          <5>3. sent = m + n
            BY <5>2
          <5> QED
            BY <4>1, <4>2, <5>1, <5>3, Zenon
      <3> QED
        BY <3>1, <3>2
    <2>4. \A i \in DOMAIN incoming : incoming[i].type = "event" => incoming[i].ev = current.ev + i
      BY <2>0, <2>1 DEF QueueInv
    <2>5. \A w \in Watchers : watcher[w].st = "on" =>
            watcher[w].got \o watcher[w].chan \o Underway(w)
              = Prefix(w) \o Events(watcher[w].since, current.ev)
      BY DEF BroadcastInv, WatcherInv
    <2> QED
      BY <2>1, <2>2, <2>3, <2>4, <2>5 DEF EventsInOrder
  <1> QED
    BY <1>1, Invariance, PTL


-----------------------------------------------------------------------------
(* Nobody waits for ever on somebody who waits *)

\* A step of a watcher's record that leaves the watchers registered that were.
LEMMA StaysRegistered ==
  ASSUME RegisteredInv, UNCHANGED current,
         \A w \in Watchers : watcher[w].st \in {"on", "stopped"} => watcher'[w].st \in {"on", "stopped"}
  PROVE  RegisteredInv'
  BY DEF RegisteredInv, Registered

\* The record of one watcher changes.
LEMMA OneRecord ==
  ASSUME BroadcastInv, NEW w \in Watchers, NEW r, watcher' = [watcher EXCEPT ![w] = r]
  PROVE  \A x \in Watchers : watcher'[x] = IF x = w THEN r ELSE watcher[x]
  BY Types

\* No event is distributed to a watcher before it is registered or after it is
\* forgotten: functions are run between two events only.
LEMMA RegisteredStep == BroadcastInv /\ RegisteredInv /\ [Next]_vars => RegisteredInv'
  <1> SUFFICES ASSUME BroadcastInv, RegisteredInv, [Next]_vars PROVE RegisteredInv'
    OBVIOUS
  <1>1. ASSUME NEW h \in Handlers, Action(h) PROVE RegisteredInv'
    BY <1>1, StaysRegistered DEF Action
  <1>2. ASSUME NEW w \in Watchers, Watch(w) PROVE RegisteredInv'
    <2>1. watcher[w].st = "off" /\ UNCHANGED current
      BY <1>2 DEF Watch
    <2>2. PICK r : watcher' = [watcher EXCEPT ![w] = r]
      BY <1>2 DEF Watch
    <2>3. \A x \in Watchers : x # w => watcher'[x] = watcher[x]
      BY <2>2, OneRecord
    <2> QED
      BY <2>1, <2>3, StaysRegistered
  <1>3. ASSUME NEW w \in Watchers, Stop(w) PROVE RegisteredInv'
    <2>1. PICK r : r = [watcher[w] EXCEPT !.st = "stopped"]
      OBVIOUS
    <2>2. r.st = "stopped"
      <3>1. watcher[w] \in WatcherStates
        BY WatcherTypes
      <3> QED
        BY <2>1, <3>1 DEF WatcherStates
    <2>3. watcher' = [watcher EXCEPT ![w] = r] /\ UNCHANGED current
      BY <1>3, <2>1 DEF Stop
    <2>4. \A x \in Watchers : watcher'[x] = IF x = w THEN r ELSE watcher[x]
      BY <2>3, OneRecord
    <2> QED
      BY <2>2, <2>3, <2>4, StaysRegistered
  <1>4. ASSUME NEW w \in Watchers, Receive(w) PROVE RegisteredInv'
    <2>1. PICK old, chan, got : /\ old = watcher[w] /\ chan = Tail(old.chan)
                                /\ got = Append(old.got, Head(old.chan))
      OBVIOUS
    <2>2. PICK r : r = [old EXCEPT !.chan = chan, !.got = got]
      OBVIOUS
    <2>3. r.st = old.st
      <3>1. old \in WatcherStates
        BY <2>1, WatcherTypes
      <3> QED
        BY <2>2, <3>1 DEF WatcherStates
    <2>4. watcher' = [watcher EXCEPT ![w] = r] /\ UNCHANGED current
      BY <1>4, <2>1, <2>2, Types DEF Receive
    <2>5. \A x \in Watchers : watcher'[x] = IF x = w THEN r ELSE watcher[x]
      BY <2>4, OneRecord
    <2> QED
      BY <2>1, <2>3, <2>4, <2>5, StaysRegistered
  <1>5. ASSUME NEW x \in Handlers \cup Watchers, Lock(x) \/ Enqueue(x) PROVE RegisteredInv'
    BY <1>5, StaysRegistered DEF Lock, Enqueue
  <1>6. CASE Take
    <2>1. CASE Head(incoming).type = "run"
      <3>1. UNCHANGED current /\ current.left = {} /\ current.at = Nobody
        BY <1>6, <2>1 DEF Take, Idle
      <3> QED
        BY <3>1 DEF RegisteredInv
    <2>2. CASE Head(incoming).type # "run"
      <3>1. current'.left = Registered /\ current'.at = Nobody /\ UNCHANGED watcher
        BY <1>6, <2>2 DEF Take
      <3> QED
        BY <3>1 DEF RegisteredInv, Registered
    <2> QED
      BY <2>1, <2>2
  <1>7. CASE Turn
    <2>1. PICK w \in current.left :
            /\ current' = [current EXCEPT !.left = @ \ {w}, !.at = w] /\ UNCHANGED watcher
      BY <1>7 DEF Turn
    <2>2. current'.left = current.left \ {w} /\ current'.at = w
      BY <2>1, Types DEF Currents
    <2> QED
      BY <2>1, <2>2 DEF RegisteredInv, Registered
  <1>8. ASSUME NEW w \in Watchers, Give(w) PROVE RegisteredInv'
    <2>1. current'.left = current.left /\ current'.at = Nobody
      BY <1>8, Types DEF Give, Currents
    <2>2. \A x \in Watchers : watcher'[x].st = watcher[x].st
      <3>1. CASE UNCHANGED watcher
        BY <3>1
      <3>2. CASE watcher' = [watcher EXCEPT ![w].chan = Append(@, current.ev)]
        <4>1. PICK r : r = [watcher[w] EXCEPT !.chan = Append(@, current.ev)]
          OBVIOUS
        <4>2. watcher[w] \in WatcherStates
          BY WatcherTypes
        <4>3. r.st = watcher[w].st
          BY <4>1, <4>2 DEF WatcherStates
        <4>4. watcher' = [watcher EXCEPT ![w] = r]
          BY <3>2, <4>1, Types
        <4>5. \A x \in Watchers : watcher'[x] = IF x = w THEN r ELSE watcher[x]
          BY <4>4, OneRecord
        <4> QED
          BY <4>3, <4>5
      <3> QED
        BY <1>8, <3>1, <3>2 DEF Give
    <2> QED
      BY <2>1, <2>2 DEF RegisteredInv, Registered
  <1>9. CASE UNCHANGED vars
    BY <1>9, StaysRegistered DEF vars
  <1> QED
    BY <1>1, <1>2, <1>3, <1>4, <1>5, <1>6, <1>7, <1>8, <1>9 DEF Next, Distribute

LEMMA RegisteredAlways == Spec => []RegisteredInv
  <1>1. Init => RegisteredInv
    BY DEF Init, NoEvent, RegisteredInv
  <1> QED
    BY <1>1, RegisteredStep, Invariance, PTL DEF Spec

\* Whatever the distributor is busy with, it or one client can go on.
LEMMA DistributorGoesOn ==
  ASSUME BroadcastInv, RegisteredInv, ~Idle
  PROVE  ServerCanStep \/ ClientIsToRead
  <1>1. CASE current.at = Nobody
    BY <1>1 DEF Idle, ServerCanStep
  <1>2. CASE current.at # Nobody
    <2>1. PICK w \in Watchers : current.at = w
      BY <1>2, Types
    <2>2. watcher[w].st \in {"on", "stopped"}
      BY <1>2, <2>1 DEF RegisteredInv, Registered
    <2>3. PICK room, n \in Nat : room = watcher[w].cap /\ n = Len(watcher[w].chan) /\ room \in Nat
      <3>1. watcher[w].cap \in Nat /\ Len(watcher[w].chan) \in Nat
        BY WatcherTypes, LenProperties
      <3> QED
        BY <3>1
    <2>4. CASE n < room
      BY <2>1, <2>3, <2>4 DEF ServerCanStep
    <2>5. CASE ~(n < room)
      <3>1. watcher[w].prefix \in Nat /\ watcher[w].prefix < room
        BY <2>3, WatcherTypes DEF BroadcastInv, WatcherInv
      <3>2. n # 0
        BY <2>5, <2>3, <3>1
      <3>3. watcher[w].chan # <<>>
        BY <2>3, <3>2, EmptySeq
      <3> QED
        BY <2>1, <2>2, <3>3 DEF ServerCanStep, ClientIsToRead
    <2> QED
      BY <2>4, <2>5
  <1> QED
    BY <1>1, <1>2

\* No circle of waiting: for any number of handlers and watchers and any
\* lengths of the queues, as long as a caller waits, the lock is held, or an
\* entry or an event is on its way, a step of the server is possible or a
\* client that watches has events to read.
THEOREM NobodyStuck == Spec => []NeverStuck
  <1>1. BroadcastInv /\ RegisteredInv => NeverStuck
    <2> SUFFICES ASSUME BroadcastInv, RegisteredInv, Busy PROVE ServerCanStep \/ ClientIsToRead
      BY DEF NeverStuck
    <2>1. CASE ~Idle
      BY <2>1, DistributorGoesOn
    <2>2. CASE Idle /\ incoming # <<>>
      BY <2>2 DEF ServerCanStep
    <2>3. CASE Idle /\ incoming = <<>> /\ lock = Nobody
      BY <2>3 DEF Busy, ServerCanStep
    <2>4. CASE Idle /\ incoming = <<>> /\ lock # Nobody
      <3>1. Len(incoming) = 0 /\ DOMAIN incoming = {}
        BY <2>4
      <3>2. Len(incoming) < QueueLen
        BY <3>1, BroadcastAssumption
      <3> QED
        BY <2>4, <3>1, <3>2 DEF ServerCanStep
    <2> QED
      BY <2>1, <2>2, <2>3, <2>4
  <1> QED
    BY <1>1, Invariance, RegisteredAlways, PTL

=============================================================================
