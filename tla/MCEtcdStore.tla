---------------------------- MODULE MCEtcdStore -----------------------------
(* Two deployments of EtcdStore for TLC: one server process with two       *)
(* reports, and, in variables of its own, two processes that share one.    *)
(* A behavior is one of the first or one of the second.                    *)
EXTENDS EtcdStore

CONSTANTS k1, k2, n1, n2, p1, p2, c3

TwoKeysNs == [k \in {k1, k2} |-> IF k = k1 THEN n1 ELSE n2]
OneProc == [c \in Callers |-> p1]

VARIABLES servers, etcd2, mutex2, thread2

vars2 == <<etcd2, mutex2, thread2>>

Shared == INSTANCE EtcdStore WITH
    Callers <- Callers \cup {c3},
    Keys <- {k1}, NsOf <- [k \in {k1} |-> n1],
    Procs <- {p1, p2}, ProcOf <- [c \in Callers \cup {c3} |-> IF c = c3 THEN p2 ELSE p1],
    etcd <- etcd2, mutex <- mutex2, thread <- thread2

BothInit ==
    /\ servers \in {1, 2} /\ Init /\ Shared!Init
    /\ IF servers = 1 THEN etcd2[k1] = NoReport ELSE \A k \in Keys : etcd[k] = NoReport
BothNext ==
    /\ \/ servers = 1 /\ Next /\ UNCHANGED vars2
       \/ servers = 2 /\ Shared!Next /\ UNCHANGED vars
    /\ UNCHANGED servers
BothSpec == BothInit /\ [][BothNext]_<<servers, vars, vars2>> /\ Fairness

\* With two servers on one etcd, what a Create or Update saw of its key
\* becomes false before its put only by a request of the other server, never
\* by one of its own (OthersInterfere).
OnlyTheOtherInterferes == Shared!OthersInterfere

=============================================================================
