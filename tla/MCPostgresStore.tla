-------------------------- MODULE MCPostgresStore ---------------------------
(* Instances of PostgresStore for TLC. *)
EXTENDS PostgresStore, TLC

CONSTANTS k1, k2, n1, n2, p1, p2, c1

TwoKeysNs == [k \in {k1, k2} |-> IF k = k1 THEN n1 ELSE n2]

\* All callers in one server process, or one caller in a process of its own.
OneProc == [c \in Callers |-> p1]
TwoProcs == [c \in Callers |-> IF c = c1 THEN p1 ELSE p2]

\* The replicas are interchangeable.
ReplicaSymmetry == Permutations(Replicas)

=============================================================================
