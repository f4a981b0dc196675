---------------------------- MODULE MCReportsApi ----------------------------
(* Instances of ReportsApi for TLC. *)
EXTENDS ReportsApi, TLC

CONSTANTS k1, k2, k3, n1

\* Two reports of one kind.
TwoPolrsKind == [k \in {k1, k2} |-> "polr"]
TwoPolrsNs == [k \in {k1, k2} |-> n1]

\* A report of each of the other kinds.
OtherKindsKind == (k1 :> "cpolr") @@ (k2 :> "ephr") @@ (k3 :> "cephr")
OtherKindsNs == [k \in {k1, k2, k3} |-> n1]

\* The last answer to a client is read by no action, and by the properties in
\* the step that gives it: states that differ in it only are explored once.
ButAnswers ==
    <<store, behind, version, [c \in Clients |-> [req[c] EXCEPT !.resp = "none"]],
      watch, used, left, unsettled>>

\* The same, where no property of the run reads the ghosts used and left.
ButAnswersAndGhosts ==
    <<store, behind, version, [c \in Clients |-> [req[c] EXCEPT !.resp = "none"]],
      watch, unsettled>>

=============================================================================
