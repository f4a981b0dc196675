---------------------------- MODULE MCMigration -----------------------------
(* Instances of Migration for TLC. *)
EXTENDS Migration, TLC

CONSTANTS k1, k2

\* A kind of each group, or one kind alone.
TwoKinds == (k1 :> "polr") @@ (k2 :> "ephr")
OneKind == (k1 :> "polr") @@ (k2 :> "polr")

=============================================================================
