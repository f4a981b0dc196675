----------------------------- MODULE Versioning -----------------------------
(***************************************************************************)
(* The resource-version counter that every report kind of one server       *)
(* process shares (pkg/storage/versioning.go).  It lives in memory only:   *)
(* a restarted process starts again from NewVersioning.  Each method holds *)
(* the counter's mutex from its first to its last line, so each is one     *)
(* atomic change of the counter.                                           *)
(***************************************************************************)
EXTENDS Naturals

\* The counter of a process that has just started.
NewVersioning == 1

\* The counter after SetResourceVersion(n): it moves only upwards.
SetResourceVersion(v, n) == IF n > v THEN n ELSE v

\* Mutants of UseResourceVersion: the increment is forgotten; its sign is wrong.
UseWithoutIncrement(v) == v
UseDownwards(v) == v - 1

\* UseResourceVersion hands out the counter's value v and leaves this one.
UseResourceVersion(v) == v + 1

=============================================================================
