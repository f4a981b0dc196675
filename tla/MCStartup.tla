----------------------------- MODULE MCStartup ------------------------------
(* Instances of Startup for TLC: lists of replica hosts with empty entries. *)
EXTENDS Startup

CONSTANTS r1, r2

Lists == {<<>>, <<r1>>, <<r1, NoHost, r2>>, <<r2, NoHost>>}

=============================================================================
