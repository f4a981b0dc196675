---------------------------- MODULE MCKeyspaces -----------------------------
(* An instance of Keyspaces for TLC and, in variables of its own, the walk *)
(* over the OpenAPI definitions: there, too, something is found again by a *)
(* name.  A behavior is one of the first or one of the second.             *)
EXTENDS Keyspaces, TLC

VARIABLES stage, todo, built

apiVars == <<stage, todo, built>>

Api == INSTANCE OpenApi

\* A behavior of the walk has the least of everything else.
BothInit ==
    \/ Init /\ stage = "none" /\ todo = <<>> /\ built = {}
    \/ Init /\ part = "memory" /\ Api!Init
BothNext ==
    \/ stage = "none" /\ Next /\ UNCHANGED apiVars
    \/ stage # "none" /\ Api!Next /\ UNCHANGED vars
BothSpec == BothInit /\ [][BothNext]_<<vars, apiVars>>

\* No start ends for want of an OpenAPI definition (Api!DefinitionsFound).
DefinitionsFound == Api!DefinitionsFound

\* The published document is closed (Api!PublishedWhole).
PublishedWhole == Api!PublishedWhole

\* Clusters, contents and callers are told apart only by being equal or not.
Symmetry == Permutations(Clusters) \cup Permutations(Contents) \cup Permutations(Callers)

=============================================================================
