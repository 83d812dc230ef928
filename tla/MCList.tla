------------------------------- MODULE MCList -------------------------------
(* List for TLC: nodes with equal keys are interchangeable. *)
EXTENDS List, TLC

CONSTANTS n1, n2, n3, n4

\* Two nodes compare equal; the others are in the wrong order when pushed
\* back in the order of their names.
MCKey == (n1 :> 2) @@ (n2 :> 1) @@ (n3 :> 1) @@ (n4 :> 0)

EqualKeys == Permutations({n2, n3})
=============================================================================
