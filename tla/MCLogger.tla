------------------------------ MODULE MCLogger ------------------------------
(* Logger for TLC: the threads that log are interchangeable. *)
EXTENDS Logger, TLC

CallersSymmetry == Permutations(Callers)
=============================================================================
