------------------------------- MODULE MCPool -------------------------------
(* Pool for TLC. *)
EXTENDS Pool
=============================================================================
