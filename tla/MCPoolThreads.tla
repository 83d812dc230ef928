---------------------------- MODULE MCPoolThreads ----------------------------
(* PoolThreads for TLC. *)
EXTENDS PoolThreads
=============================================================================
