----------------------------- MODULE MCExecutor -----------------------------
(* Instances of Executor for TLC. *)
EXTENDS Executor

CONSTANTS c1, c2, t1, t2, t3
=============================================================================
