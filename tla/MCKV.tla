-------------------------------- MODULE MCKV --------------------------------
(* Instances of KVConnection for TLC. *)
EXTENDS KVConnection

CONSTANTS t1, t2, t3, k1, k2, v1, v2
=============================================================================
