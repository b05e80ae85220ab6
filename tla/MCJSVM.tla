------------------------------- MODULE MCJSVM -------------------------------
(* Instances of JSVM for TLC. *)
EXTENDS JSVM

CONSTANTS h1, h2, p1, p2

=============================================================================
