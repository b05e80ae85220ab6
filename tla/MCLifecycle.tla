---------------------------- MODULE MCLifecycle ----------------------------
(* Two threads that log and two jobs; two references, so that a callback is *)
(* replaced while it is called.                                              *)
EXTENDS Lifecycle, TLC

CONSTANTS t1, t2, j1, j2, r1, r2
Threads == {t1, t2}
Jobs    == {j1, j2}
Refs    == {r1, r2}
Symmetric == Permutations(Threads) \cup Permutations(Jobs) \cup Permutations(Refs)
=============================================================================
