------------------------------ MODULE MCStore ------------------------------
(* Instances of Store for TLC. *)
EXTENDS Store, TLC

CONSTANTS c1, c2, i1, i2, o1, o2, o3

MCSymmetry == Permutations(Client) \cup Permutations(Id) \cup Permutations(Conn)
=============================================================================
