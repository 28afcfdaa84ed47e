----------------------------- MODULE MCSessions -----------------------------
(* Sessions on one realm with two devices and one group. *)
EXTENDS Sessions, TLC

CONSTANTS d1, d2, g1, r1, r2, c1, c2, a1

Symmetry == Permutations(Requests) \cup Permutations(Conns) \cup Permutations(Devices)
=============================================================================
