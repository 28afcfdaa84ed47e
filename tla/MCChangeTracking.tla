----------------------- MODULE MCChangeTracking -----------------------
(* The instance of ChangeTracking for TLC. *)
EXTENDS ChangeTracking, TLC

\* Paths and values are only compared.
Symmetry == Permutations(Paths) \cup Permutations(Values)
=============================================================================
