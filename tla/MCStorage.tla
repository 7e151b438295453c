----------------------------- MODULE MCStorage -----------------------------
(* Instances of Storage for TLC. *)
EXTENDS Storage, TLC

ValueSymmetry == Permutations(Values)
=============================================================================
