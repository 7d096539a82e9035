-------------------------- MODULE MCTokenRotation --------------------------
(* A small instance of TokenRotation for TLC. *)
EXTENDS TokenRotation, TLC

Symmetry == Permutations(Hooks) \cup Permutations(Callers) \cup Permutations(Calls)
=============================================================================
