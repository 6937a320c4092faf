----------------------------- MODULE MCAccount ------------------------------
(* A small instance of Account for TLC. *)
EXTENDS Account, TLC

Symmetry == Permutations(Tabs) \cup Permutations(Good) \cup Permutations(Kinds)
=============================================================================
