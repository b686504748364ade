------------------------------- MODULE MCItem -------------------------------
(* Instances of Item for TLC. *)
EXTENDS Item, TLC

Symmetry == Permutations(Openers) \cup Permutations(Blocks)
=============================================================================
