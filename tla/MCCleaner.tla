----------------------------- MODULE MCCleaner -----------------------------
(* Instances of Cleaner for TLC. *)
EXTENDS Cleaner, TLC

Symmetry == Permutations(Kickers)
=============================================================================
