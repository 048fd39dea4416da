---------------------------- MODULE MCOrderArena ----------------------------
(* Bounds for model-checking the arena. *)
EXTENDS OrderArena, TLC

Symmetry == Permutations(Order)
=============================================================================
