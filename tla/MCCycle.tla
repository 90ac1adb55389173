------------------------------ MODULE MCCycle ------------------------------
(* Two cycles at once, three or four in all, around midnight. *)
EXTENDS Cycle, TLC

Symmetry == Permutations(Cycles)
=============================================================================
