---------------------------- MODULE MCBootState ----------------------------
(***************************************************************************)
(* A small instance of BootState: more machines than the map may hold.     *)
(***************************************************************************)
EXTENDS BootState, TLC

Symmetry == Permutations(Mac)
=============================================================================
