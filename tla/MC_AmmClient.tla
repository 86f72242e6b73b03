---------------------------- MODULE MC_AmmClient ----------------------------
(* AmmClient for TLC: the calls are interchangeable, so their permutations   *)
(* are a symmetry of every safety property (not used for liveness).          *)
EXTENDS AmmClient, TLC

CallSymmetry == Permutations(Calls)
=============================================================================
