-------------------------- MODULE MCMasterRuntime ---------------------------
(* MasterRuntime for TLC: two requests of any two kinds; they are alike, so    *)
(* exchanging them changes nothing an invariant can tell.                      *)
EXTENDS MasterRuntime, TLC

CONSTANTS first, second

MCRequests == {first, second}
MCSymmetry == Permutations(MCRequests)
=============================================================================
