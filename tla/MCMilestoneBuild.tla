--------------------------- MODULE MCMilestoneBuild ---------------------------
(* MilestoneBuild for TLC: the hooks of a turn are interchangeable.        *)
EXTENDS MilestoneBuild, TLC

Symmetry == Permutations(Hook)
=============================================================================
