------------------------------ MODULE MCIdeation ------------------------------
(* Ideation for TLC: two ideas the world does not have are alike.           *)
EXTENDS Ideation, TLC

Symmetry == Permutations(Idea \ Published) \cup Permutations(Operator)
=============================================================================
