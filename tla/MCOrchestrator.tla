--------------------------- MODULE MCOrchestrator ---------------------------
(* Orchestrator for TLC: the workers of a pool are interchangeable.        *)
EXTENDS Orchestrator, TLC

Symmetry == Permutations(Worker)
=============================================================================
