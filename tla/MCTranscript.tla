---------------------------- MODULE MCTranscript ----------------------------
(* Transcript for TLC: threads and projects are interchangeable.           *)
EXTENDS Transcript, TLC

Symmetry == Permutations(Thread) \cup Permutations(Project)
=============================================================================
