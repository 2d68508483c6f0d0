---------------------------- MODULE MCControlPlane ----------------------------
(* ControlPlane for TLC.                                                     *)
EXTENDS ControlPlane, TLC
=============================================================================
