------------------------------- MODULE MCPath -------------------------------
(* Instances of Path for TLC. *)
EXTENDS Path
=============================================================================
