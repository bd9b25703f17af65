------------------------------ MODULE MCMirror ------------------------------
(* The instance of Mirror for TLC. *)
EXTENDS Mirror
=============================================================================
