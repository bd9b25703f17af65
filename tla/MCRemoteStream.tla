--------------------------- MODULE MCRemoteStream ---------------------------
(* Instances of RemoteStream for TLC.  A block of the second version is the *)
(* larger one.                                                              *)
EXTENDS RemoteStream

MCWeight == [v \in Versions |-> v]

\* Callers differ in nothing.
CallerSymmetry == Permutations(Callers)
=============================================================================
