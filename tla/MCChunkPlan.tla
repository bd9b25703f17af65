------------------------------ MODULE MCChunkPlan ------------------------------
(* ChunkPlan on every list of up to three files of up to three bytes.          *)
EXTENDS ChunkPlan, TLC
Lists == UNION {[1..n -> 0..3] : n \in 1..3}
Symmetry == Permutations(Senders)
================================================================================
