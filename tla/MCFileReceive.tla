---------------------------- MODULE MCFileReceive ----------------------------
(* FileReceive on one transfer of two one-chunk files.                       *)
EXTENDS FileReceive, TLC
CONSTANTS t1, f1, f2, s1

\* Each file has a destination of its own, named like the file.
OwnPath(t, f) == f

Symmetry == Permutations(Attempts) \cup Permutations(Streams) \cup Permutations(Files)
==============================================================================
