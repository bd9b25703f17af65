---------------------------- MODULE MCFileTransfer ----------------------------
(* FileTransfer on one transfer of one file of two chunks.                    *)
EXTENDS FileTransfer
CONSTANTS t1, f1, p1
OnePath(t, f) == p1
===============================================================================
