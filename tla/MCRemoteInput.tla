----------------------------- MODULE MCRemoteInput -----------------------------
(* RemoteInput with one key: see RemoteInput.cfg.                              *)
EXTENDS RemoteInput
================================================================================
