---------------------------- MODULE MCRemoteControl ----------------------------
(* RemoteControl with two requests that race to open a control session.        *)
EXTENDS RemoteControl
================================================================================
