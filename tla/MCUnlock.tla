-------------------------------- MODULE MCUnlock --------------------------------
(****************************************************************************)
(* Two paired devices and one operation: see Unlock.cfg.  Lifetimes 1 and 2 *)
(* let a replaced grant outlive or undercut the one it replaces; four ticks *)
(* see a token out, its grace, and every delay of the throttle.  The clock  *)
(* bounds the failures: from the third on each waits at least one tick.     *)
(****************************************************************************)
EXTENDS Unlock
=================================================================================
