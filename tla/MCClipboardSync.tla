--------------------------- MODULE MCClipboardSync ---------------------------
(* The instance of ClipboardSync for TLC. *)
EXTENDS ClipboardSync
==============================================================================
