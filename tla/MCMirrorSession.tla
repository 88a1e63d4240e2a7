--------------------------- MODULE MCMirrorSession ---------------------------
(* MirrorSession for TLC: one thread of each kind, as they do not look at  *)
(* each other's state, and two callers of set_muted.                       *)
EXTENDS MirrorSession
=============================================================================
