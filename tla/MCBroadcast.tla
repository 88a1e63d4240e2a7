---------------------------- MODULE MCBroadcast -----------------------------
(***************************************************************************)
(* Broadcast for TLC.                                                      *)
(***************************************************************************)
EXTENDS Broadcast, TLC

Symmetry == Permutations(Sinks)
=============================================================================
