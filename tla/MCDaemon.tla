------------------------------ MODULE MCDaemon ------------------------------
(***************************************************************************)
(* Daemon for TLC.  Targets and workers are model values that nothing but  *)
(* equality tells apart, so they may be permuted in a safety run.          *)
(***************************************************************************)
EXTENDS Daemon, TLC

Symmetry == Permutations(Targets) \cup Permutations(Workers)
=============================================================================
