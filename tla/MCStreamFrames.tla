--------------------------- MODULE MCStreamFrames ---------------------------
(***************************************************************************)
(* StreamFrames for TLC.                                                   *)
(***************************************************************************)
EXTENDS StreamFrames
=============================================================================
