------------------------------- MODULE MCTray -------------------------------
(* Tray for TLC: few selections and devices.                               *)
EXTENDS Tray
=============================================================================
