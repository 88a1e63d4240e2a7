------------------------------ MODULE MCConnect ------------------------------
(* Connect for TLC: few connects and receivers.                            *)
EXTENDS Connect, TLC

Symmetry == Permutations(Connects)
=============================================================================
