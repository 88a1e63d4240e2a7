----------------------------- MODULE DecoderFeed -----------------------------
(***************************************************************************)
(* What a receiver's H.264 decoder must be fed.  Pictures are numbered in  *)
(* the order of the encoder, which lets each one that is not a keyframe    *)
(* refer to the one before it.                                             *)
(***************************************************************************)
EXTENDS Naturals

VARIABLES
  picture,  \* the number of the last picture fed, 0: none yet
  key       \* whether it is a keyframe

vars == <<picture, key>>

Init == picture = 0 /\ key = FALSE

(* A keyframe may follow any earlier picture.                              *)
Key == key' = TRUE /\ picture' \in Nat /\ picture' > picture

(* Any other picture follows the one it refers to.                         *)
Delta == key' = FALSE /\ picture > 0 /\ picture' = picture + 1

Spec == Init /\ [][Key \/ Delta]_vars
=============================================================================
