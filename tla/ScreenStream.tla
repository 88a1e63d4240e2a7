----------------------------- MODULE ScreenStream -----------------------------
(***************************************************************************)
(* What a screen capture promises who reads it: the stream of one encoder, *)
(* piece by piece from its first byte, however the start came to choose    *)
(* that encoder.  Only a stop ends a read, after the last piece of what    *)
(* was encoded, and nothing is encoded after it.                           *)
(***************************************************************************)
EXTENDS Naturals, Sequences

CONSTANT Parts  \* the pieces that a chunk is read in

VARIABLES
  state,    \* of the capture: none, running or stopped
  over,     \* the encoder has said that its stream is at its end
  encoded,  \* how many chunks have been encoded
  taken,    \* the chunks that the pieces read so far are of
  reader    \* reading, or how that came to an end

vars == <<state, over, encoded, taken, reader>>

Init ==
  /\ state = "none"
  /\ over = FALSE
  /\ encoded = 0
  /\ taken = <<>>
  /\ reader = "reading"

(* The start may have waited for chunks: they are part of the stream.      *)
Start ==
  /\ state = "none"
  /\ state' = "running"
  /\ encoded' \in Nat
  /\ over' \in BOOLEAN
  /\ UNCHANGED <<taken, reader>>

Encode ==
  /\ state = "running"
  /\ ~over
  /\ encoded' = encoded + 1
  /\ UNCHANGED <<state, over, taken, reader>>

Finish ==
  /\ state = "running"
  /\ over' = TRUE
  /\ UNCHANGED <<state, encoded, taken, reader>>

Stop ==
  /\ state = "running"
  /\ state' = "stopped"
  /\ UNCHANGED <<over, encoded, taken, reader>>

(* The piece after the last one that was read.                             *)
Take ==
  /\ state # "none"
  /\ reader = "reading"
  /\ Len(taken) < encoded * Parts
  /\ taken' = Append(taken, (Len(taken) \div Parts) + 1)
  /\ UNCHANGED <<state, over, encoded, reader>>

(* The read ends, as an error if the stream was cut off.                   *)
End ==
  /\ state = "stopped"
  /\ reader = "reading"
  /\ Len(taken) = encoded * Parts
  /\ reader' = IF over THEN "eof" ELSE "error"
  /\ UNCHANGED <<state, over, encoded, taken>>

(* Who reads goes away.                                                    *)
Leave ==
  /\ state # "none"
  /\ reader = "reading"
  /\ reader' = "left"
  /\ UNCHANGED <<state, over, encoded, taken>>

Next ==
  \/ Start
  \/ Encode
  \/ Finish
  \/ Stop
  \/ Take
  \/ End
  \/ Leave

Spec == Init /\ [][Next]_vars
=============================================================================
