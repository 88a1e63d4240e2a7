---------------------------- MODULE CaptureProofs ----------------------------
(***************************************************************************)
(* Proofs about one screen capture, for every display and mode, and about  *)
(* the picture in its frame, for every size.                               *)
(*                                                                         *)
(* A pipeline that was given up is quiet before the retry begins, so that  *)
(* whatever happens in a pipeline from then on happens in the current one; *)
(* and what the current one has encoded is what was read of it, what waits *)
(* in its channel, and what its callback is about to send, in this order.  *)
(***************************************************************************)
EXTENDS Capture, WellFoundedInduction, TLAPS
LOCAL INSTANCE FiniteSetsExt

(* What start is to find, step by step, and leave behind.                  *)
Early == pc \in {"start", "portal", "build", "play", "probe", "abandon", "failed"}

(* A callback that runs has a chunk, and so has read what is left over.    *)
ChunkInv ==
  /\ \A p \in inCallback : made[p] > 0
  /\ chunk = 0 => left = 0

(* Pipeline 2 waits for the retry; pipeline 1 is over by then.             *)
RetryInv ==
  /\ ~soft => /\ pipe[2] = "none" /\ 2 \notin wired /\ 2 \notin inCallback
              /\ made[2] = 0 /\ queue[2] = <<>> /\ encoder[2] = "none"
  /\ soft => pipe[1] = "null" /\ 1 \notin inCallback /\ encoder[2] \in {"none", Software}

(* The current pipeline is where start has brought it.                     *)
PhaseInv ==
  /\ pc \in {"start", "portal"} => ~soft
  /\ pc \in {"start", "portal", "build"} =>
       pipe[Current] = "none" /\ queue[Current] = <<>>
  /\ pc = "play" => pipe[Current] = "built" /\ queue[Current] = <<>>
  /\ pc \in {"probe", "abandon"} => ~soft /\ pipe[Current] \in {"playing", "over"}
  /\ pc \in {"failed", "dropped"} => pipe[Current] \in {"none", "null", "lost"}
  /\ pipe[Current] \in {"none", "built"} => made[Current] = 0 /\ Current \notin inCallback
  /\ Early => got = <<>> /\ chunk = 0 /\ left = 0 /\ stop = "no"
  /\ pc = "running" /\ ~soft => chunk > 0

PortalInv ==
  display = "wayland" /\ pc \in {"build", "play", "probe", "abandon", "running"} =>
    portal = "open"

(* The current pipeline's chunks.                                          *)
StreamInv ==
  /\ made[Current] = chunk + Len(queue[Current])
                     + (IF Current \in inCallback THEN 1 ELSE 0)
  /\ \A i \in 1..Len(queue[Current]) : queue[Current][i] = chunk + i
  /\ Len(got) + left = chunk * Parts

(* A pipeline has its callbacks when start comes to rely on them, and does *)
(* not go on once it has said that its stream is over.                     *)
EndInv ==
  /\ pc \in {"play", "probe"} => Current \in wired
  /\ \A p \in eos : pipe[p] \notin {"none", "built", "playing"}

IInv ==
  /\ TypeOK /\ ChunkInv /\ RetryInv /\ PhaseInv /\ PortalInv /\ StreamInv
  /\ FromTheFirstByte /\ EndInv

-----------------------------------------------------------------------------
LEMMA HeadTail ==
  ASSUME NEW S, NEW s \in Seq(S), s # <<>>
  PROVE  /\ Head(s) = s[1] /\ Head(s) \in S
         /\ Tail(s) \in Seq(S) /\ Len(Tail(s)) = Len(s) - 1
         /\ \A i \in 1..Len(Tail(s)) : Tail(s)[i] = s[i + 1]
OBVIOUS

(* What build_encoder chooses is one of the encoders, in a retry the one   *)
(* in software.                                                            *)
LEMMA EncoderFacts ==
  ASSUME TypeOK, NEW available \in SUBSET (Hardware \cup {Software}),
         NEW e \in Encoder(available)
  PROVE  e \in Hardware \cup {Software} /\ (soft => e = Software)
<1>1. mode \in {"auto", "nvenc", "vulkan", "vaapi", "none"}
  BY ModesAssumption DEF TypeOK
<1>2. Tried(mode) \in Seq(Hardware)
  <2>1. CASE mode = "auto"
    BY <2>1 DEF Tried, Hardware
  <2>2. CASE mode = "nvenc"
    BY <2>2 DEF Tried, Hardware
  <2>3. CASE mode = "vulkan"
    BY <2>3 DEF Tried, Hardware
  <2>4. CASE mode = "vaapi"
    BY <2>4 DEF Tried, Hardware
  <2>5. CASE mode = "none"
    BY <2>5 DEF Tried, Hardware
  <2> QED
    BY <1>1, <2>1, <2>2, <2>3, <2>4, <2>5
<1>3. Append(Tried(mode), Software) \in Seq(Hardware \cup {Software})
  BY <1>2
<1>4. CASE soft
  BY <1>4 DEF Encoder
<1>5. CASE ~soft
  <2> DEFINE chain == Append(Tried(mode), Software)
  <2>1. \E i \in DOMAIN chain : e = chain[i]
    BY <1>5 DEF Encoder
  <2> QED
    BY <2>1, <1>3, <1>5
<1> QED
  BY <1>4, <1>5

LEMMA InvInit == Init => IInv
<1> SUFFICES ASSUME Init PROVE IInv
  OBVIOUS
<1>1. Current = 1 /\ Pipes = {1, 2}
  BY DEF Init, Current, Pipes
<1>2. TypeOK
  <2>1. queue \in [Pipes -> Seq(1..Chunks)]
    <3>1. <<>> \in Seq(1..Chunks)
      OBVIOUS
    <3> QED
      BY <3>1 DEF Init
  <2>2. got \in Seq(Pipes \X (1..Chunks))
    <3>1. <<>> \in Seq(Pipes \X (1..Chunks))
      OBVIOUS
    <3> QED
      BY <3>1 DEF Init
  <2>3. /\ encoder \in [Pipes -> Hardware \cup {Software, "none"}]
        /\ pipe \in [Pipes -> {"none", "built", "playing", "over", "null", "lost"}]
        /\ made \in [Pipes -> 0..Chunks]
    BY ChunksAssumption DEF Init
  <2>4. 0 \in 0..Chunks /\ 0 \in 0..Parts
    BY PartsAssumption, ChunksAssumption
  <2> QED
    BY <2>1, <2>2, <2>3, <2>4, Zenon DEF Init, TypeOK
<1>3. ChunkInv /\ RetryInv /\ PortalInv /\ EndInv
  BY <1>1 DEF Init, ChunkInv, RetryInv, PortalInv, EndInv
<1>4. PhaseInv
  BY <1>1 DEF Init, PhaseInv
<1>5. StreamInv
  BY <1>1, PartsAssumption DEF Init, StreamInv
<1>6. FromTheFirstByte
  BY DEF Init, FromTheFirstByte
<1> QED
  BY <1>2, <1>3, <1>4, <1>5, <1>6 DEF IInv

LEMMA TypeNext == TypeOK /\ ChunkInv /\ [Next]_vars => TypeOK'
<1> SUFFICES ASSUME TypeOK, ChunkInv, Next \/ UNCHANGED vars PROVE TypeOK'
  OBVIOUS
<1> USE PartsAssumption, ChunksAssumption DEF startVars, pipeVars, readVars
<1>0. Current \in Pipes
  BY DEF Current, Pipes
<1>a. CASE Start
  <2>1. display \in {"test", "wayland", "x11", "none"}
    BY DisplaysAssumption DEF TypeOK
  <2>2. pc' \in {"failed", "portal", "build"}
    BY <1>a, <2>1 DEF Start
  <2> QED
    BY <1>a, <2>2 DEF TypeOK, Start
<1>1. CASE PortalGrants \/ PortalRefuses \/ BuildFails
  BY <1>1 DEF TypeOK, PortalGrants, PortalRefuses, BuildFails, GivesUp
<1>2. CASE Build
  <2>1. PICK available \in SUBSET (Hardware \cup {Software}) :
          \E e \in Encoder(available) : encoder' = [encoder EXCEPT ![Current] = e]
    BY <1>2 DEF Build
  <2>2. PICK e \in Hardware \cup {Software} : encoder' = [encoder EXCEPT ![Current] = e]
    BY <2>1, EncoderFacts
  <2> QED
    BY <1>0, <2>2, <1>2 DEF TypeOK, Build
<1>3. CASE Play \/ PlayFailsX11 \/ PlayFails
  BY <1>0, <1>3 DEF TypeOK, Play, PlayFailsX11, PlayFails, GivesUp
<1>4. CASE ProbeFirstFrame
  BY <1>0, <1>4 DEF TypeOK, ProbeFirstFrame
<1>5. CASE ProbeTimesOut \/ Abandon
  BY <1>0, <1>5 DEF TypeOK, ProbeTimesOut, Abandon
<1>6. ASSUME NEW p \in Pipes, NewSample(p) \/ SendSample(p) \/ EndByItself(p)
      PROVE  TypeOK'
  <2>1. CASE NewSample(p)
    BY <2>1 DEF TypeOK, NewSample
  <2>2. CASE SendSample(p)
    <3>1. made[p] \in 1..Chunks
      BY <1>6, <2>2 DEF TypeOK, ChunkInv, SendSample
    <3>2. queue' \in [Pipes -> Seq(1..Chunks)]
      <4>1. queue[p] \in Seq(1..Chunks)
        BY <1>6 DEF TypeOK
      <4>2. Append(queue[p], made[p]) \in Seq(1..Chunks)
        BY <4>1, <3>1
      <4>3. queue' = [queue EXCEPT ![p] = Append(queue[p], made[p])]
        BY <2>2 DEF SendSample
      <4> QED
        BY <4>2, <4>3 DEF TypeOK
    <3> QED
      BY <3>2, <2>2 DEF TypeOK, SendSample
  <2>3. CASE EndByItself(p)
    BY <2>3 DEF TypeOK, EndByItself
  <2> QED
    BY <1>6, <2>1, <2>2, <2>3
<1>7. CASE ReadLeftover
  <2>1. chunk \in 1..Chunks /\ left - 1 \in 0..Parts
    BY <1>7 DEF TypeOK, ChunkInv, ReadLeftover
  <2>2. got' \in Seq(Pipes \X (1..Chunks))
    BY <1>0, <1>7, <2>1, SMTT(30) DEF TypeOK, ReadLeftover
  <2> QED
    BY <2>1, <2>2, <1>7 DEF TypeOK, ReadLeftover
<1>8. CASE ReadChunk
  <2>1. queue[Current] \in Seq(1..Chunks) /\ queue[Current] # <<>>
    BY <1>0, <1>8 DEF TypeOK, ReadChunk
  <2>2. chunk' \in 1..Chunks /\ Tail(queue[Current]) \in Seq(1..Chunks)
    BY <2>1, HeadTail, <1>8 DEF ReadChunk
  <2>3. got' \in Seq(Pipes \X (1..Chunks))
    BY <1>0, <1>8, <2>2 DEF TypeOK, ReadChunk
  <2>4. queue' \in [Pipes -> Seq(1..Chunks)]
    BY <1>0, <1>8, <2>2 DEF TypeOK, ReadChunk
  <2> QED
    BY <2>2, <2>3, <2>4, <1>8, SMTT(30) DEF TypeOK, ReadChunk
<1>9. CASE ReadEnd \/ Leave \/ StopClears \/ StopNull \/ Drop
  BY <1>0, <1>9, ZenonT(60) DEF TypeOK, ReadEnd, Leave, StopClears, StopNull, Drop
<1>10. CASE UNCHANGED vars
  BY <1>10 DEF TypeOK, vars
<1> QED
  BY <1>a, <1>1, <1>2, <1>3, <1>4, <1>5, <1>6, <1>7, <1>8, <1>9, <1>10
     DEF Next, StartStep, Read

LEMMA CurrentFacts ==
  /\ soft \in BOOLEAN => Current = IF soft THEN 2 ELSE 1
  /\ soft' \in BOOLEAN => Current' = IF soft' THEN 2 ELSE 1
  /\ soft' = soft => Current' = Current
  /\ Pipes = {1, 2}
BY DEF Current, Pipes

LEMMA StartFacts ==
  ASSUME TypeOK, Start
  PROVE  /\ pc = "start" /\ pc' \in {"failed", "portal", "build"}
         /\ display = "wayland" => pc' = "portal"
         /\ UNCHANGED <<display, mode, soft, portal, pipeVars, readVars>>
<1>1. display \in {"test", "wayland", "x11", "none"}
  BY DisplaysAssumption DEF TypeOK
<1>2. /\ pc = "start"
      /\ UNCHANGED <<display, mode, soft, portal, pipeVars, readVars>>
  BY DEF Start, pipeVars, readVars
<1>3. CASE display = "none"
  BY <1>2, <1>3 DEF Start
<1>4. CASE display = "wayland"
  BY <1>2, <1>4 DEF Start
<1>5. CASE display \in {"test", "x11"}
  BY <1>2, <1>5 DEF Start
<1> QED
  BY <1>1, <1>3, <1>4, <1>5

LEMMA CountFacts == TypeOK => chunk \in Nat /\ made[Current] \in Nat
<1>1. Current \in Pipes
  BY DEF Current, Pipes
<1> QED
  BY <1>1, ChunksAssumption DEF TypeOK

(* What is taken from the channel, by the probe or by read, is a chunk.    *)
LEMMA TakenFacts ==
  ASSUME TypeOK, queue[Current] # <<>>
  PROVE  /\ queue[Current] \in Seq(1..Chunks) /\ Len(queue[Current]) \in Nat \ {0}
         /\ Head(queue[Current]) \in 1..Chunks
         /\ Head(queue[Current]) = queue[Current][1]
         /\ Len(Tail(queue[Current])) = Len(queue[Current]) - 1
         /\ \A i \in 1..Len(Tail(queue[Current])) :
              Tail(queue[Current])[i] = queue[Current][i + 1]
<1>1. queue[Current] \in Seq(1..Chunks)
  BY CurrentFacts DEF TypeOK
<1>2. Len(queue[Current]) \in Nat \ {0}
  BY <1>1
<1> QED
  BY <1>1, <1>2, HeadTail

LEMMA RetryNext == TypeOK /\ ChunkInv /\ RetryInv /\ PhaseInv /\ [Next]_vars => RetryInv'
<1> SUFFICES ASSUME TypeOK, ChunkInv, RetryInv, PhaseInv, Next \/ UNCHANGED vars
             PROVE  RetryInv'
  OBVIOUS
<1> USE CurrentFacts DEF startVars, pipeVars, readVars, TypeOK, ChunkInv, RetryInv, PhaseInv, Early
<1>1. CASE Start
  BY <1>1, StartFacts
<1>2. CASE PortalGrants
  BY <1>2 DEF PortalGrants
<1>3. CASE PortalRefuses
  BY <1>3 DEF PortalRefuses, GivesUp
<1>4. CASE Build
  <2>1. PICK available \in SUBSET (Hardware \cup {Software}) :
          \E e \in Encoder(available) : encoder' = [encoder EXCEPT ![Current] = e]
    BY <1>4 DEF Build
  <2>2. PICK e \in Encoder(available) : encoder' = [encoder EXCEPT ![Current] = e]
    BY <2>1
  <2>a. e \in Hardware \cup {Software} /\ (soft => e = Software)
    BY EncoderFacts
  <2>3. /\ pipe' = [pipe EXCEPT ![Current] = "built"]
        /\ wired' = wired \cup {Current}
        /\ UNCHANGED <<soft, inCallback, made, queue>>
        /\ pc = "build"
    BY <1>4 DEF Build
  <2>4. CASE soft
    BY <2>2, <2>a, <2>3, <2>4
  <2>5. CASE ~soft
    BY <2>2, <2>a, <2>3, <2>5
  <2> QED
    BY <2>4, <2>5
<1>5. CASE BuildFails
  BY <1>5 DEF BuildFails, GivesUp
<1>6. CASE Play
  BY <1>6 DEF Play
<1>7. CASE PlayFailsX11
  BY <1>7 DEF PlayFailsX11, GivesUp, Software
<1>8. CASE PlayFails
  BY <1>8 DEF PlayFails, GivesUp
<1>9. CASE ProbeFirstFrame
  BY <1>9 DEF ProbeFirstFrame
<1>10. CASE ProbeTimesOut
  BY <1>10 DEF ProbeTimesOut
<1>11. CASE Abandon
  BY <1>11 DEF Abandon
<1>12. ASSUME NEW p \in Pipes, NewSample(p) PROVE RetryInv'
  BY <1>12 DEF NewSample
<1>13. ASSUME NEW p \in Pipes, SendSample(p) PROVE RetryInv'
  BY <1>13 DEF SendSample
<1>14. ASSUME NEW p \in Pipes, EndByItself(p) PROVE RetryInv'
  BY <1>14 DEF EndByItself
<1>15. CASE ReadLeftover
  BY <1>15 DEF ReadLeftover, Reading
<1>16. CASE ReadChunk
  BY <1>16 DEF ReadChunk, Reading
<1>17. CASE ReadEnd
  BY <1>17 DEF ReadEnd, Reading
<1>18. CASE Leave
  BY <1>18 DEF Leave, Reading
<1>19. CASE StopClears
  BY <1>19 DEF StopClears, Reading
<1>20. CASE StopNull
  BY <1>20 DEF StopNull, Reading
<1>21. CASE Drop
  BY <1>21 DEF Drop, Reading
<1>22. CASE UNCHANGED vars
  BY <1>22 DEF vars
<1> QED
  BY <1>1, <1>2, <1>3, <1>4, <1>5, <1>6, <1>7, <1>8, <1>9, <1>10, <1>11, <1>12, <1>13, <1>14, <1>15, <1>16, <1>17, <1>18, <1>19, <1>20, <1>21, <1>22
     DEF Next, StartStep, Read

LEMMA PhaseNext == TypeOK /\ ChunkInv /\ RetryInv /\ PhaseInv /\ [Next]_vars => PhaseInv'
<1> SUFFICES ASSUME TypeOK, ChunkInv, RetryInv, PhaseInv, Next \/ UNCHANGED vars
             PROVE  PhaseInv'
  OBVIOUS
<1> USE CurrentFacts DEF startVars, pipeVars, readVars, TypeOK, ChunkInv, RetryInv, PhaseInv, Early
<1>1. CASE Start
  BY <1>1, StartFacts
<1>2. CASE PortalGrants
  BY <1>2 DEF PortalGrants
<1>3. CASE PortalRefuses
  BY <1>3 DEF PortalRefuses, GivesUp
<1>4. CASE Build
  BY <1>4 DEF Build
<1>5. CASE BuildFails
  BY <1>5 DEF BuildFails, GivesUp
<1>6. CASE Play
  BY <1>6 DEF Play
<1>7. CASE PlayFailsX11
  BY <1>7 DEF PlayFailsX11, GivesUp, Software
<1>8. CASE PlayFails
  BY <1>8 DEF PlayFails, GivesUp
<1>9. CASE ProbeFirstFrame
  BY <1>9, TakenFacts DEF ProbeFirstFrame
<1>10. CASE ProbeTimesOut
  BY <1>10 DEF ProbeTimesOut
<1>11. CASE Abandon
  BY <1>11 DEF Abandon
<1>12. ASSUME NEW p \in Pipes, NewSample(p) PROVE PhaseInv'
  BY <1>12 DEF NewSample
<1>13. ASSUME NEW p \in Pipes, SendSample(p) PROVE PhaseInv'
  BY <1>13 DEF SendSample
<1>14. ASSUME NEW p \in Pipes, EndByItself(p) PROVE PhaseInv'
  BY <1>14 DEF EndByItself
<1>15. CASE ReadLeftover
  BY <1>15 DEF ReadLeftover, Reading
<1>16. CASE ReadChunk
  BY <1>16, TakenFacts DEF ReadChunk, Reading
<1>17. CASE ReadEnd
  BY <1>17 DEF ReadEnd, Reading
<1>18. CASE Leave
  BY <1>18 DEF Leave, Reading
<1>19. CASE StopClears
  BY <1>19 DEF StopClears, Reading
<1>20. CASE StopNull
  BY <1>20 DEF StopNull, Reading
<1>21. CASE Drop
  BY <1>21 DEF Drop, Reading
<1>22. CASE UNCHANGED vars
  BY <1>22 DEF vars
<1> QED
  BY <1>1, <1>2, <1>3, <1>4, <1>5, <1>6, <1>7, <1>8, <1>9, <1>10, <1>11, <1>12, <1>13, <1>14, <1>15, <1>16, <1>17, <1>18, <1>19, <1>20, <1>21, <1>22
     DEF Next, StartStep, Read

LEMMA PortalNext == TypeOK /\ PortalInv /\ [Next]_vars => PortalInv'
<1> SUFFICES ASSUME TypeOK, PortalInv, Next \/ UNCHANGED vars
             PROVE  PortalInv'
  OBVIOUS
<1> USE CurrentFacts DEF startVars, pipeVars, readVars, TypeOK, PortalInv
<1>1. CASE Start
  BY <1>1, StartFacts
<1>2. CASE PortalGrants
  BY <1>2 DEF PortalGrants
<1>3. CASE PortalRefuses
  BY <1>3 DEF PortalRefuses, GivesUp
<1>4. CASE Build
  BY <1>4 DEF Build
<1>5. CASE BuildFails
  BY <1>5 DEF BuildFails, GivesUp
<1>6. CASE Play
  BY <1>6 DEF Play
<1>7. CASE PlayFailsX11
  BY <1>7 DEF PlayFailsX11, GivesUp, Software
<1>8. CASE PlayFails
  BY <1>8 DEF PlayFails, GivesUp
<1>9. CASE ProbeFirstFrame
  BY <1>9, TakenFacts DEF ProbeFirstFrame
<1>10. CASE ProbeTimesOut
  BY <1>10 DEF ProbeTimesOut
<1>11. CASE Abandon
  BY <1>11 DEF Abandon
<1>12. ASSUME NEW p \in Pipes, NewSample(p) PROVE PortalInv'
  BY <1>12 DEF NewSample
<1>13. ASSUME NEW p \in Pipes, SendSample(p) PROVE PortalInv'
  BY <1>13 DEF SendSample
<1>14. ASSUME NEW p \in Pipes, EndByItself(p) PROVE PortalInv'
  BY <1>14 DEF EndByItself
<1>15. CASE ReadLeftover
  BY <1>15 DEF ReadLeftover, Reading
<1>16. CASE ReadChunk
  BY <1>16, TakenFacts DEF ReadChunk, Reading
<1>17. CASE ReadEnd
  BY <1>17 DEF ReadEnd, Reading
<1>18. CASE Leave
  BY <1>18 DEF Leave, Reading
<1>19. CASE StopClears
  BY <1>19 DEF StopClears, Reading
<1>20. CASE StopNull
  BY <1>20 DEF StopNull, Reading
<1>21. CASE Drop
  BY <1>21 DEF Drop, Reading
<1>22. CASE UNCHANGED vars
  BY <1>22 DEF vars
<1> QED
  BY <1>1, <1>2, <1>3, <1>4, <1>5, <1>6, <1>7, <1>8, <1>9, <1>10, <1>11, <1>12, <1>13, <1>14, <1>15, <1>16, <1>17, <1>18, <1>19, <1>20, <1>21, <1>22
     DEF Next, StartStep, Read

LEMMA ChunkNext == TypeOK /\ ChunkInv /\ PhaseInv /\ [Next]_vars => ChunkInv'
<1> SUFFICES ASSUME TypeOK, ChunkInv, PhaseInv, Next \/ UNCHANGED vars
             PROVE  ChunkInv'
  OBVIOUS
<1> USE CurrentFacts DEF startVars, pipeVars, readVars, TypeOK, ChunkInv, PhaseInv
<1>1. CASE Start
  BY <1>1, StartFacts
<1>2. CASE PortalGrants
  BY <1>2 DEF PortalGrants
<1>3. CASE PortalRefuses
  BY <1>3 DEF PortalRefuses, GivesUp
<1>4. CASE Build
  BY <1>4 DEF Build
<1>5. CASE BuildFails
  BY <1>5 DEF BuildFails, GivesUp
<1>6. CASE Play
  BY <1>6 DEF Play
<1>7. CASE PlayFailsX11
  BY <1>7 DEF PlayFailsX11, GivesUp, Software
<1>8. CASE PlayFails
  BY <1>8 DEF PlayFails, GivesUp
<1>9. CASE ProbeFirstFrame
  BY <1>9, TakenFacts DEF ProbeFirstFrame
<1>10. CASE ProbeTimesOut
  BY <1>10 DEF ProbeTimesOut
<1>11. CASE Abandon
  BY <1>11 DEF Abandon
<1>12. ASSUME NEW p \in Pipes, NewSample(p) PROVE ChunkInv'
  BY <1>12 DEF NewSample
<1>13. ASSUME NEW p \in Pipes, SendSample(p) PROVE ChunkInv'
  BY <1>13 DEF SendSample
<1>14. ASSUME NEW p \in Pipes, EndByItself(p) PROVE ChunkInv'
  BY <1>14 DEF EndByItself
<1>15. CASE ReadLeftover
  BY <1>15 DEF ReadLeftover, Reading
<1>16. CASE ReadChunk
  BY <1>16, TakenFacts DEF ReadChunk, Reading
<1>17. CASE ReadEnd
  BY <1>17 DEF ReadEnd, Reading
<1>18. CASE Leave
  BY <1>18 DEF Leave, Reading
<1>19. CASE StopClears
  BY <1>19 DEF StopClears, Reading
<1>20. CASE StopNull
  BY <1>20 DEF StopNull, Reading
<1>21. CASE Drop
  BY <1>21 DEF Drop, Reading
<1>22. CASE UNCHANGED vars
  BY <1>22 DEF vars
<1> QED
  BY <1>1, <1>2, <1>3, <1>4, <1>5, <1>6, <1>7, <1>8, <1>9, <1>10, <1>11, <1>12, <1>13, <1>14, <1>15, <1>16, <1>17, <1>18, <1>19, <1>20, <1>21, <1>22
     DEF Next, StartStep, Read

LEMMA Shift == ASSUME NEW a \in Nat, NEW b \in Nat PROVE (a + 1) + (b - 1) = a + b
OBVIOUS

LEMMA StreamNext == TypeOK /\ ChunkInv /\ RetryInv /\ PhaseInv /\ StreamInv /\ [Next]_vars => StreamInv'
<1> SUFFICES ASSUME TypeOK, ChunkInv, RetryInv, PhaseInv, StreamInv, Next \/ UNCHANGED vars
             PROVE  StreamInv'
  OBVIOUS
<1> USE CurrentFacts DEF startVars, pipeVars, readVars, TypeOK, ChunkInv, RetryInv, PhaseInv, Early, StreamInv
<1>1. CASE Start
  BY <1>1, StartFacts
<1>2. CASE PortalGrants
  BY <1>2 DEF PortalGrants
<1>3. CASE PortalRefuses
  BY <1>3 DEF PortalRefuses, GivesUp
<1>4. CASE Build
  BY <1>4, ZenonT(60) DEF Build
<1>5. CASE BuildFails
  BY <1>5 DEF BuildFails, GivesUp
<1>6. CASE Play
  BY <1>6 DEF Play
<1>7. CASE PlayFailsX11
  <2>1. CASE soft' = soft
    BY <1>7, <2>1 DEF PlayFailsX11
  <2>2. CASE soft' # soft
    <3>1. ~soft /\ Current' = 2
      BY <1>7, <2>2 DEF PlayFailsX11, GivesUp
    <3>2. made'[2] = 0 /\ queue'[2] = <<>> /\ 2 \notin inCallback'
      BY <1>7, <3>1 DEF PlayFailsX11
    <3>3. chunk' = 0 /\ left' = 0 /\ got' = <<>>
      BY <1>7 DEF PlayFailsX11
    <3> QED
      BY <3>1, <3>2, <3>3, PartsAssumption
  <2> QED
    BY <2>1, <2>2
<1>8. CASE PlayFails
  BY <1>8 DEF PlayFails, GivesUp
<1>9. CASE ProbeFirstFrame
  <2>1. TypeOK /\ queue[Current] # <<>>
    BY <1>9 DEF ProbeFirstFrame
  <2>2. Current' = Current
    BY <1>9 DEF ProbeFirstFrame
  <2>3. queue'[Current] = Tail(queue[Current])
    BY <1>9 DEF ProbeFirstFrame
  <2>4. chunk = 0 /\ got = <<>> /\ left = 0
    BY <1>9 DEF ProbeFirstFrame
  <2>5. chunk' = 1 /\ left' = Parts /\ got' = <<>>
    BY <1>9, <2>1, <2>4, TakenFacts DEF ProbeFirstFrame
  <2>6. made' = made /\ inCallback' = inCallback
    BY <1>9 DEF ProbeFirstFrame
  <2>t. /\ Len(Tail(queue[Current])) = Len(queue[Current]) - 1
        /\ Len(queue[Current]) \in Nat
        /\ made[Current] = chunk + Len(queue[Current])
                           + (IF Current \in inCallback THEN 1 ELSE 0)
    BY <2>1, TakenFacts
  <2>u. chunk \in Nat /\ made[Current] \in Nat
    BY CountFacts
  <2>7. made'[Current'] = chunk' + Len(queue'[Current'])
                          + (IF Current' \in inCallback' THEN 1 ELSE 0)
    <3>1. /\ made'[Current'] = made[Current]
          /\ Len(queue'[Current']) = Len(queue[Current]) - 1
          /\ Current' \in inCallback' <=> Current \in inCallback
      BY ONLY <2>2, <2>3, <2>6, <2>t
    <3>2. CASE Current \in inCallback
      <4>1. made[Current] = chunk + Len(queue[Current]) + 1
        BY ONLY <2>t, <3>2
      <4>2. made[Current] = chunk' + Len(queue'[Current']) + 1
        BY ONLY <4>1, <2>t, <2>u, <3>1, <2>4, <2>5
      <4>3. Current' \in inCallback'
        BY ONLY <3>1, <3>2
      <4> QED
        BY ONLY <4>2, <4>3, <3>1
    <3>3. CASE Current \notin inCallback
      <4>1. made[Current] = chunk + Len(queue[Current])
        BY ONLY <2>t, <2>u, <3>3
      <4>2. made[Current] = chunk' + Len(queue'[Current'])
        BY ONLY <4>1, <2>t, <2>u, <3>1, <2>4, <2>5
      <4>4. chunk' \in Nat /\ Len(queue'[Current']) \in Int
        BY ONLY <2>t, <2>u, <3>1, <2>4, <2>5
      <4>3. Current' \notin inCallback'
        BY ONLY <3>1, <3>3
      <4> QED
        BY ONLY <4>2, <4>3, <3>1, <4>4
    <3> QED
      BY <3>2, <3>3
  <2>8. \A i \in 1..Len(queue'[Current']) : queue'[Current'][i] = chunk' + i
    BY <2>1, <2>2, <2>3, <2>4, <2>5, TakenFacts
  <2>9. Len(got') + left' = chunk' * Parts
    BY ONLY <2>5, PartsAssumption
  <2> QED
    BY ONLY <2>7, <2>8, <2>9 DEF StreamInv
<1>10. CASE ProbeTimesOut
  BY <1>10 DEF ProbeTimesOut
<1>11. CASE Abandon
  BY <1>11 DEF Abandon
<1>12. ASSUME NEW p \in Pipes, NewSample(p) PROVE StreamInv'
  <2>1. p = Current
    BY <1>12 DEF NewSample
  <2>2. /\ made'[Current] = made[Current] + 1
        /\ Current \in inCallback' /\ Current \notin inCallback
    BY <1>12, <2>1 DEF NewSample
  <2>3. Current' = Current /\ UNCHANGED <<queue, chunk, left, got>>
    BY <1>12 DEF NewSample
  <2>4. queue[Current] \in Seq(1..Chunks)
    OBVIOUS
  <2> QED
    BY ONLY <2>2, <2>3, <2>4, StreamInv, TypeOK DEF StreamInv, TypeOK
<1>13. ASSUME NEW p \in Pipes, SendSample(p) PROVE StreamInv'
  <2>1. p = Current
    BY <1>13 DEF SendSample
  <2>2. /\ queue'[Current] = Append(queue[Current], made[Current])
        /\ Current \notin inCallback' /\ Current \in inCallback
    BY <1>13, <2>1 DEF SendSample
  <2>3. Current' = Current /\ UNCHANGED <<made, chunk, left, got>>
    BY <1>13 DEF SendSample
  <2>4. queue[Current] \in Seq(1..Chunks)
    OBVIOUS
  <2> DEFINE Q == queue[Current]
             k == made[Current]
  <2>5. k \in Nat /\ chunk \in Nat
    BY CountFacts
  <2>6. /\ Q \in Seq(1..Chunks) /\ k = chunk + Len(Q) + 1
        /\ \A i \in 1..Len(Q) : Q[i] = chunk + i
    BY ONLY <2>2, <2>4, StreamInv DEF StreamInv
  <2>7. /\ Len(Append(Q, k)) = Len(Q) + 1
        /\ \A i \in 1..Len(Append(Q, k)) : Append(Q, k)[i] = chunk + i
    <3> HIDE DEF Q, k
    <3> QED
      BY ONLY <2>5, <2>6
  <2>8. queue'[Current'] = Append(Q, k) /\ made'[Current'] = k
    BY ONLY <2>2, <2>3
  <2>9. Len(got') + left' = chunk' * Parts
    BY ONLY <2>3, StreamInv DEF StreamInv
  <2>10. Current' \notin inCallback' /\ chunk' = chunk
    BY ONLY <2>2, <2>3
  <2>11. Len(Q) \in Nat
    BY ONLY <2>6
  <2> QED
    <3> HIDE DEF Q, k
    <3> QED
      BY ONLY <2>5, <2>6, <2>7, <2>8, <2>9, <2>10, <2>11 DEF StreamInv
<1>14. ASSUME NEW p \in Pipes, EndByItself(p) PROVE StreamInv'
  BY <1>14 DEF EndByItself
<1>15. CASE ReadLeftover
  <2>1. /\ got' = Append(got, <<Current, chunk>>)
        /\ left' = left - 1
        /\ Current' = Current
        /\ UNCHANGED <<made, queue, inCallback, chunk>>
    BY <1>15 DEF ReadLeftover
  <2>2. Len(got') = Len(got) + 1 /\ Len(got) \in Nat
    BY <2>1
  <2>3. Len(got') + left' = Len(got) + left
    BY <2>1, <2>2
  <2> QED
    BY ONLY <2>1, <2>3, StreamInv DEF StreamInv
<1>16. CASE ReadChunk
  <2>1. TypeOK /\ queue[Current] # <<>>
    BY <1>16 DEF ReadChunk
  <2>2. Current' = Current
    BY <1>16 DEF ReadChunk
  <2>3. /\ queue'[Current] = Tail(queue[Current])
        /\ made' = made /\ inCallback' = inCallback
    BY <1>16 DEF ReadChunk
  <2>4. chunk' = chunk + 1
    BY <1>16, <2>1, TakenFacts DEF ReadChunk
  <2>5. Len(got') + left' = chunk' * Parts
    <3>1. got' = Append(got, <<Current, chunk'>>) /\ left = 0 /\ left' = Parts - 1
      BY <1>16 DEF ReadChunk
    <3>2. Len(got') = Len(got) + 1 /\ Len(got) \in Nat
      BY <3>1
    <3>3. (chunk + 1) * Parts = chunk * Parts + Parts
      BY PartsAssumption
    <3>4. chunk * Parts \in Int /\ Parts \in Nat
      BY PartsAssumption
    <3>5. Len(got) = chunk * Parts
      BY ONLY <3>1, <3>2, <3>4, StreamInv DEF StreamInv
    <3> QED
      BY ONLY <2>4, <3>1, <3>2, <3>3, <3>4, <3>5
  <2>t. /\ Len(Tail(queue[Current])) = Len(queue[Current]) - 1
        /\ Len(queue[Current]) \in Nat
        /\ made[Current] = chunk + Len(queue[Current])
                           + (IF Current \in inCallback THEN 1 ELSE 0)
    BY <2>1, TakenFacts
  <2>u. chunk \in Nat /\ made[Current] \in Nat
    BY CountFacts
  <2>6. made'[Current'] = chunk' + Len(queue'[Current'])
                          + (IF Current' \in inCallback' THEN 1 ELSE 0)
    <3>1. /\ made'[Current'] = made[Current]
          /\ Len(queue'[Current']) = Len(queue[Current]) - 1
          /\ Current' \in inCallback' <=> Current \in inCallback
      BY ONLY <2>2, <2>3, <2>t
    <3>2. CASE Current \in inCallback
      <4>1. made[Current] = chunk + Len(queue[Current]) + 1
        BY ONLY <2>t, <2>u, <3>2
      <4>2. made[Current] = chunk' + Len(queue'[Current']) + 1
        <5>0. chunk \in Nat /\ Len(queue[Current]) \in Nat
          BY ONLY <2>t, <2>u
        <5>1. (chunk + 1) + (Len(queue[Current]) - 1) = chunk + Len(queue[Current])
          BY ONLY <5>0, Shift, Zenon
        <5> QED
          BY ONLY <4>1, <5>1, <3>1, <2>4
      <4>4. chunk' \in Nat /\ Len(queue'[Current']) \in Int
        BY ONLY <2>t, <2>u, <3>1, <2>4
      <4>3. Current' \in inCallback'
        BY ONLY <3>1, <3>2
      <4> QED
        BY ONLY <4>2, <4>3, <3>1, <4>4
    <3>3. CASE Current \notin inCallback
      <4>1. made[Current] = chunk + Len(queue[Current])
        BY ONLY <2>t, <2>u, <3>3
      <4>2. made[Current] = chunk' + Len(queue'[Current'])
        <5>0. chunk \in Nat /\ Len(queue[Current]) \in Nat
          BY ONLY <2>t, <2>u
        <5>1. (chunk + 1) + (Len(queue[Current]) - 1) = chunk + Len(queue[Current])
          BY ONLY <5>0, Shift, Zenon
        <5> QED
          BY ONLY <4>1, <5>1, <3>1, <2>4
      <4>4. chunk' \in Nat /\ Len(queue'[Current']) \in Int
        BY ONLY <2>t, <2>u, <3>1, <2>4
      <4>3. Current' \notin inCallback'
        BY ONLY <3>1, <3>3
      <4> QED
        BY ONLY <4>2, <4>3, <3>1, <4>4
    <3> QED
      BY <3>2, <3>3
  <2>7. \A i \in 1..Len(queue'[Current']) : queue'[Current'][i] = chunk' + i
    <3> DEFINE Q == queue[Current]
    <3>1. /\ \A i \in 1..Len(Q) : Q[i] = chunk + i
          /\ \A i \in 1..Len(Tail(Q)) : Tail(Q)[i] = Q[i + 1]
          /\ Len(Tail(Q)) = Len(Q) - 1 /\ Len(Q) \in Nat
      BY <2>1, <2>t, TakenFacts
    <3>2. \A i \in 1..Len(Tail(Q)) : Tail(Q)[i] = chunk + (i + 1)
      <4> HIDE DEF Q
      <4> QED
        BY ONLY <3>1, <2>u
    <3> QED
      BY ONLY <2>2, <2>3, <2>4, <2>t, <2>u, <3>2
  <2> QED
    BY ONLY <2>5, <2>6, <2>7 DEF StreamInv
<1>17. CASE ReadEnd
  BY <1>17 DEF ReadEnd, Reading
<1>18. CASE Leave
  BY <1>18 DEF Leave, Reading
<1>19. CASE StopClears
  BY <1>19 DEF StopClears, Reading
<1>20. CASE StopNull
  BY <1>20 DEF StopNull, Reading
<1>21. CASE Drop
  BY <1>21 DEF Drop, Reading
<1>22. CASE UNCHANGED vars
  BY <1>22 DEF vars
<1> QED
  BY <1>1, <1>2, <1>3, <1>4, <1>5, <1>6, <1>7, <1>8, <1>9, <1>10, <1>11, <1>12, <1>13, <1>14, <1>15, <1>16, <1>17, <1>18, <1>19, <1>20, <1>21, <1>22
     DEF Next, StartStep, Read

(* The remainder r aside, k * P + r is k times P.                          *)
LEMMA Quotient ==
  ASSUME NEW k \in Nat, NEW r \in Nat, NEW P \in Nat \ {0}, r < P
  PROVE  (k * P + r) \div P = k
<1> DEFINE n == k * P + r
           q == n \div P
           m == n % P
<1>0. k * P \in Nat /\ n \in Nat
  BY SMT
<1>1. q \in Nat /\ m \in 0..(P - 1) /\ n = P * q + m
  BY <1>0, SMT
<1>2. CASE q = k
  BY <1>2
<1>3. CASE q > k
  <2>1. PICK d \in Nat : q = k + 1 + d
    <3>1. q = k + 1 + (q - k - 1) /\ q - k - 1 \in Nat
      BY <1>1, <1>3
    <3> QED
      BY <3>1
  <2>2. P * q = k * P + P + d * P /\ d * P \in Nat
    BY <2>1
  <2> QED
    BY <2>2, <1>1, <1>0
<1>4. CASE q < k
  <2>1. PICK d \in Nat : k = q + 1 + d
    <3>1. k = q + 1 + (k - q - 1) /\ k - q - 1 \in Nat
      BY <1>1, <1>4
    <3> QED
      BY <3>1
  <2>2. k * P = P * q + P + d * P /\ d * P \in Nat
    BY <2>1, <1>1
  <2> QED
    BY <2>2, <1>1, <1>0
<1> QED
  BY <1>1, <1>2, <1>3, <1>4

LEMMA GotDomain == TypeOK => DOMAIN got = 1..Len(got)
BY DEF TypeOK

LEMMA ReadNext == TypeOK /\ ChunkInv /\ RetryInv /\ PhaseInv /\ StreamInv /\ FromTheFirstByte /\ [Next]_vars => FromTheFirstByte'
<1> SUFFICES ASSUME TypeOK, ChunkInv, RetryInv, PhaseInv, StreamInv, FromTheFirstByte, Next \/ UNCHANGED vars
             PROVE  FromTheFirstByte'
  OBVIOUS
<1> USE CurrentFacts DEF startVars, pipeVars, readVars, TypeOK, RetryInv, PhaseInv, Early, FromTheFirstByte
<1>1. CASE Start
  BY <1>1, StartFacts
<1>2. CASE PortalGrants
  BY <1>2 DEF PortalGrants
<1>3. CASE PortalRefuses
  BY <1>3 DEF PortalRefuses, GivesUp
<1>4. CASE Build
  BY <1>4 DEF Build
<1>5. CASE BuildFails
  BY <1>5 DEF BuildFails, GivesUp
<1>6. CASE Play
  BY <1>6 DEF Play
<1>7. CASE PlayFailsX11
  BY <1>7 DEF PlayFailsX11, GivesUp, Software
<1>8. CASE PlayFails
  BY <1>8 DEF PlayFails, GivesUp
<1>9. CASE ProbeFirstFrame
  BY <1>9 DEF ProbeFirstFrame
<1>10. CASE ProbeTimesOut
  BY <1>10 DEF ProbeTimesOut
<1>11. CASE Abandon
  BY <1>11 DEF Abandon
<1>12. ASSUME NEW p \in Pipes, NewSample(p) PROVE FromTheFirstByte'
  BY <1>12 DEF NewSample
<1>13. ASSUME NEW p \in Pipes, SendSample(p) PROVE FromTheFirstByte'
  BY <1>13 DEF SendSample
<1>14. ASSUME NEW p \in Pipes, EndByItself(p) PROVE FromTheFirstByte'
  BY <1>14 DEF EndByItself
<1>15. CASE ReadLeftover
  <2>1. got' = Append(got, <<Current, chunk>>) /\ Current' = Current
    BY <1>15 DEF ReadLeftover
  <2>2. Len(got) \in Nat /\ chunk \in Nat \ {0} /\ left \in 1..Parts
    BY <1>15 DEF ReadLeftover, ChunkInv
  <2>3. Len(got) = (chunk - 1) * Parts + (Parts - left)
    <3>1. chunk * Parts = (chunk - 1) * Parts + Parts
      BY <2>2, PartsAssumption
    <3>2. (chunk - 1) * Parts \in Int
      BY <2>2, PartsAssumption
    <3> QED
      BY <2>2, <3>1, <3>2, PartsAssumption DEF StreamInv
  <2>4. (Len(got) \div Parts) + 1 = chunk
    <3>1. chunk - 1 \in Nat /\ Parts - left \in Nat /\ Parts - left < Parts
      BY <2>2, PartsAssumption
    <3>2. ((chunk - 1) * Parts + (Parts - left)) \div Parts = chunk - 1
      BY ONLY <3>1, Quotient, PartsAssumption
    <3> QED
      BY ONLY <2>2, <2>3, <3>2
  <2> DEFINE pair == <<Current, chunk'>>
  <2>a. \A i \in 1..Len(got) : got[i] = <<Current, ((i - 1) \div Parts) + 1>>
    BY ONLY FromTheFirstByte, GotDomain, TypeOK, Zenon
  <2>b. got' = Append(got, pair) /\ pair = <<Current, (Len(got) \div Parts) + 1>>
    BY <1>15, <2>1, <2>2, <2>4 DEF ReadLeftover
  <2>c. \A i \in 1..Len(got') : got'[i] = <<Current, ((i - 1) \div Parts) + 1>>
    <3> HIDE DEF pair
    <3>1. /\ Len(got') = Len(got) + 1 /\ got'[Len(got) + 1] = pair
          /\ \A i \in 1..Len(got) : got'[i] = got[i]
      BY <2>2, <2>b
    <3>2. \A i \in 1..Len(got') : i \in 1..Len(got) \/ i = Len(got) + 1
      BY <2>2, <3>1
    <3>3. (Len(got) + 1) - 1 = Len(got)
      BY <2>2
    <3> QED
      BY ONLY <2>a, <2>b, <3>1, <3>2, <3>3, Zenon
  <2>d. DOMAIN got' = 1..Len(got')
    BY <2>b
  <2> QED
    BY ONLY <2>1, <2>c, <2>d, Zenon DEF FromTheFirstByte
<1>16. CASE ReadChunk
  <2>1. got' = Append(got, <<Current, chunk'>>) /\ Current' = Current
    BY <1>16 DEF ReadChunk
  <2>2. Len(got) \in Nat /\ chunk \in Nat
    OBVIOUS
  <2>3. chunk' = chunk + 1
    BY <1>16, TakenFacts DEF ReadChunk, StreamInv
  <2>4. Len(got) = chunk * Parts + 0
    <3>1. chunk * Parts \in Int
      BY <2>2, PartsAssumption
    <3> QED
      BY <1>16, <2>2, <3>1, PartsAssumption DEF ReadChunk, StreamInv
  <2>5. (Len(got) \div Parts) + 1 = chunk'
    <3>1. 0 < Parts /\ 0 \in Nat
      BY PartsAssumption
    <3>2. (chunk * Parts + 0) \div Parts = chunk
      BY <2>2, <3>1, Quotient, PartsAssumption
    <3> QED
      BY <2>3, <2>4, <3>2
  <2> DEFINE pair == <<Current, chunk'>>
  <2>a. \A i \in 1..Len(got) : got[i] = <<Current, ((i - 1) \div Parts) + 1>>
    BY ONLY FromTheFirstByte, GotDomain, TypeOK, Zenon
  <2>b. got' = Append(got, pair) /\ pair = <<Current, (Len(got) \div Parts) + 1>>
    BY <1>16, <2>1, <2>2, <2>5 DEF ReadChunk
  <2>c. \A i \in 1..Len(got') : got'[i] = <<Current, ((i - 1) \div Parts) + 1>>
    <3> HIDE DEF pair
    <3>1. /\ Len(got') = Len(got) + 1 /\ got'[Len(got) + 1] = pair
          /\ \A i \in 1..Len(got) : got'[i] = got[i]
      BY <2>2, <2>b
    <3>2. \A i \in 1..Len(got') : i \in 1..Len(got) \/ i = Len(got) + 1
      BY <2>2, <3>1
    <3>3. (Len(got) + 1) - 1 = Len(got)
      BY <2>2
    <3> QED
      BY ONLY <2>a, <2>b, <3>1, <3>2, <3>3, Zenon
  <2>d. DOMAIN got' = 1..Len(got')
    BY <2>b
  <2> QED
    BY ONLY <2>1, <2>c, <2>d, Zenon DEF FromTheFirstByte
<1>17. CASE ReadEnd
  BY <1>17 DEF ReadEnd, Reading
<1>18. CASE Leave
  BY <1>18 DEF Leave, Reading
<1>19. CASE StopClears
  BY <1>19 DEF StopClears, Reading
<1>20. CASE StopNull
  BY <1>20 DEF StopNull, Reading
<1>21. CASE Drop
  BY <1>21 DEF Drop, Reading
<1>22. CASE UNCHANGED vars
  BY <1>22 DEF vars
<1> QED
  BY <1>1, <1>2, <1>3, <1>4, <1>5, <1>6, <1>7, <1>8, <1>9, <1>10, <1>11, <1>12, <1>13, <1>14, <1>15, <1>16, <1>17, <1>18, <1>19, <1>20, <1>21, <1>22
     DEF Next, StartStep, Read

LEMMA EndNext == TypeOK /\ RetryInv /\ PhaseInv /\ EndInv /\ [Next]_vars => EndInv'
<1> SUFFICES ASSUME TypeOK, RetryInv, PhaseInv, EndInv, Next \/ UNCHANGED vars
             PROVE  EndInv'
  OBVIOUS
<1> USE CurrentFacts DEF startVars, pipeVars, readVars, TypeOK, RetryInv, PhaseInv, EndInv
<1>1. CASE Start
  BY <1>1, StartFacts
<1>2. CASE PortalGrants
  BY <1>2 DEF PortalGrants
<1>3. CASE PortalRefuses
  BY <1>3 DEF PortalRefuses, GivesUp
<1>4. CASE Build
  BY <1>4 DEF Build
<1>5. CASE BuildFails
  BY <1>5 DEF BuildFails, GivesUp
<1>6. CASE Play
  BY <1>6 DEF Play
<1>7. CASE PlayFailsX11
  BY <1>7 DEF PlayFailsX11, GivesUp, Software
<1>8. CASE PlayFails
  BY <1>8 DEF PlayFails, GivesUp
<1>9. CASE ProbeFirstFrame
  BY <1>9, TakenFacts DEF ProbeFirstFrame
<1>10. CASE ProbeTimesOut
  BY <1>10 DEF ProbeTimesOut
<1>11. CASE Abandon
  BY <1>11 DEF Abandon
<1>12. ASSUME NEW p \in Pipes, NewSample(p) PROVE EndInv'
  BY <1>12 DEF NewSample
<1>13. ASSUME NEW p \in Pipes, SendSample(p) PROVE EndInv'
  BY <1>13 DEF SendSample
<1>14. ASSUME NEW p \in Pipes, EndByItself(p) PROVE EndInv'
  BY <1>14 DEF EndByItself
<1>15. CASE ReadLeftover
  BY <1>15 DEF ReadLeftover, Reading
<1>16. CASE ReadChunk
  BY <1>16, TakenFacts DEF ReadChunk, Reading
<1>17. CASE ReadEnd
  BY <1>17 DEF ReadEnd, Reading
<1>18. CASE Leave
  BY <1>18 DEF Leave, Reading
<1>19. CASE StopClears
  BY <1>19 DEF StopClears, Reading
<1>20. CASE StopNull
  BY <1>20 DEF StopNull, Reading
<1>21. CASE Drop
  BY <1>21 DEF Drop, Reading
<1>22. CASE UNCHANGED vars
  BY <1>22 DEF vars
<1> QED
  BY <1>1, <1>2, <1>3, <1>4, <1>5, <1>6, <1>7, <1>8, <1>9, <1>10, <1>11, <1>12, <1>13, <1>14, <1>15, <1>16, <1>17, <1>18, <1>19, <1>20, <1>21, <1>22
     DEF Next, StartStep, Read

LEMMA InvNext == IInv /\ [Next]_vars => IInv'
BY TypeNext, ChunkNext, RetryNext, PhaseNext, PortalNext, StreamNext, ReadNext, EndNext
   DEF IInv

(* The invariant holds in every state of every behaviour.                  *)
THEOREM Invariance == Spec => []IInv
BY InvInit, InvNext, PTL DEF Spec

(* Start, the pipelines, read and the stop handle keep to their states.    *)
THEOREM TypeCorrect == Spec => []TypeOK
<1>1. IInv => TypeOK
  BY DEF IInv
<1> QED
  BY <1>1, Invariance, PTL

(* What read returns is the stream of the pipeline in use from its first   *)
(* byte: the chunk that the probe took is given back, and none is lost,    *)
(* doubled, exchanged, or left over from a pipeline that was given up.     *)
THEOREM StreamFromTheFirstByte == Spec => []FromTheFirstByte
<1>1. IInv => FromTheFirstByte
  BY DEF IInv
<1> QED
  BY <1>1, Invariance, PTL

LEMMA PlayingIsCurrent ==
  ASSUME IInv, NEW p \in Pipes, pipe[p] \in {"playing", "over"}
  PROVE  p = Current /\ pc \in {"probe", "abandon", "running"}
<1>1. p = Current
  BY CurrentFacts DEF IInv, TypeOK, RetryInv
<1>2. pc \in {"probe", "abandon", "running"}
  BY <1>1 DEF IInv, TypeOK, PhaseInv
<1> QED
  BY <1>1, <1>2

(* Neither a retry nor a drop leaves a pipeline capturing for nobody.      *)
THEOREM NothingIsLeftRunning == Spec => []NothingRunsUnowned
<1>1. IInv => NothingRunsUnowned
  BY PlayingIsCurrent DEF NothingRunsUnowned
<1> QED
  BY <1>1, Invariance, PTL

(* The portal's grant is there for as long as a pipeline reads by it.      *)
THEOREM PortalIsKept == Spec => []PortalOutlivesPipeline
<1>1. IInv => PortalOutlivesPipeline
  BY PlayingIsCurrent DEF IInv, PortalInv, PortalOutlivesPipeline
<1> QED
  BY <1>1, Invariance, PTL

(* A hardware encoder is only kept once it has encoded a frame.            *)
THEOREM ProbeHasProved == Spec => []HardwareHasProved
<1>1. IInv => HardwareHasProved
  <2> SUFFICES ASSUME IInv, pc = "running", encoder[Current] \in Hardware
               PROVE  made[Current] > 0
    BY DEF HardwareHasProved
  <2>1. ~soft
    BY CurrentFacts DEF IInv, TypeOK, RetryInv, Hardware, Software
  <2>2. chunk \in Nat \ {0}
    BY <2>1, CountFacts DEF IInv, PhaseInv
  <2>3. Len(queue[Current]) \in Nat
    BY CurrentFacts DEF IInv, TypeOK
  <2> DEFINE L == Len(queue[Current])
             k == IF Current \in inCallback THEN 1 ELSE 0
  <2>4. made[Current] = chunk + L + k /\ k \in {0, 1}
    BY DEF IInv, StreamInv
  <2> QED
    <3> HIDE DEF L, k
    <3>1. L \in Nat
      BY <2>3 DEF L
    <3> QED
      BY ONLY <2>2, <2>4, <3>1
<1> QED
  BY <1>1, Invariance, PTL

-----------------------------------------------------------------------------
(***************************************************************************)
(* The capture implements ScreenStream.                                    *)
(***************************************************************************)

(* Nothing is read before start has returned, so a step of start, or of a  *)
(* pipeline at that time, is none of the stream.                           *)
LEMMA NotStartedYet ==
  ASSUME ~Started, ~Started', got = <<>>, UNCHANGED <<got, reader>>
  PROVE  UNCHANGED Abstract!vars
<1>1. UNCHANGED <<StreamState, Encoded>>
  BY DEF StreamState, Encoded
<1>2. DOMAIN got = {}
  OBVIOUS
<1>3. UNCHANGED Taken
  BY <1>2 DEF Taken
<1>4. (Started /\ Current \in eos) = FALSE /\ (Started /\ Current \in eos)' = FALSE
  OBVIOUS
<1> QED
  BY <1>1, <1>3, <1>4 DEF Abstract!vars

(* What a step of a started capture leaves alone.                          *)
LEMMA StreamKept ==
  ASSUME UNCHANGED <<pc, soft>>
  PROVE  /\ UNCHANGED <<Started, Current>>
         /\ UNCHANGED wired => UNCHANGED StreamState
         /\ UNCHANGED eos => UNCHANGED (Started /\ Current \in eos)
         /\ UNCHANGED made => UNCHANGED Encoded
         /\ UNCHANGED got => UNCHANGED Taken
BY DEF Started, Current, StreamState, Encoded, Taken

(* No more was read than encoded.                                          *)
LEMMA PiecesFacts == IInv => Len(got) <= made[Current] * Parts
<1> SUFFICES ASSUME IInv
             PROVE  Len(got) <= made[Current] * Parts
  OBVIOUS
<1> USE PartsAssumption
<1>1. /\ chunk \in Nat /\ left \in Nat /\ made[Current] \in Nat /\ Len(got) \in Nat
      /\ Len(queue[Current]) \in Nat
  BY CountFacts, CurrentFacts DEF IInv, TypeOK
<1>2. Len(got) + left = chunk * Parts
  BY DEF IInv, StreamInv
<1>3. PICK d \in Nat : made[Current] = chunk + d
  <2> DEFINE d == made[Current] - chunk
             L == Len(queue[Current])
             k == IF Current \in inCallback THEN 1 ELSE 0
  <2>1. made[Current] = chunk + L + k /\ k \in Nat
    BY DEF IInv, StreamInv
  <2> HIDE DEF k
  <2>2. L + k \in Nat /\ made[Current] = chunk + (L + k)
    BY <1>1, <2>1
  <2> QED
    BY <2>2
<1>4. /\ made[Current] * Parts = chunk * Parts + d * Parts
      /\ d * Parts \in Nat /\ chunk * Parts \in Nat
  BY <1>1, <1>3
<1> QED
  BY <1>1, <1>2, <1>4

(* A piece that is read is the next one of the stream.                     *)
LEMMA TakenNext ==
  ASSUME IInv, IInv', Started, UNCHANGED <<pc, soft, wired, eos, made, reader>>,
         reader = "reading", NEW piece, got' = Append(got, piece)
  PROVE  Abstract!Take
<1>1. /\ UNCHANGED <<Started, Current, StreamState, Encoded>>
      /\ UNCHANGED (Started /\ Current \in eos)
  BY StreamKept
<1>2. got \in Seq(Pipes \X (1..Chunks)) /\ Len(got) \in Nat
  BY DEF IInv, TypeOK
<1>3. /\ DOMAIN got = 1..Len(got) /\ DOMAIN got' = 1..(Len(got) + 1)
      /\ Len(got') = Len(got) + 1
  BY <1>2
<1>4. /\ \A i \in 1..Len(got) : got[i] = <<Current, ((i - 1) \div Parts) + 1>>
      /\ \A i \in 1..(Len(got) + 1) : got'[i] = <<Current, ((i - 1) \div Parts) + 1>>
  BY <1>1, <1>3 DEF IInv, FromTheFirstByte
<1>5. /\ Taken = [i \in 1..Len(got) |-> ((i - 1) \div Parts) + 1]
      /\ Taken' = [i \in 1..(Len(got) + 1) |-> ((i - 1) \div Parts) + 1]
  BY <1>1, <1>3, <1>4 DEF Taken
<1>6. Len(Taken) = Len(got) /\ Taken' = Append(Taken, (Len(got) \div Parts) + 1)
  BY <1>2, <1>5, PartsAssumption
<1>7. Len(got) < Encoded * Parts
  <2>1. Encoded = made[Current] /\ made'[Current'] = made[Current]
    BY <1>1 DEF Encoded
  <2>a. (IInv => Len(got) <= made[Current] * Parts)'
    BY PiecesFacts, PTL
  <2>2. Len(got') <= made[Current] * Parts
    BY <2>1, <2>a
  <2>3. made[Current] * Parts \in Nat
    BY CountFacts, PartsAssumption DEF IInv
  <2> QED
    BY <1>2, <1>3, <2>1, <2>2, <2>3
<1>8. StreamState # "none"
  BY DEF StreamState
<1> QED
  BY <1>1, <1>6, <1>7, <1>8 DEF Abstract!Take

LEMMA StreamInit == Init => Abstract!Init
<1> SUFFICES ASSUME Init
             PROVE  Abstract!Init
  OBVIOUS
<1>1. ~Started /\ got = <<>> /\ reader = "reading"
  BY DEF Init, Started
<1>2. Taken = <<>>
  BY <1>1 DEF Taken
<1>3. (Started /\ Current \in eos) = FALSE
  BY <1>1
<1> QED
  BY <1>1, <1>2, <1>3 DEF Abstract!Init, StreamState, Encoded

(* Start returns, with whatever the probe has waited for.                  *)
LEMMA StreamStarts ==
  ASSUME IInv, IInv', ~Started, Started', UNCHANGED <<soft, wired, got, reader>>,
         pc \in {"play", "probe"}
  PROVE  Abstract!Start
<1>1. got = <<>> /\ Current \in wired
  BY DEF IInv, PhaseInv, Early, EndInv
<1>2. Current' = Current
  BY CurrentFacts
<1>3. UNCHANGED Taken
  <2>1. DOMAIN got = {}
    BY <1>1
  <2> QED
    BY <2>1 DEF Taken
<1>4. StreamState = "none" /\ StreamState' = "running"
  BY <1>1, <1>2 DEF StreamState
<1>5. Encoded' \in Nat
  BY ChunksAssumption DEF IInv, Encoded, TypeOK, Current, Pipes
<1>6. (Started /\ Current \in eos)' \in BOOLEAN
  OBVIOUS
<1> QED
  BY <1>3, <1>4, <1>5, <1>6 DEF Abstract!Start

LEMMA StreamStep == IInv /\ IInv' /\ [Next]_vars => [Abstract!Next]_(Abstract!vars)
<1> SUFFICES ASSUME IInv, IInv', Next \/ UNCHANGED vars
             PROVE  Abstract!Next \/ UNCHANGED Abstract!vars
  OBVIOUS
<1>0. TypeOK /\ PhaseInv /\ EndInv /\ StreamInv /\ RetryInv
  BY DEF IInv
<1> USE DEF startVars, pipeVars, readVars
<1>1. CASE Start \/ PortalGrants \/ PortalRefuses \/ Build \/ BuildFails
  <2>1. UNCHANGED <<got, reader>> /\ ~Started
    BY <1>1 DEF Start, PortalGrants, PortalRefuses, Build, BuildFails, Started
  <2>2. ~Started'
    BY <1>0, <1>1, StartFacts DEF PortalGrants, PortalRefuses, Build, BuildFails, GivesUp, Started
  <2>3. got = <<>>
    BY <1>0, <1>1 DEF PhaseInv, Early, Start, PortalGrants, PortalRefuses, Build, BuildFails
  <2> QED
    BY <2>1, <2>2, <2>3, NotStartedYet
<1>2. CASE PlayFailsX11 \/ PlayFails \/ ProbeTimesOut \/ Abandon
  <2>1. UNCHANGED <<got, reader>> /\ ~Started /\ ~Started' /\ got = <<>>
    BY <1>0, <1>2 DEF PlayFailsX11, PlayFails, ProbeTimesOut, Abandon, GivesUp, Started,
       PhaseInv, Early
  <2> QED
    BY <2>1, NotStartedYet
<1>3. CASE Play /\ ~soft
  <2>1. UNCHANGED <<got, reader>> /\ ~Started /\ ~Started' /\ got = <<>>
    BY <1>0, <1>3 DEF Play, Started, PhaseInv, Early
  <2> QED
    BY <2>1, NotStartedYet
<1>4. CASE (Play /\ soft) \/ ProbeFirstFrame
  <2>1. /\ ~Started /\ Started' /\ UNCHANGED <<soft, wired, got, reader>>
        /\ pc \in {"play", "probe"}
    BY <1>4 DEF Play, ProbeFirstFrame, Started
  <2> QED
    BY <2>1, StreamStarts DEF Abstract!Next
<1>5. ASSUME NEW p \in Pipes, NewSample(p) \/ SendSample(p) \/ EndByItself(p)
      PROVE  Abstract!Next \/ UNCHANGED Abstract!vars
  <2>1. UNCHANGED <<pc, soft, wired, got, reader>>
    BY <1>5 DEF NewSample, SendSample, EndByItself
  <2>2. /\ UNCHANGED <<Started, Current, StreamState, Taken>>
        /\ UNCHANGED eos => UNCHANGED (Started /\ Current \in eos)
        /\ UNCHANGED made => UNCHANGED Encoded
    BY <2>1, StreamKept
  <2>3. CASE UNCHANGED <<eos, made>>
    BY <2>1, <2>2, <2>3 DEF Abstract!vars
  <2>4. CASE ~Started
    <3>1. Encoded = 0 /\ Encoded' = 0
      BY <2>2, <2>4 DEF Encoded
    <3>2. (Started /\ Current \in eos) = FALSE /\ (Started /\ Current \in eos)' = FALSE
      BY <2>2, <2>4
    <3> QED
      BY <2>1, <2>2, <3>1, <3>2 DEF Abstract!vars
  <2>5. CASE Started /\ NewSample(p)
    <3>1. p = Current /\ pipe[p] = "playing" /\ p \in wired
      BY <2>5, PlayingIsCurrent DEF NewSample
    <3>2. /\ made' = [made EXCEPT ![Current] = made[Current] + 1]
          /\ UNCHANGED eos
      BY <2>5, <3>1 DEF NewSample
    <3>3. StreamState = "running"
      BY <2>5, <3>1 DEF StreamState
    <3>4. (Started /\ Current \in eos) = FALSE
      BY <1>0, <3>1 DEF EndInv
    <3>5. Encoded' = Encoded + 1
      <4>1. Encoded = made[Current] /\ Encoded' = made'[Current]
        BY <2>2, <2>5 DEF Encoded
      <4>2. made'[Current] = made[Current] + 1
        BY <1>0, <3>2, CurrentFacts DEF TypeOK
      <4> QED
        BY <4>1, <4>2
    <3> QED
      BY <2>1, <2>2, <3>2, <3>3, <3>4, <3>5 DEF Abstract!Encode, Abstract!Next
  <2>6. CASE Started /\ EndByItself(p) /\ ~UNCHANGED eos
    <3>1. p = Current
      BY <2>6, PlayingIsCurrent DEF EndByItself
    <3>2. eos' = eos \cup {Current} /\ Current \in wired /\ UNCHANGED made
      BY <2>6, <3>1 DEF EndByItself
    <3>3. StreamState = "running"
      BY <2>6, <3>2 DEF StreamState
    <3>4. (Started /\ Current \in eos)' = TRUE
      BY <2>2, <2>6, <3>2
    <3>5. UNCHANGED Encoded
      BY <2>2, <3>2
    <3> QED
      BY <2>1, <2>2, <3>3, <3>4, <3>5 DEF Abstract!Finish, Abstract!Next
  <2> QED
    BY <1>5, <2>3, <2>4, <2>5, <2>6 DEF NewSample, SendSample, EndByItself
<1>6. CASE ReadLeftover
  <2>1. /\ Started /\ reader = "reading" /\ got' = Append(got, <<Current, chunk>>)
        /\ UNCHANGED <<pc, soft, wired, eos, made, reader>>
    BY <1>6 DEF ReadLeftover, Reading, Started
  <2> QED
    BY <2>1, TakenNext DEF Abstract!Next
<1>7. CASE ReadChunk
  <2>1. /\ Started /\ reader = "reading" /\ got' = Append(got, <<Current, chunk'>>)
        /\ UNCHANGED <<pc, soft, wired, eos, made, reader>>
    BY <1>7 DEF ReadChunk, Reading, Started
  <2> QED
    BY <2>1, TakenNext DEF Abstract!Next
<1>8. CASE ReadEnd
  <2>1. /\ Started /\ reader = "reading" /\ left = 0 /\ queue[Current] = <<>>
        /\ Current \notin wired /\ Current \notin inCallback
        /\ UNCHANGED <<pc, soft, wired, eos, made, got>>
        /\ reader' = IF Current \in eos THEN "eof" ELSE "error"
    BY <1>8 DEF ReadEnd, Reading, Started, SenderGone
  <2>2. /\ UNCHANGED <<Started, Current, StreamState, Encoded, Taken>>
        /\ UNCHANGED (Started /\ Current \in eos)
    BY <2>1, StreamKept
  <2>3. StreamState = "stopped"
    BY <2>1 DEF StreamState
  <2>4. Len(Taken) = Encoded * Parts
    <3>1. Len(Taken) = Len(got) /\ Len(got) \in Nat
      BY <1>0 DEF TypeOK, Taken
    <3>2. chunk \in Nat /\ made[Current] \in Nat
      BY <1>0, CountFacts
    <3>3. Len(got) + left = chunk * Parts /\ made[Current] = chunk + Len(queue[Current]) + 0
      BY <1>0, <2>1 DEF StreamInv
    <3>4. made[Current] = chunk
      BY <2>1, <3>2, <3>3
    <3>5. Len(got) = chunk * Parts
      BY <2>1, <3>1, <3>3
    <3> QED
      BY <2>1, <3>1, <3>4, <3>5 DEF Encoded
  <2>5. reader' = IF Started /\ Current \in eos THEN "eof" ELSE "error"
    BY <2>1
  <2> QED
    BY <2>1, <2>2, <2>3, <2>4, <2>5 DEF Abstract!End, Abstract!Next
<1>9. CASE Leave
  <2>1. /\ Started /\ reader = "reading" /\ reader' = "left"
        /\ UNCHANGED <<pc, soft, wired, eos, made, got>>
    BY <1>9 DEF Leave, Reading, Started
  <2>2. /\ UNCHANGED <<StreamState, Encoded, Taken>>
        /\ UNCHANGED (Started /\ Current \in eos)
    BY <2>1, StreamKept
  <2>3. StreamState # "none"
    BY <2>1 DEF StreamState
  <2> QED
    BY <2>1, <2>2, <2>3 DEF Abstract!Leave, Abstract!Next
<1>10. CASE StopNull
  <2>1. UNCHANGED <<pc, soft, wired, eos, made, got, reader>>
    BY <1>10 DEF StopNull
  <2> QED
    BY <2>1, StreamKept DEF Abstract!vars
<1>11. CASE StopClears \/ Drop
  <2>1. /\ Started /\ Started' /\ wired' = wired \ {Current}
        /\ UNCHANGED <<soft, eos, made, got, reader>>
    BY <1>11 DEF StopClears, Drop, Started
  <2>2. Current' = Current
    BY <2>1, CurrentFacts
  <2>3. UNCHANGED <<Encoded, Taken>> /\ UNCHANGED (Started /\ Current \in eos)
    BY <2>1, <2>2 DEF Encoded, Taken
  <2>4. StreamState' = "stopped" /\ StreamState \in {"running", "stopped"}
    BY <2>1, <2>2 DEF StreamState
  <2>5. CASE StreamState = "running"
    BY <2>1, <2>3, <2>4, <2>5 DEF Abstract!Stop, Abstract!Next
  <2>6. CASE StreamState = "stopped"
    BY <2>1, <2>3, <2>4, <2>6 DEF Abstract!vars
  <2> QED
    BY <2>4, <2>5, <2>6
<1>12. CASE UNCHANGED vars
  <2>1. UNCHANGED <<pc, soft, wired, eos, made, got, reader>>
    BY <1>12 DEF vars
  <2> QED
    BY <2>1, StreamKept DEF Abstract!vars
<1> QED
  BY <1>1, <1>2, <1>3, <1>4, <1>5, <1>6, <1>7, <1>8, <1>9, <1>10, <1>11, <1>12
     DEF Next, StartStep, Read

(* Read gives what ScreenStream promises, for any display, mode, size of   *)
(* the reads and number of chunks: one encoder's stream from its first     *)
(* byte, and its end only after a stop and after all that was encoded.     *)
THEOREM ImplementsScreenStream == Spec => IsScreenStream
<1>1. IInv /\ IInv' /\ [Next]_vars => [Abstract!Next]_(Abstract!vars)
  BY StreamStep
<1> QED
  BY <1>1, StreamInit, Invariance, PTL DEF Spec, IsScreenStream, Abstract!Spec

-----------------------------------------------------------------------------
(***************************************************************************)
(* The picture.                                                            *)
(***************************************************************************)

LEMMA EvenFacts ==
  ASSUME NEW n \in Int
  PROVE  /\ Even(n) \in Int /\ Even(n) % 2 = 0
         /\ Even(n) <= n /\ Even(n) >= n - 1
BY DEF Even

(* Shrinking keeps a side even and between two pixels and its length.      *)
LEMMA ShrunkFacts ==
  ASSUME NEW n \in Nat, n >= 4, NEW pct \in Int
  PROVE  /\ Shrunk(n, pct) \in Nat /\ Shrunk(n, pct) % 2 = 0
         /\ Shrunk(n, pct) >= 2 /\ Shrunk(n, pct) <= n
<1> DEFINE l == Limit(pct)
           m == n * (100 - l)
<1>1. l \in 0..25
  BY DEF Limit
<1>2. m \in Nat /\ m >= 300 /\ m <= 100 * n
  <2> HIDE DEF l
  <2>1. m = 75 * n + n * (25 - l) /\ m = 100 * n - n * l
    BY <1>1
  <2>2. n * (25 - l) \in Nat /\ n * l \in Nat
    BY <1>1
  <2> QED
    BY <2>1, <2>2
<1>3. m \div 100 \in Nat /\ m \div 100 >= 3 /\ m \div 100 <= n
  <2> HIDE DEF m
  <2> QED
    BY <1>2
<1>4. Shrunk(n, pct) = Even(m \div 100)
  BY DEF Shrunk
<1> HIDE DEF m
<1> QED
  BY <1>3, <1>4, EvenFacts

LEMMA TargetFacts ==
  ASSUME NEW source \in [w : Nat, h : Nat], NEW height \in Nat,
         Scalable(source, height)
  PROVE  /\ source.w > 0 /\ source.h > 0
         /\ Target(source, height) =
              [w |-> Target(source, height).w, h |-> Target(source, height).h]
         /\ Target(source, height).w \in Nat /\ Target(source, height).w >= 4
         /\ Target(source, height).h \in Nat /\ Target(source, height).h >= 4
         /\ Target(source, height).w % 2 = 0
         /\ Target(source, height).h % 2 = 0
<1>1. source.w \in Nat /\ source.h \in Nat \ {0}
  BY DEF Scalable
<1>2. source.w * height \in Nat
  BY <1>1
<1>3. (source.w * height) \div source.h \in Int
  BY <1>1, <1>2
<1>4. CASE height > 0
  BY <1>1, <1>3, <1>4, EvenFacts DEF Target, Scalable
<1>5. CASE ~(height > 0)
  BY <1>1, <1>5, EvenFacts DEF Target, Scalable
<1> QED
  BY <1>4, <1>5

(* A picture of even sides in a frame of even sides, no smaller: the       *)
(* border on both sides and the picture are the frame.                     *)
LEMMA CentredFills ==
  ASSUME NEW a \in Nat, NEW b \in Nat, a % 2 = 0, b % 2 = 0, b <= a
  PROVE  (a - b) \div 2 >= 0 /\ 2 * ((a - b) \div 2) + b = a
OBVIOUS

LEMMA ScaleFacts ==
  ASSUME NEW k, NEW f, NEW c
  PROVE  /\ Scale(k, f, c).kind = k /\ Scale(k, f, c).frame = f
         /\ Scale(k, f, c).picture.x = (f.w - c.w) \div 2
         /\ Scale(k, f, c).picture.y = (f.h - c.h) \div 2
         /\ Scale(k, f, c).picture.w = c.w /\ Scale(k, f, c).picture.h = c.h
BY DEF Scale, Centred

(* The picture of a capture that can be retuned.                           *)
LEMMA LiveCompute ==
  ASSUME NEW source \in [w : Nat, h : Nat], NEW height \in Nat,
         NEW pct \in Int, Scalable(source, height)
  PROVE  LET frame == Target(source, height)
         IN  Compute(source, height, pct, TRUE) =
               Scale("fit", frame, [w |-> Shrunk(frame.w, pct), h |-> Shrunk(frame.h, pct)])
BY TargetFacts DEF Compute

(* Retuning it computes its border from the frame again.                   *)
LEMMA RetuneCompute ==
  ASSUME NEW source \in [w : Nat, h : Nat], NEW height \in Nat,
         NEW p \in Int, NEW q \in Int, Scalable(source, height)
  PROVE  Retune(Compute(source, height, p, TRUE), q) = Compute(source, height, q, TRUE)
<1> DEFINE frame == Target(source, height)
           s == Compute(source, height, p, TRUE)
<1>1. /\ frame.w \in Nat /\ frame.w >= 4 /\ frame.h \in Nat /\ frame.h >= 4
  BY TargetFacts
<1>2. s.kind = "fit" /\ s.frame = frame
  <2> DEFINE c == [w |-> Shrunk(frame.w, p), h |-> Shrunk(frame.h, p)]
  <2>1. s = Scale("fit", frame, c)
    BY LiveCompute
  <2> HIDE DEF s, c, frame
  <2> QED
    BY ONLY <2>1, ScaleFacts
<1>3. AtLeastTwo(Shrunk(frame.w, q)) = Shrunk(frame.w, q)
  BY <1>1, ShrunkFacts DEF AtLeastTwo
<1>4. AtLeastTwo(Shrunk(frame.h, q)) = Shrunk(frame.h, q)
  BY <1>1, ShrunkFacts DEF AtLeastTwo
<1>5. Retune(s, q) = Scale("fit", frame, [w |-> AtLeastTwo(Shrunk(frame.w, q)),
                                          h |-> AtLeastTwo(Shrunk(frame.h, q))])
  BY <1>2 DEF Retune
<1> QED
  BY <1>3, <1>4, <1>5, LiveCompute

(* What PictureFillsFrame says of a picture in its frame.                  *)
Fills(s) ==
  /\ s.frame.w % 2 = 0 /\ s.frame.h % 2 = 0
  /\ s.picture.x >= 0 /\ s.picture.y >= 0
  /\ 2 * s.picture.x + s.picture.w = s.frame.w
  /\ 2 * s.picture.y + s.picture.h = s.frame.h

(* Content of even sides, no larger than the frame, fills it with the      *)
(* border.                                                                 *)
LEMMA ScaleFills ==
  ASSUME NEW kind, NEW frame, NEW content,
         frame.w \in Nat, frame.h \in Nat, frame.w % 2 = 0, frame.h % 2 = 0,
         content.w \in Nat, content.h \in Nat, content.w % 2 = 0, content.h % 2 = 0,
         content.w <= frame.w, content.h <= frame.h
  PROVE  Fills(Scale(kind, frame, content))
<1> DEFINE s == Scale(kind, frame, content)
<1>1. /\ s.frame = frame
      /\ s.picture.x = (frame.w - content.w) \div 2 /\ s.picture.w = content.w
      /\ s.picture.y = (frame.h - content.h) \div 2 /\ s.picture.h = content.h
  BY ScaleFacts
<1>2. /\ (frame.w - content.w) \div 2 >= 0
      /\ 2 * ((frame.w - content.w) \div 2) + content.w = frame.w
  BY CentredFills
<1>3. /\ (frame.h - content.h) \div 2 >= 0
      /\ 2 * ((frame.h - content.h) \div 2) + content.h = frame.h
  BY CentredFills
<1> HIDE DEF s
<1> QED
  BY <1>1, <1>2, <1>3 DEF Fills, s

LEMMA LiveFills ==
  ASSUME NEW source \in [w : Nat, h : Nat], NEW height \in Nat,
         NEW p \in Int, Scalable(source, height)
  PROVE  Fills(Compute(source, height, p, TRUE))
<1> DEFINE frame == Target(source, height)
           content == [w |-> Shrunk(frame.w, p), h |-> Shrunk(frame.h, p)]
<1>1. /\ frame.w \in Nat /\ frame.w >= 4 /\ frame.h \in Nat /\ frame.h >= 4
      /\ frame.w % 2 = 0 /\ frame.h % 2 = 0
  BY TargetFacts
<1>2. content.w \in Nat /\ content.w % 2 = 0 /\ content.w <= frame.w
  BY <1>1, ShrunkFacts
<1>3. content.h \in Nat /\ content.h % 2 = 0 /\ content.h <= frame.h
  BY <1>1, ShrunkFacts
<1>4. Compute(source, height, p, TRUE) = Scale("fit", frame, content)
  BY LiveCompute
<1> HIDE DEF frame, content
<1>5. Fills(Scale("fit", frame, content))
  BY ONLY <1>1, <1>2, <1>3, ScaleFills
<1> QED
  BY <1>4, <1>5

(* A capture without underscan that cannot be retuned shows the whole      *)
(* frame; any other that cannot is as if it could.                         *)
LEMMA FixedFills ==
  ASSUME NEW source \in [w : Nat, h : Nat], NEW height \in Nat,
         NEW p \in Int, Scalable(source, height)
  PROVE  \/ Compute(source, height, p, FALSE) = Compute(source, height, p, TRUE)
         \/ /\ Compute(source, height, p, FALSE).kind # "fit"
            /\ Fills(Compute(source, height, p, FALSE))
<1> DEFINE frame == Target(source, height)
           kind == IF frame = source THEN "native" ELSE "plain"
<1>1. /\ source.w > 0 /\ source.h > 0
      /\ frame.w \in Nat /\ frame.w >= 4 /\ frame.h \in Nat /\ frame.h >= 4
      /\ frame.w % 2 = 0 /\ frame.h % 2 = 0
  BY TargetFacts
<1>2. CASE Limit(p) # 0
  BY <1>1, <1>2 DEF Compute
<1>3. CASE Limit(p) = 0
  <2>1. Compute(source, height, p, FALSE) = Scale(kind, frame, frame)
    BY <1>1, <1>3 DEF Compute
  <2>2. kind # "fit"
    OBVIOUS
  <2> HIDE DEF frame, kind
  <2>3. Scale(kind, frame, frame).kind = kind
    BY ScaleFacts
  <2>4. Fills(Scale(kind, frame, frame))
    <3>1. frame.w <= frame.w /\ frame.h <= frame.h
      BY <1>1
    <3> QED
      BY ONLY <1>1, <3>1, ScaleFills
  <2> QED
    BY <2>1, <2>2, <2>3, <2>4
<1> QED
  BY <1>2, <1>3

-----------------------------------------------------------------------------
(***************************************************************************)
(* The monitor that an X11 capture shows.                                  *)
(***************************************************************************)

LEMMA NatHasMin ==
  ASSUME NEW T \in SUBSET Nat, T # {}
  PROVE  \E m \in T : \A n \in T : m <= n
<1> DEFINE R == OpToRel(<, Nat)
<1>1. IsWellFoundedOn(R, Nat)
  BY NatLessThanWellFounded
<1>2. \A x, y \in Nat : x < y => <<x, y>> \in R
  BY DEF OpToRel
<1> HIDE DEF R
<1>3. PICK m \in T : \A n \in T : <<n, m>> \notin R
  BY <1>1, WFMin
<1>4. \A n \in T : ~(n < m)
  BY <1>2, <1>3
<1> QED
  BY <1>4

LEMMA MinFacts ==
  ASSUME NEW T \in SUBSET Nat, T # {}
  PROVE  Min(T) \in T
BY NatHasMin DEF Min

(* A region is that of a usable output, the primary one if that is usable, *)
(* or there is none.                                                       *)
LEMMA RegionFacts ==
  ASSUME NEW os \in OutputLists
  PROVE  \/ PrimaryMonitor(os) = NoRegion
         \/ \E i \in Usable(os) :
              /\ PrimaryMonitor(os) =
                   [x |-> os[i].geometry.x, y |-> os[i].geometry.y,
                    endx |-> os[i].geometry.x + os[i].geometry.w,
                    endy |-> os[i].geometry.y + os[i].geometry.h]
              /\ (\E j \in Usable(os) : os[j].primary) => os[i].primary
<1> DEFINE primary == { i \in Usable(os) : os[i].primary }
           chosen == IF primary # {} THEN primary ELSE Usable(os)
<1>1. Usable(os) \in SUBSET Nat
  BY DEF OutputLists, Usable
<1>2. CASE chosen = {}
  BY <1>2 DEF PrimaryMonitor
<1>3. CASE chosen # {}
  <2>1. Min(chosen) \in chosen
    BY <1>1, <1>3, MinFacts
  <2>2. Min(chosen) \in Usable(os)
    BY <2>1
  <2>3. (\E j \in Usable(os) : os[j].primary) => os[Min(chosen)].primary
    BY <2>1
  <2>4. PrimaryMonitor(os) =
          [x |-> os[Min(chosen)].geometry.x, y |-> os[Min(chosen)].geometry.y,
           endx |-> os[Min(chosen)].geometry.x + os[Min(chosen)].geometry.w,
           endy |-> os[Min(chosen)].geometry.y + os[Min(chosen)].geometry.h]
    BY <1>3 DEF PrimaryMonitor
  <2> HIDE DEF chosen
  <2> QED
    BY <2>2, <2>3, <2>4
<1> QED
  BY <1>2, <1>3

LEMMA OutputFacts ==
  ASSUME NEW os \in OutputLists, NEW i \in Usable(os)
  PROVE  /\ i \in DOMAIN os
         /\ os[i].geometry \in [x : Nat, y : Nat, w : Nat, h : Nat \ {0}]
         /\ os[i].geometry.w >= MinWidth
BY MonitorsAssumption DEF OutputLists, Outputs, Usable

LEMMA SourceFacts ==
  ASSUME NEW source \in Sources
  PROVE  source \in [w : Nat, h : Nat]
<1>1. CASE source \in Sizes
  BY <1>1, SizesAssumption
<1>2. ASSUME NEW os \in OutputLists, source = ExpectedSize(PrimaryMonitor(os))
      PROVE  source \in [w : Nat, h : Nat]
  <2>1. CASE PrimaryMonitor(os) = NoRegion
    BY <1>2, <2>1 DEF ExpectedSize, Cropped, NoRegion
  <2>2. ASSUME NEW i \in Usable(os),
               PrimaryMonitor(os) =
                   [x |-> os[i].geometry.x, y |-> os[i].geometry.y,
                    endx |-> os[i].geometry.x + os[i].geometry.w,
                    endy |-> os[i].geometry.y + os[i].geometry.h]
        PROVE  source \in [w : Nat, h : Nat]
    <3> DEFINE g == os[i].geometry
    <3>1. g.x \in Nat /\ g.y \in Nat /\ g.w \in Nat /\ g.h \in Nat
      BY OutputFacts
    <3> QED
      BY <1>2, <2>2, <3>1 DEF ExpectedSize, Cropped
  <2> QED
    BY <2>1, <2>2, RegionFacts
<1> QED
  BY <1>1, <1>2 DEF Sources

-----------------------------------------------------------------------------
(* However often the underscan of a picture is changed while it runs, the  *)
(* picture is the one of a capture started with that underscan: for every  *)
(* monitor and every size a portal reports, every height of the frame and  *)
(* every two percentages.                                                  *)
THEOREM RetuneRestarts == Spec => []RetuneIsRestart
<1>1. ASSUME NEW source \in Sources, NEW height \in Heights, NEW p \in Underscans,
             NEW q \in Underscans, Scalable(source, height)
      PROVE  Retune(Compute(source, height, p, TRUE), q) = Compute(source, height, q, TRUE)
  <2>1. source \in [w : Nat, h : Nat] /\ height \in Nat /\ p \in Int /\ q \in Int
    BY SourceFacts, UnderscansAssumption
  <2> QED
    BY <1>1, <2>1, RetuneCompute
<1>2. RetunedIsRestarted
  BY <1>1 DEF RetunedIsRestarted
<1> QED
  BY <1>2, PTL DEF RetuneIsRestart

(* The picture and the border around it fill a frame of even sides to the  *)
(* last pixel, at the start and after a retune.                            *)
THEOREM PictureFills == Spec => []FramesFit
<1>1. ASSUME NEW source \in Sources, NEW height \in Heights, NEW p \in Underscans,
             NEW q \in Underscans, NEW live \in BOOLEAN, Scalable(source, height)
      PROVE  /\ Fills(Compute(source, height, p, live))
             /\ Fills(Retune(Compute(source, height, p, live), q))
  <2>1. source \in [w : Nat, h : Nat] /\ height \in Nat /\ p \in Int /\ q \in Int
    BY SourceFacts, UnderscansAssumption
  <2>2. /\ Fills(Compute(source, height, p, TRUE))
        /\ Fills(Retune(Compute(source, height, p, TRUE), q))
    BY <1>1, <2>1, LiveFills, RetuneCompute
  <2>3. CASE Compute(source, height, p, live) = Compute(source, height, p, TRUE)
    BY <2>2, <2>3
  <2>4. CASE Compute(source, height, p, live) # Compute(source, height, p, TRUE)
    <3>1. /\ Compute(source, height, p, live).kind # "fit"
          /\ Fills(Compute(source, height, p, live))
      BY <1>1, <2>1, <2>4, FixedFills
    <3>2. Retune(Compute(source, height, p, live), q) = Compute(source, height, p, live)
      BY <3>1 DEF Retune
    <3> QED
      BY <3>1, <3>2
  <2> QED
    BY <2>3, <2>4
<1>2. PictureFillsFrame
  BY <1>1 DEF PictureFillsFrame, Fills
<1> QED
  BY <1>2, PTL DEF FramesFit

(* An X11 capture is told to show one connected monitor, all of it and     *)
(* nothing else, whatever the outputs are: the primary one, if it can, and *)
(* what is delivered has the size that frame and border are computed from. *)
THEOREM MonitorIsShownWhole == Spec => []CropIsMonitor
<1>1. ASSUME NEW os \in OutputLists, Cropped(PrimaryMonitor(os))
      PROVE  LET region == PrimaryMonitor(os)
             IN  /\ Delivered(Crop(region)) = ExpectedSize(region)
                 /\ \E i \in DOMAIN os :
                      /\ [x |-> region.x, y |-> region.y] =
                           [x |-> os[i].geometry.x, y |-> os[i].geometry.y]
                      /\ ExpectedSize(region) =
                           [w |-> os[i].geometry.w, h |-> os[i].geometry.h]
                      /\ (\E j \in Usable(os) : os[j].primary) => os[i].primary
  <2> DEFINE region == PrimaryMonitor(os)
  <2>1. region # NoRegion
    BY <1>1 DEF Cropped, NoRegion
  <2>2. PICK i \in Usable(os) :
              /\ region = [x |-> os[i].geometry.x, y |-> os[i].geometry.y,
                           endx |-> os[i].geometry.x + os[i].geometry.w,
                           endy |-> os[i].geometry.y + os[i].geometry.h]
              /\ (\E j \in Usable(os) : os[j].primary) => os[i].primary
    BY <2>1, RegionFacts
  <2> DEFINE g == os[i].geometry
  <2>3. g.x \in Nat /\ g.y \in Nat /\ g.w \in Nat /\ g.h \in Nat /\ i \in DOMAIN os
    BY OutputFacts
  <2> HIDE DEF g
  <2>4. region = [x |-> g.x, y |-> g.y, endx |-> g.x + g.w, endy |-> g.y + g.h]
    BY <2>2 DEF g
  <2> HIDE DEF region
  <2>5. /\ region.x = g.x /\ region.y = g.y
        /\ region.endx = g.x + g.w /\ region.endy = g.y + g.h
    BY <2>4
  <2>6. ExpectedSize(region) = [w |-> g.w, h |-> g.h]
    <3>1. Cropped(region)
      BY <1>1 DEF region
    <3>2. region.endx - region.x = g.w /\ region.endy - region.y = g.h
      BY <2>3, <2>5
    <3> QED
      BY <3>1, <3>2 DEF ExpectedSize
  <2>7. Delivered(Crop(region)) = [w |-> g.w, h |-> g.h]
    <3>1. /\ (region.endx - 1) - region.x + 1 = g.w
          /\ (region.endy - 1) - region.y + 1 = g.h
      BY <2>3, <2>5
    <3> QED
      BY <3>1 DEF Delivered, Crop
  <2> QED
    BY <2>2, <2>3, <2>5, <2>6, <2>7 DEF region, g
<1>2. MonitorIsWhole
  BY <1>1 DEF MonitorIsWhole
<1> QED
  BY <1>2, PTL DEF CropIsMonitor
=============================================================================
