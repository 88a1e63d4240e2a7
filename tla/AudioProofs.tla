----------------------------- MODULE AudioProofs -----------------------------
(***************************************************************************)
(* Proofs about Audio, for frames and buffers of any size, numbers that    *)
(* wrap anywhere and any latency: what the receiver can put together is    *)
(* one stretch of the capture on one timeline; with FEC each frame is sent *)
(* twice and in time, under ChaCha no nonce is used twice; what the sync   *)
(* packets say is true; and every frame holds its PCM, bit by bit.         *)
(***************************************************************************)
EXTENDS Audio, TLAPS, SequenceTheorems, WellFoundedInduction

-----------------------------------------------------------------------------
(***************************************************************************)
(* Sequences and remainders.                                               *)
(***************************************************************************)

(* What After(s, n) holds.                                                 *)
LEMMA AfterFacts ==
  ASSUME NEW S, NEW s \in Seq(S), NEW n \in 0..Len(s)
  PROVE  /\ After(s, n) \in Seq(S)
         /\ Len(After(s, n)) = Len(s) - n
         /\ \A i \in 1..(Len(s) - n) : After(s, n)[i] = s[n + i]
<1>1. \A i \in (n + 1)..Len(s) : s[i] \in S
  BY ElementOfSeq
<1> QED
  BY <1>1, SubSeqProperties DEF After

(* What the first n elements of s are.                                     *)
LEMMA FirstFacts ==
  ASSUME NEW S, NEW s \in Seq(S), NEW n \in 0..Len(s)
  PROVE  /\ SubSeq(s, 1, n) \in Seq(S)
         /\ Len(SubSeq(s, 1, n)) = n
         /\ \A i \in 1..n : SubSeq(s, 1, n)[i] = s[i]
<1>1. \A i \in 1..n : s[i] \in S
  BY ElementOfSeq
<1> QED
  BY <1>1, SubSeqProperties

(* A remainder is one, and what is less than the modulus is its own.       *)
LEMMA Remainder ==
  ASSUME NEW m \in Nat \ {0}, NEW x \in Nat
  PROVE  /\ x % m \in 0..(m - 1)
         /\ x < m => x % m = x
OBVIOUS

-----------------------------------------------------------------------------
(***************************************************************************)
(* The inductive invariant.                                                *)
(***************************************************************************)

(* What is in pcm and in the channel is the newest stretch of the capture. *)
SampleInv ==
  /\ Len(pcm) + Len(chan) <= captured
  /\ \A i \in 1..Len(chan) : chan[i] = captured - Len(chan) + i
  /\ \A i \in 1..Len(pcm) : pcm[i] = captured - Len(chan) - Len(pcm) + i

(* The last sample that was taken out of pcm, or thrown away.              *)
Base == captured - Len(chan) - Len(pcm)

Early == pc \in {"gate", "burst", "start"}
Streaming == pc \in {"drain", "check", "read", "resend", "send"}

(* Nothing is sent, nor does the sync thread run, before StartData.        *)
PhaseInv ==
  /\ Early => /\ sent = <<>> /\ syncPc = "none" /\ rtpTime = 0
              /\ sync.position = 0
  /\ pc \in {"gate", "burst", "start", "drain"} =>
       sent = <<>> /\ idx = 0 /\ burstDone = FALSE /\ frameSeq = 1 /\ nextNonce = 0
  /\ Streaming => syncPc # "none"
  /\ syncPc = "none" => sent = <<>>
  /\ pc = "drain" => nextRtp = latency /\ stale <= captured /\ pcm = <<>>

(* The newest frame.                                                       *)
Last == sent[Place(Count)]

(* Each frame that has gone out is whole, and follows the one before it.   *)
GoodFrame(n) ==
  /\ Len(sent[Place(n)].payload) = Spf
  /\ Consecutive(sent[Place(n)].payload)
  /\ IF n = 1
       THEN /\ sent[Place(n)].payload[1] > stale
            /\ sent[Place(n)].rtp = latency
            /\ sent[Place(n)].seq = 1
       ELSE Follows(sent[Place(n - 1)], sent[Place(n)])

Chain == \A n \in 1..Count : GoodFrame(n)

(* The locals of stream_audio are those of the frame after it.             *)
NextInv ==
  Streaming =>
    IF Count = 0 THEN nextRtp = latency /\ frameSeq = 1
                 ELSE /\ nextRtp = (Last.rtp + Spf) % RtpMod
                      /\ frameSeq = (Last.seq + 1) % SeqMod

(* So are the samples that come next, in pcm or in payload.                *)
FeedInv ==
  /\ pc \in {"check", "read"} =>
       IF Count = 0 THEN Base >= stale ELSE Base = Last.payload[Spf]
  /\ pc \in {"resend", "send"} =>
       /\ Len(payload) = Spf
       /\ Consecutive(payload)
       /\ Base = payload[Spf]
       /\ IF Count = 0 THEN payload[1] > stale
                       ELSE payload[1] = Last.payload[Spf] + 1

(* The slot j of the buffer holds the newest frame that was put there.     *)
Slot(j) == IF j < idx THEN Count - idx + j + 1 ELSE Count - Depth - idx + j + 1

BufferInv ==
  Streaming /\ UseFec =>
    IF burstDone
      THEN /\ Len(sent) >= Depth
           /\ pc # "send" => Len(sent) = 2 * Count - Depth
           /\ pc = "send" => /\ Len(sent) = 2 * Count - Depth + 1
                             /\ sent[Len(sent)] = sent[Place(Count + 1 - Depth)]
           /\ \A j \in 0..(Depth - 1) : buf[j] = sent[Place(Slot(j))]
      ELSE /\ Len(sent) = idx
           /\ pc # "resend"
           /\ \A j \in 0..(idx - 1) : buf[j] = sent[j + 1]

FecInv == pc = "resend" => UseFec /\ burstDone

(* Under ChaCha the i-th packet has the nonce i - 1.                       *)
NonceInv ==
  chacha => /\ nextNonce = Len(sent)
            /\ \A i \in 1..Len(sent) : sent[i].nonce = i - 1

(* Before the RTP times wrap, each is where the count of frames puts it,   *)
(* and with them rtp_time and the position of the last sync packet.        *)
ClockInv ==
  Unwrapped =>
    /\ \A n \in 1..Count : sent[Place(n)].rtp = latency + (n - 1) * Spf
    /\ Streaming => nextRtp = latency + Count * Spf
    /\ syncPc # "none" =>
         rtpTime = IF Count = 0 THEN latency ELSE latency + (Count - 1) * Spf
    /\ sync.position <= IF Count = 0 THEN 0 ELSE (Count - 1) * Spf

IInv ==
  /\ TypeOK /\ SampleInv /\ PhaseInv /\ Chain /\ NextInv /\ FeedInv
  /\ FecInv /\ BufferInv /\ SentTwice /\ NonceInv /\ ClockInv

-----------------------------------------------------------------------------
LEMMA LatencyType ==
  ASSUME NEW t \in Targets, NEW sap \in BOOLEAN, NEW r \in Reported
  PROVE  SessionLatency(t, sap, r) \in 1..(RtpMod - 1)
BY LatencyAssumption, ModAssumption DEF SessionLatency

LEMMA InvInit == Init => IInv
<1> SUFFICES ASSUME Init
             PROVE  IInv
  OBVIOUS
<1> USE SpfAssumption, DepthAssumption, ModAssumption, LatencyAssumption,
        BoundsAssumption
<1>1. <<>> \in Frames /\ Len(<<>>) = 0
  BY DEF Frames
<1>2. NoFrame \in Packets
  BY <1>1 DEF NoFrame, Packets
<1>3. buf \in [0..(Depth - 1) -> Packets]
  BY <1>2 DEF Init, CaptureStarted
<1>4. sync \in Syncs /\ sync.position = 0
  BY DEF Init, CaptureStarted, Syncs
<1>5. latency \in 1..(RtpMod - 1)
  BY LatencyType DEF Init, CaptureStarted
<1>6. sent = <<>> /\ sent \in Seq(Packets) /\ Len(sent) = 0
  BY DEF Init, CaptureStarted
<1>a. /\ chacha \in BOOLEAN /\ firstFrame \in BOOLEAN /\ stop \in BOOLEAN
      /\ burstDone \in BOOLEAN
  BY DEF Init, CaptureStarted
<1>b. /\ chan \in Frames /\ pcm \in Frames /\ payload \in Frames
      /\ captured \in 0..Samples /\ stale \in 0..Samples /\ nextNonce \in Nat
  BY <1>1 DEF Init, CaptureStarted
<1>c. /\ rtpTime \in 0..(RtpMod - 1) /\ nextRtp \in 0..(RtpMod - 1)
      /\ frameSeq \in 0..(SeqMod - 1) /\ idx \in 0..(Depth - 1)
  BY DEF Init, CaptureStarted
<1>7. TypeOK
  BY <1>a, <1>b, <1>c, <1>3, <1>4, <1>5, <1>6 DEF Init, CaptureStarted, TypeOK
<1>8. SampleInv /\ PhaseInv /\ FeedInv /\ FecInv
  BY <1>4 DEF Init, CaptureStarted, SampleInv, PhaseInv, FeedInv, FecInv, Early, Streaming
<1>9. Count = 0
  BY <1>6 DEF Count
<1>10. Chain /\ NextInv /\ BufferInv
  BY <1>9 DEF Init, CaptureStarted, Chain, NextInv, BufferInv, Streaming
<1>11. SentTwice /\ NonceInv
  BY <1>6 DEF Init, CaptureStarted, SentTwice, NonceInv
<1>12. ClockInv
  BY <1>4, <1>9 DEF Init, CaptureStarted, ClockInv, Streaming
<1> QED
  BY <1>7, <1>8, <1>10, <1>11, <1>12 DEF IInv

(* What is sent is a packet.                                               *)
LEMMA PacketTypes ==
  ASSUME TypeOK
  PROVE  /\ UseFec \in BOOLEAN
         /\ buf[idx] \in Packets
         /\ NewFrame \in Packets
<1>1. buf[idx] \in Packets
  BY DepthAssumption DEF TypeOK
<1>2. (IF chacha THEN Nonce(frameSeq) ELSE 0) \in Nat
  BY DEF TypeOK, Nonce
<1>3. NewFrame \in Packets
  BY <1>2 DEF TypeOK, NewFrame, Packets
<1> QED
  BY <1>1, <1>3 DEF UseFec, TypeOK

LEMMA SyncTypes ==
  ASSUME TypeOK, NEW kind \in {"first", "later"}
  PROVE  SyncPacket(kind) \in Syncs
<1>1. Position(rtpTime) \in 0..(RtpMod - 1)
  BY ModAssumption DEF TypeOK, Position
<1> QED
  BY <1>1 DEF TypeOK, SyncPacket, Syncs

LEMMA TypeNext == TypeOK /\ [Next]_vars => TypeOK'
<1> SUFFICES ASSUME TypeOK, [Next]_vars
             PROVE  TypeOK'
  OBVIOUS
<1> USE SpfAssumption, DepthAssumption, ModAssumption, LatencyAssumption,
        BoundsAssumption DEF sessionVars, captureVars, streamVars, frameVars
<1>0. chan \in Frames /\ pcm \in Frames /\ Frames = Seq(1..Samples)
  BY DEF TypeOK, Frames
<1>1. CASE FirstFrame \/ Stop
  BY <1>1, ZenonT(60) DEF TypeOK, FirstFrame, Stop
<1>2. CASE NewSample
  <2>1. chan' \in Frames
    BY <1>0, <1>2, AppendProperties DEF NewSample, TypeOK
  <2> QED
    BY <2>1, <1>2 DEF TypeOK, NewSample
<1>3. CASE GateOpens \/ GateStops \/ DrainEnds \/ Check \/ SendFails
  BY <1>3 DEF TypeOK, GateOpens, GateStops, DrainEnds, Check, SendFails
<1>4. CASE SyncBurst
  <2>1. sync' \in Syncs
    BY <1>4, SyncTypes DEF SyncBurst
  <2> QED
    BY <2>1, <1>4 DEF TypeOK, SyncBurst
<1>5. CASE StartData
  <2>1. <<>> \in Frames
    BY DEF Frames
  <2> QED
    BY <2>1, <1>5 DEF TypeOK, StartData
<1>6. CASE DrainChunk
  <2>1. PICK n \in 1..Len(chan) : chan' = After(chan, n)
    BY <1>6 DEF DrainChunk
  <2>2. chan' \in Frames
    BY <2>1, <1>0, AfterFacts
  <2> QED
    BY <2>2, <1>6 DEF TypeOK, DrainChunk
<1>7. CASE ReadChunk
  <2>1. PICK n \in 1..Len(chan) : /\ pcm' = pcm \o SubSeq(chan, 1, n)
                                  /\ chan' = After(chan, n)
    BY <1>7 DEF ReadChunk
  <2>n. n \in 0..Len(chan)
    BY <1>0
  <2>a. chan' \in Frames
    BY <2>n, <2>1, <1>0, AfterFacts
  <2>2. SubSeq(chan, 1, n) \in Frames
    BY <2>n, <1>0, FirstFacts
  <2>3. pcm' \in Frames
    <3>1. pcm \in Seq(1..Samples) /\ SubSeq(chan, 1, n) \in Seq(1..Samples)
      BY <2>2, <1>0
    <3>2. pcm \o SubSeq(chan, 1, n) \in Seq(1..Samples)
      BY ONLY <3>1, ConcatProperties
    <3> QED
      BY <2>1, <3>2, <1>0
  <2> QED
    BY <2>a, <2>3, <1>7 DEF TypeOK, ReadChunk
<1>8. CASE ReadFrame
  <2>1. Spf \in 0..Len(pcm) /\ pcm \in Seq(1..Samples)
    BY <1>8, <1>0 DEF ReadFrame
  <2>2. After(pcm, Spf) \in Seq(1..Samples) /\ SubSeq(pcm, 1, Spf) \in Seq(1..Samples)
    BY ONLY <2>1, AfterFacts, FirstFacts
  <2>3. pcm' \in Frames /\ payload' \in Frames
    BY <1>8, <1>0, <2>2 DEF ReadFrame
  <2> QED
    BY <2>3, <1>8 DEF TypeOK, ReadFrame
<1>9. CASE Resend
  <2>1. buf[idx] \in Packets
    BY PacketTypes
  <2>2. sent' \in Seq(Packets)
    BY <2>1, <1>9, AppendProperties DEF TypeOK, Resend, SendPacket
  <2>3. rtpTime' \in 0..(RtpMod - 1)
    BY <2>1, <1>9 DEF TypeOK, Resend, SendPacket, Advance, Packets
  <2>4. nextNonce' \in Nat
    BY <1>9 DEF TypeOK, Resend, SendPacket
  <2> QED
    BY <2>2, <2>3, <2>4, <1>9 DEF TypeOK, Resend
<1>10. CASE Send
  <2>1. NewFrame \in Packets
    BY PacketTypes
  <2>2. sent' \in Seq(Packets)
    BY <2>1, <1>10, AppendProperties DEF TypeOK, Send, SendPacket
  <2>3. rtpTime' \in 0..(RtpMod - 1)
    BY <2>1, <1>10 DEF TypeOK, Send, SendPacket, Advance, Packets
  <2>4. nextNonce' \in Nat
    BY <1>10 DEF TypeOK, Send, SendPacket
  <2>5. buf' \in [0..(Depth - 1) -> Packets]
    BY <2>1, <1>10 DEF TypeOK, Send
  <2>6. idx' \in 0..(Depth - 1)
    BY <1>10 DEF TypeOK, Send, BufferFull
  <2>7. burstDone' \in BOOLEAN
    BY <1>10 DEF TypeOK, Send, BufferFull
  <2>8. frameSeq' \in 0..(SeqMod - 1) /\ nextRtp' \in 0..(RtpMod - 1)
    BY <1>10, Remainder DEF TypeOK, Send
  <2> QED
    BY <2>2, <2>3, <2>4, <2>5, <2>6, <2>7, <2>8, <1>10 DEF TypeOK, Send
<1>11. CASE SyncCheck \/ SyncWakes
  BY <1>11 DEF TypeOK, SyncCheck, SyncWakes
<1>12. CASE SyncSends
  <2>1. sync' \in Syncs
    BY <1>12, SyncTypes DEF SyncSends
  <2> QED
    BY <2>1, <1>12 DEF TypeOK, SyncSends
<1>13. CASE UNCHANGED vars
  BY <1>13 DEF TypeOK, vars
<1> QED
  BY <1>1, <1>2, <1>3, <1>4, <1>5, <1>6, <1>7, <1>8, <1>9, <1>10, <1>11, <1>12,
     <1>13 DEF Next, Session, AudioThread, SyncThread

(* Who moves samples, and who does not.                                    *)
LEMMA SampleSteps ==
  ASSUME [Next]_vars
  PROVE  NewSample \/ StartData \/ DrainChunk \/ ReadChunk \/ ReadFrame
           \/ UNCHANGED captureVars
BY DEF Next, Session, AudioThread, SyncThread, FirstFrame, Stop, GateOpens,
       GateStops, SyncBurst, DrainEnds, Check, Resend, Send, SendFails, SyncCheck,
       SyncWakes, SyncSends, vars, captureVars

LEMMA SampleNext == TypeOK /\ PhaseInv /\ SampleInv /\ [Next]_vars => SampleInv'
<1> SUFFICES ASSUME TypeOK, PhaseInv, SampleInv, [Next]_vars
             PROVE  SampleInv'
  OBVIOUS
<1> USE DEF sessionVars, captureVars, streamVars, frameVars
<1>0. chan \in Seq(1..Samples) /\ pcm \in Seq(1..Samples) /\ captured \in Nat
  BY BoundsAssumption DEF TypeOK, Frames
<1>1. CASE NewSample
  <2>1. captured + 1 \in 1..Samples
    BY <1>1, BoundsAssumption DEF NewSample, TypeOK
  <2>2. /\ chan' \in Seq(1..Samples)
        /\ Len(chan') = Len(chan) + 1
        /\ \A i \in 1..Len(chan) : chan'[i] = chan[i]
        /\ chan'[Len(chan) + 1] = captured + 1
    BY <2>1, <1>0, <1>1, AppendProperties DEF NewSample
  <2>3. captured' = captured + 1 /\ pcm' = pcm
    BY <1>1 DEF NewSample
  <2>4. Len(pcm) \in Nat /\ Len(chan) \in Nat
    BY <1>0
  <2>5. \A i \in 1..(Len(chan) + 1) : chan'[i] = captured - Len(chan) + i
    <3> TAKE i \in 1..(Len(chan) + 1)
    <3>1. CASE i = Len(chan) + 1
      BY <3>1, <2>2, <2>4, <1>0
    <3>2. CASE i \in 1..Len(chan)
      BY <3>2, <2>2, <1>0 DEF SampleInv
    <3> QED
      BY <3>1, <3>2, <2>4
  <2>6. \A i \in 1..Len(pcm) : pcm[i] = captured - Len(chan) - Len(pcm) + i
    BY DEF SampleInv
  <2>7. Len(pcm) + Len(chan) <= captured
    BY DEF SampleInv
  <2> QED
    BY <2>2, <2>3, <2>4, <2>5, <2>6, <2>7, BoundsAssumption DEF SampleInv, TypeOK
<1>2. CASE StartData
  <2>1. pcm' = <<>> /\ UNCHANGED <<captured, chan>>
    BY <1>2 DEF StartData
  <2> QED
    BY <2>1, <1>0 DEF SampleInv
<1>3. CASE DrainChunk
  <2>1. PICK n \in 1..Len(chan) : chan' = After(chan, n)
    BY <1>3 DEF DrainChunk
  <2>2. n \in 0..Len(chan)
    BY <1>0
  <2>3. /\ Len(chan') = Len(chan) - n
        /\ \A i \in 1..(Len(chan) - n) : chan'[i] = chan[n + i]
    BY <2>1, <2>2, <1>0, AfterFacts
  <2>4. pcm = <<>> /\ UNCHANGED <<captured, pcm>>
    BY <1>3 DEF DrainChunk, PhaseInv
  <2> QED
    BY <2>2, <2>3, <2>4, <1>0 DEF SampleInv
<1>4. CASE ReadChunk
  <2>1. PICK n \in 1..Len(chan) : /\ pcm' = pcm \o SubSeq(chan, 1, n)
                                  /\ chan' = After(chan, n)
    BY <1>4 DEF ReadChunk
  <2>2. n \in 0..Len(chan)
    BY <1>0
  <2>3. /\ Len(chan') = Len(chan) - n
        /\ \A i \in 1..(Len(chan) - n) : chan'[i] = chan[n + i]
    BY <2>1, <2>2, <1>0, AfterFacts
  <2>4. /\ SubSeq(chan, 1, n) \in Seq(1..Samples)
        /\ Len(SubSeq(chan, 1, n)) = n
        /\ \A i \in 1..n : SubSeq(chan, 1, n)[i] = chan[i]
    BY <2>2, <1>0, FirstFacts
  <2>5. /\ Len(pcm') = Len(pcm) + n
        /\ \A i \in 1..(Len(pcm) + n) :
             pcm'[i] = IF i <= Len(pcm) THEN pcm[i] ELSE SubSeq(chan, 1, n)[i - Len(pcm)]
    BY <2>1, <2>4, <1>0, ConcatProperties
  <2>6. captured' = captured
    BY <1>4 DEF ReadChunk
  <2>7. \A i \in 1..(Len(pcm) + n) :
          pcm'[i] = IF i <= Len(pcm) THEN pcm[i] ELSE chan[i - Len(pcm)]
    BY <2>2, <2>4, <2>5, <1>0
  <2>8. Len(pcm) \in Nat /\ Len(chan) \in Nat
    BY <1>0
  <2>9. \A i \in 1..Len(chan') : chan'[i] = captured' - Len(chan') + i
    BY <2>2, <2>3, <2>6, <2>8, <1>0 DEF SampleInv
  <2>10. \A i \in 1..Len(pcm') : pcm'[i] = captured' - Len(chan') - Len(pcm') + i
    <3> TAKE i \in 1..Len(pcm')
    <3>1. i \in 1..(Len(pcm) + n)
      BY <2>5
    <3>2. CASE i <= Len(pcm)
      BY <3>1, <3>2, <2>2, <2>3, <2>5, <2>6, <2>7, <2>8, <1>0 DEF SampleInv
    <3>3. CASE i > Len(pcm)
      <4>1. i - Len(pcm) \in 1..Len(chan) /\ pcm'[i] = chan[i - Len(pcm)]
        BY <3>1, <3>3, <2>2, <2>7, <2>8
      <4>2. pcm'[i] = captured - Len(chan) + (i - Len(pcm))
        BY <4>1 DEF SampleInv
      <4> QED
        BY <4>2, <3>1, <2>2, <2>3, <2>5, <2>6, <2>8, <1>0
    <3> QED
      BY <3>1, <3>2, <3>3, <2>8
  <2>11. Len(pcm') + Len(chan') <= captured'
    BY <2>2, <2>3, <2>5, <2>6, <2>8, <1>0 DEF SampleInv
  <2> QED
    BY <2>9, <2>10, <2>11 DEF SampleInv
<1>5. CASE ReadFrame
  <2>1. Spf \in 0..Len(pcm) /\ pcm' = After(pcm, Spf) /\ UNCHANGED <<captured, chan>>
    BY <1>5, <1>0, SpfAssumption DEF ReadFrame
  <2>2. /\ Len(pcm') = Len(pcm) - Spf
        /\ \A i \in 1..(Len(pcm) - Spf) : pcm'[i] = pcm[Spf + i]
    BY <2>1, <1>0, AfterFacts
  <2> QED
    BY <2>1, <2>2, <1>0, SpfAssumption DEF SampleInv
<1>6. CASE UNCHANGED captureVars
  BY <1>6 DEF SampleInv
<1> QED
  BY <1>1, <1>2, <1>3, <1>4, <1>5, <1>6, SampleSteps

(* A frame that is read is the stretch that was next, and nothing is       *)
(* skipped.                                                                *)
LEMMA FrameIsNext ==
  ASSUME TypeOK, SampleInv, ReadFrame
  PROVE  /\ Len(payload') = Spf
         /\ \A i \in 1..Spf : payload'[i] = Base + i
         /\ Base' = Base + Spf
<1>0. pcm \in Seq(1..Samples) /\ chan \in Seq(1..Samples) /\ captured \in Nat
  BY BoundsAssumption DEF TypeOK, Frames
<1>1. /\ Spf \in 0..Len(pcm) /\ payload' = SubSeq(pcm, 1, Spf)
      /\ pcm' = After(pcm, Spf) /\ UNCHANGED <<captured, chan>>
  BY <1>0, SpfAssumption DEF ReadFrame
<1>2. /\ Len(payload') = Spf
      /\ \A i \in 1..Spf : payload'[i] = pcm[i]
  BY <1>1, <1>0, FirstFacts
<1>3. Len(pcm') = Len(pcm) - Spf
  BY <1>1, <1>0, AfterFacts
<1> QED
  BY <1>0, <1>1, <1>2, <1>3, SpfAssumption DEF SampleInv, Base

LEMMA PhaseNext == TypeOK /\ PhaseInv /\ SampleInv /\ [Next]_vars => PhaseInv'
<1> SUFFICES ASSUME TypeOK, PhaseInv, SampleInv, [Next]_vars
             PROVE  PhaseInv'
  OBVIOUS
<1> USE DEF sessionVars, captureVars, streamVars, frameVars, PhaseInv, Early,
            Streaming
<1>1. CASE FirstFrame \/ Stop
  BY <1>1 DEF FirstFrame, Stop
<1>2. CASE NewSample
  BY <1>2 DEF NewSample, TypeOK
<1>3. CASE GateOpens \/ GateStops \/ DrainEnds \/ Check \/ SendFails
  BY <1>3 DEF GateOpens, GateStops, DrainEnds, Check, SendFails
<1>4. CASE SyncBurst
  <2>1. sync'.position = 0
    BY <1>4 DEF SyncBurst, SyncPacket, Position, TypeOK
  <2> QED
    BY <2>1, <1>4 DEF SyncBurst
<1>5. CASE StartData
  BY <1>5 DEF StartData, TypeOK
<1>6. CASE DrainChunk \/ ReadChunk \/ ReadFrame
  BY <1>6 DEF DrainChunk, ReadChunk, ReadFrame
<1>7. CASE Resend \/ Send
  BY <1>7 DEF Resend, Send
<1>8. CASE SyncCheck \/ SyncWakes \/ SyncSends
  BY <1>8 DEF SyncCheck, SyncWakes, SyncSends
<1>9. CASE UNCHANGED vars
  BY <1>9 DEF vars
<1> QED
  BY <1>1, <1>2, <1>3, <1>4, <1>5, <1>6, <1>7, <1>8, <1>9
  DEF Next, Session, AudioThread, SyncThread

-----------------------------------------------------------------------------
(***************************************************************************)
(* What has gone out.                                                      *)
(***************************************************************************)

LEMMA SentSteps ==
  ASSUME [Next]_vars
  PROVE  /\ Resend \/ Send \/ UNCHANGED <<sent, nextNonce>>
         /\ UNCHANGED <<chacha, latency>>
BY DEF Next, Session, AudioThread, SyncThread, FirstFrame, Stop, NewSample,
       GateOpens, GateStops, SyncBurst, StartData, DrainChunk, DrainEnds, Check,
       ReadChunk, ReadFrame, Resend, Send, SendFails, SyncCheck, SyncWakes,
       SyncSends, vars, sessionVars, streamVars, frameVars, captureVars

(* Count is what it is called.                                             *)
LEMMA CountFacts ==
  ASSUME TypeOK
  PROVE  /\ Count \in Nat /\ Len(sent) \in Nat /\ Count <= Len(sent)
         /\ Count = 0 <=> sent = <<>>
         /\ \A n \in Nat \ {0} : Sent(n) <=> n <= Count
         /\ \A n \in 1..Count : Place(n) \in 1..Len(sent)
<1>1. Len(sent) \in Nat /\ DOMAIN sent = 1..Len(sent)
  BY DEF TypeOK
<1>2. Count \in Nat /\ Count <= Len(sent) /\ (Count = 0 <=> Len(sent) = 0)
  BY <1>1, DepthAssumption DEF Count
<1>3. Len(sent) = 0 <=> sent = <<>>
  BY EmptySeq DEF TypeOK
<1>4. \A n \in Nat \ {0} : Sent(n) <=> n <= Count
  BY <1>1, DepthAssumption DEF Count, Sent, Place
<1>5. \A n \in 1..Count : Place(n) \in 1..Len(sent)
  BY <1>1, <1>2, <1>4 DEF Sent
<1> QED
  BY <1>1, <1>2, <1>3, <1>4, <1>5

(* A new frame is the next one of those that have gone out.                *)
LEMMA AfterSend ==
  ASSUME TypeOK, BufferInv, Send
  PROVE  /\ Count' = Count + 1
         /\ \A n : Place(n)' = Place(n)
         /\ Place(Count + 1) = Len(sent) + 1
         /\ Len(sent') = Len(sent) + 1
         /\ \A i \in 1..Len(sent) : sent'[i] = sent[i]
         /\ sent'[Len(sent) + 1] = NewFrame
         /\ \A n \in 1..Count : sent'[Place(n)] = sent[Place(n)]
<1>1. /\ Len(sent') = Len(sent) + 1
      /\ \A i \in 1..Len(sent) : sent'[i] = sent[i]
      /\ sent'[Len(sent) + 1] = NewFrame
  BY PacketTypes, AppendProperties DEF TypeOK, Send, SendPacket
<1>2. chacha' = chacha /\ pc = "send"
  BY DEF Send, sessionVars
<1>3. \A n : Place(n)' = Place(n)
  BY <1>2 DEF Place, UseFec
<1>4. UseFec => IF burstDone THEN Len(sent) >= Depth /\ Len(sent) = 2 * Count - Depth + 1
                             ELSE Len(sent) = idx /\ idx < Depth
  BY <1>2, DepthAssumption DEF BufferInv, Streaming, TypeOK
<1>5. Count' = Count + 1 /\ Place(Count + 1) = Len(sent) + 1
  <2>1. Count \in Nat /\ Len(sent) \in Nat
    BY CountFacts
  <2>2. CASE ~UseFec
    BY <2>1, <2>2, <1>1, <1>2 DEF Count, Place, UseFec
  <2>3. CASE UseFec /\ burstDone
    BY <2>1, <2>3, <1>1, <1>2, <1>4, DepthAssumption DEF Count, Place, UseFec
  <2>4. CASE UseFec /\ ~burstDone
    BY <2>1, <2>4, <1>1, <1>2, <1>4, DepthAssumption DEF Count, Place, UseFec
  <2> QED
    BY <2>2, <2>3, <2>4
<1> QED
  BY <1>1, <1>3, <1>5, CountFacts

(* A frame that goes out again does not count.                             *)
LEMMA AfterResend ==
  ASSUME TypeOK, BufferInv, FecInv, Resend
  PROVE  /\ UseFec /\ burstDone
         /\ Len(sent) = 2 * Count - Depth /\ Count >= Depth
         /\ Count' = Count
         /\ \A n : Place(n)' = Place(n)
         /\ Len(sent') = Len(sent) + 1
         /\ \A i \in 1..Len(sent) : sent'[i] = sent[i]
         /\ sent'[Len(sent) + 1] = sent[Place(Count + 1 - Depth)]
         /\ \A n \in 1..Count : sent'[Place(n)] = sent[Place(n)]
<1>1. /\ Len(sent') = Len(sent) + 1
      /\ \A i \in 1..Len(sent) : sent'[i] = sent[i]
      /\ sent'[Len(sent) + 1] = buf[idx]
  BY PacketTypes, AppendProperties DEF TypeOK, Resend, SendPacket
<1>2. chacha' = chacha /\ pc = "resend" /\ UseFec /\ burstDone
  BY DEF Resend, sessionVars, FecInv
<1>3. \A n : Place(n)' = Place(n)
  BY <1>2 DEF Place, UseFec
<1>4. Count \in Nat /\ Len(sent) \in Nat
  BY CountFacts
<1>5. Len(sent) = 2 * Count - Depth /\ Count >= Depth
  BY <1>2, <1>4, DepthAssumption DEF BufferInv, Streaming
<1>6. Count' = Count
  <2>1. Len(sent') > Depth /\ Len(sent') + Depth = 2 * Count + 1
    BY <1>1, <1>4, <1>5, DepthAssumption
  <2>2. Count' = (Len(sent') + Depth) \div 2
    BY <2>1, <1>2 DEF Count, UseFec
  <2>3. \A c \in Nat : (2 * c + 1) \div 2 = c
    OBVIOUS
  <2> QED
    BY <2>1, <2>2, <2>3, <1>4
<1>7. buf[idx] = sent[Place(Count + 1 - Depth)]
  <2>1. idx \in 0..(Depth - 1)
    BY DEF TypeOK
  <2>2. Slot(idx) = Count + 1 - Depth
    BY <2>1, <1>4, DepthAssumption DEF Slot
  <2>3. buf[idx] = sent[Place(Slot(idx))]
    BY <2>1, <1>2 DEF BufferInv, Streaming
  <2> QED
    BY <2>2, <2>3
<1> QED
  BY <1>1, <1>2, <1>3, <1>5, <1>6, <1>7, CountFacts

(* Otherwise nothing of it changes.                                        *)
LEMMA AfterOther ==
  ASSUME UNCHANGED <<sent, chacha>>
  PROVE  /\ Count' = Count
         /\ \A n : Place(n)' = Place(n)
BY DEF Count, Place, UseFec

(* The frame that is sent is the one after the last.                       *)
LEMMA ChainNext ==
  TypeOK /\ PhaseInv /\ BufferInv /\ FecInv /\ NextInv /\ FeedInv /\ Chain
    /\ [Next]_vars => Chain'
<1> SUFFICES ASSUME TypeOK, PhaseInv, BufferInv, FecInv, NextInv, FeedInv, Chain,
                    [Next]_vars
             PROVE  Chain'
  OBVIOUS
<1>0. Count \in Nat /\ \A n \in 1..Count : n - 1 \in 0..Count /\ (n # 1 => n - 1 \in 1..Count)
  BY CountFacts
<1>1. CASE Send
  <2>1. /\ Count' = Count + 1 /\ \A n : Place(n)' = Place(n)
        /\ Place(Count + 1) = Len(sent) + 1
        /\ sent'[Len(sent) + 1] = NewFrame
        /\ \A n \in 1..Count : sent'[Place(n)] = sent[Place(n)]
    BY <1>1, AfterSend
  <2>2. stale' = stale /\ latency' = latency /\ pc = "send"
    BY <1>1 DEF Send, sessionVars
  <2>3. \A n \in 1..Count : GoodFrame(n)'
    BY <2>1, <2>2, <1>0 DEF Chain, GoodFrame
  <2>4. ASSUME NEW k, k = Count + 1
        PROVE  GoodFrame(k)'
    <3>1. sent'[Place(k)'] = NewFrame
      BY <2>1, <2>4
    <3>2. /\ NewFrame.payload = payload /\ NewFrame.rtp = nextRtp
          /\ NewFrame.seq = frameSeq
      BY DEF NewFrame
    <3>3. Len(payload) = Spf /\ Consecutive(payload)
      BY <2>2 DEF FeedInv
    <3>4. CASE Count = 0
      <4>1. payload[1] > stale /\ nextRtp = latency /\ frameSeq = 1
        BY <3>4, <2>2 DEF FeedInv, NextInv, Streaming
      <4> QED
        BY <4>1, <3>1, <3>2, <3>3, <3>4, <2>2, <2>4 DEF GoodFrame
    <3>5. CASE Count # 0
      <4>1. /\ payload[1] = Last.payload[Spf] + 1
            /\ nextRtp = (Last.rtp + Spf) % RtpMod
            /\ frameSeq = (Last.seq + 1) % SeqMod
        BY <3>5, <2>2 DEF FeedInv, NextInv, Streaming
      <4>2. Follows(Last, NewFrame)
        BY <4>1, <3>2 DEF Follows
      <4>3. k - 1 = Count /\ k # 1
        BY <2>4, <3>5, <1>0
      <4>4. sent'[Place(k - 1)'] = Last
        BY <2>1, <3>5, <4>3, <1>0 DEF Last
      <4> QED
        BY <4>2, <4>3, <4>4, <3>1, <3>2, <3>3 DEF GoodFrame
    <3> QED
      BY <3>4, <3>5, <1>0
  <2> QED
    BY <2>1, <2>3, <2>4, <1>0 DEF Chain
<1>2. CASE Resend
  <2>1. /\ Count' = Count /\ \A n : Place(n)' = Place(n)
        /\ \A n \in 1..Count : sent'[Place(n)] = sent[Place(n)]
    BY <1>2, AfterResend
  <2>2. stale' = stale /\ latency' = latency
    BY <1>2 DEF Resend, sessionVars, frameVars
  <2> QED
    BY <2>1, <2>2, <1>0 DEF Chain, GoodFrame
<1>3. CASE UNCHANGED <<sent, chacha, latency, stale>>
  BY <1>3, AfterOther DEF Chain, GoodFrame
<1>4. CASE UNCHANGED <<sent, chacha, latency>> /\ stale' # stale
  <2>1. StartData
    BY <1>4 DEF Next, Session, AudioThread, SyncThread, FirstFrame, Stop, NewSample,
       GateOpens, GateStops, SyncBurst, DrainChunk, DrainEnds, Check,
       ReadChunk, ReadFrame, Resend, Send, SendFails, SyncCheck, SyncWakes,
       SyncSends, vars, sessionVars, streamVars, frameVars, captureVars
  <2>2. Count' = 0
    BY <2>1, <1>4, AfterOther, CountFacts DEF StartData, PhaseInv, Early
  <2> QED
    BY <2>2 DEF Chain
<1> QED
  BY <1>1, <1>2, <1>3, <1>4, SentSteps

(* Where the newest frame is, after each kind of step.                     *)
LEMMA LastFacts ==
  ASSUME TypeOK, BufferInv, FecInv, [Next]_vars
  PROVE  /\ Send => Count' # 0 /\ Last' = NewFrame
         /\ ~Send => Count' = Count /\ (Count # 0 => Last' = Last)
<1>0. Count \in Nat
  BY CountFacts
<1>1. CASE Send
  <2>1. Count' = Count + 1 /\ Last' = NewFrame
    BY <1>1, AfterSend DEF Last
  <2> QED
    BY <2>1, <1>0, <1>1
<1>2. CASE Resend /\ ~Send
  BY <1>0, <1>2, AfterResend DEF Last
<1>3. CASE UNCHANGED sent /\ ~Send
  <2>1. chacha' = chacha
    BY SentSteps
  <2> QED
    BY <2>1, <1>3, AfterOther DEF Last
<1> QED
  BY <1>1, <1>2, <1>3, SentSteps

LEMMA NextNext ==
  TypeOK /\ PhaseInv /\ BufferInv /\ FecInv /\ NextInv /\ [Next]_vars => NextInv'
<1> SUFFICES ASSUME TypeOK, PhaseInv, BufferInv, FecInv, NextInv, [Next]_vars
             PROVE  NextInv'
  OBVIOUS
<1>1. CASE Send
  <2>1. Count' # 0 /\ Last' = NewFrame
    BY <1>1, LastFacts
  <2>2. /\ nextRtp' = (nextRtp + Spf) % RtpMod
        /\ frameSeq' = (frameSeq + 1) % SeqMod
    BY <1>1 DEF Send
  <2>3. NewFrame.rtp = nextRtp /\ NewFrame.seq = frameSeq
    BY DEF NewFrame
  <2> QED
    BY <2>1, <2>2, <2>3 DEF NextInv
<1>2. CASE StartData
  <2>1. Count' = 0
    BY <1>2, AfterOther, CountFacts DEF StartData, sessionVars, PhaseInv, Early
  <2>2. nextRtp' = latency /\ latency' = latency /\ frameSeq' = 1
    BY <1>2 DEF StartData, sessionVars, PhaseInv, Early
  <2> QED
    BY <2>1, <2>2 DEF NextInv
<1>3. CASE ~Send /\ ~StartData
  <2>1. /\ UNCHANGED <<nextRtp, frameSeq, latency>>
        /\ Streaming' => Streaming
    BY <1>3 DEF Next, Session, AudioThread, SyncThread, FirstFrame, Stop, NewSample,
       GateOpens, GateStops, SyncBurst, DrainChunk, DrainEnds, Check,
       ReadChunk, ReadFrame, Resend, SendFails, SyncCheck, SyncWakes,
       SyncSends, vars, sessionVars, streamVars, frameVars, captureVars, Streaming
  <2>2. Count' = Count /\ (Count # 0 => Last' = Last)
    BY <1>3, LastFacts
  <2> QED
    BY <2>1, <2>2 DEF NextInv
<1> QED
  BY <1>1, <1>2, <1>3

LEMMA FeedNext ==
  TypeOK /\ SampleInv /\ PhaseInv /\ BufferInv /\ FecInv /\ FeedInv /\ [Next]_vars
    => FeedInv'
<1> SUFFICES ASSUME TypeOK, SampleInv, PhaseInv, BufferInv, FecInv, FeedInv,
                    [Next]_vars
             PROVE  FeedInv'
  OBVIOUS
<1> USE DEF sessionVars, captureVars, streamVars, frameVars
<1>0. /\ Len(pcm) \in Nat /\ Len(chan) \in Nat /\ captured \in Nat
      /\ Base \in Nat
  BY BoundsAssumption DEF TypeOK, Frames, SampleInv, Base
<1>a. ~Send => Count' = Count /\ (Count # 0 => Last' = Last)
  BY LastFacts
<1>1. CASE Send
  <2>1. Count' # 0 /\ Last' = NewFrame
    BY <1>1, LastFacts
  <2>2. pc = "send" /\ pc' = "check" /\ UNCHANGED <<captured, chan, pcm, payload>>
    BY <1>1 DEF Send
  <2>3. Base' = payload[Spf]
    BY <2>2 DEF FeedInv, Base
  <2> QED
    BY <2>1, <2>2, <2>3 DEF FeedInv, NewFrame
<1>2. CASE ReadFrame
  <2>1. /\ Len(payload') = Spf /\ \A i \in 1..Spf : payload'[i] = Base + i
        /\ Base' = Base + Spf
    BY <1>2, FrameIsNext
  <2>2. pc = "read" /\ pc' \in {"resend", "send"} /\ stale' = stale /\ ~Send
    BY <1>2 DEF ReadFrame, Send
  <2>3. Consecutive(payload')
    BY <2>1, <1>0, SpfAssumption DEF Consecutive
  <2>4. Base' = payload'[Spf] /\ payload'[1] = Base + 1
    BY <2>1, <1>0, SpfAssumption
  <2>5. IF Count = 0 THEN Base >= stale ELSE Base = Last.payload[Spf]
    BY <2>2 DEF FeedInv
  <2>6. IF Count' = 0 THEN payload'[1] > stale'
                      ELSE payload'[1] = Last'.payload[Spf] + 1
    BY <2>2, <2>4, <2>5, <1>0, <1>a DEF TypeOK
  <2> QED
    BY <2>1, <2>2, <2>3, <2>4, <2>6 DEF FeedInv, Consecutive
<1>3. CASE DrainEnds
  <2>1. Count' = 0
    BY <1>3, AfterOther, CountFacts DEF DrainEnds, PhaseInv
  <2>2. /\ chan' = <<>> /\ pcm' = <<>> /\ captured' = captured /\ stale' = stale
        /\ captured >= stale /\ pc' = "check"
    BY <1>3, <1>0 DEF DrainEnds, PhaseInv, TypeOK
  <2>3. Base' = captured
    BY <2>2, <1>0 DEF Base
  <2> QED
    BY <2>1, <2>2, <2>3 DEF FeedInv
<1>4. CASE NewSample
  <2>1. /\ Len(chan') = Len(chan) + 1 /\ captured' = captured + 1 /\ ~Send
        /\ UNCHANGED <<pcm, pc, payload, stale>>
    <3>1. chan \in Seq(1..Samples) /\ captured + 1 \in 1..Samples
      BY <1>4, BoundsAssumption DEF TypeOK, Frames, NewSample
    <3>2. Len(chan') = Len(chan) + 1
      BY <3>1, <1>4, AppendProperties DEF NewSample
    <3> QED
      BY <3>2, <1>4 DEF NewSample, Send
  <2>2. Base' = Base
    BY <2>1, <1>0 DEF Base
  <2> QED
    BY <2>1, <2>2, <1>a DEF FeedInv, Consecutive
<1>5. CASE ReadChunk
  <2>1. PICK n \in 1..Len(chan) : /\ pcm' = pcm \o SubSeq(chan, 1, n)
                                  /\ chan' = After(chan, n)
    BY <1>5 DEF ReadChunk
  <2>2. n \in 0..Len(chan) /\ chan \in Seq(1..Samples) /\ pcm \in Seq(1..Samples)
    BY <1>0 DEF TypeOK, Frames
  <2>3. Len(chan') = Len(chan) - n
    BY <2>1, <2>2, AfterFacts
  <2>4. SubSeq(chan, 1, n) \in Seq(1..Samples) /\ Len(SubSeq(chan, 1, n)) = n
    BY <2>2, FirstFacts
  <2>5. Len(pcm') = Len(pcm) + n
    BY <2>1, <2>2, <2>4, ConcatProperties
  <2>6. UNCHANGED <<captured, pc, stale, payload>> /\ ~Send /\ pc = "read"
    BY <1>5 DEF ReadChunk, Send
  <2>7. Base' = Base
    BY <2>2, <2>3, <2>5, <2>6, <1>0 DEF Base
  <2> QED
    BY <2>6, <2>7, <1>a DEF FeedInv
<1>6. CASE StartData \/ DrainChunk
  BY <1>6 DEF FeedInv, StartData, DrainChunk
<1>7. CASE Check
  BY <1>7, <1>a DEF FeedInv, Check, Send, Base
<1>8. CASE Resend
  BY <1>8, <1>a DEF FeedInv, Resend, Send, Base
<1>9. CASE GateOpens \/ GateStops \/ SyncBurst \/ SendFails
  BY <1>9 DEF FeedInv, GateOpens, GateStops, SyncBurst, SendFails
<1>10. CASE UNCHANGED <<captured, chan, pcm, pc, stale, payload, sent>>
  <2>1. ~Send
    BY <1>10 DEF Send
  <2> QED
    BY <2>1, <1>10, <1>a DEF FeedInv, Base
<1>11. FirstFrame \/ Stop \/ SyncThread \/ UNCHANGED vars
         => UNCHANGED <<captured, chan, pcm, pc, stale, payload, sent>>
  BY DEF FirstFrame, Stop, SyncThread, SyncCheck, SyncWakes, SyncSends, vars
<1> QED
  BY <1>1, <1>2, <1>3, <1>4, <1>5, <1>6, <1>7, <1>8, <1>9, <1>10, <1>11
  DEF Next, Session, AudioThread

LEMMA FecNext == FecInv /\ [Next]_vars => FecInv'
BY DEF FecInv, UseFec, Next, Session, AudioThread, SyncThread, FirstFrame, Stop,
       NewSample, GateOpens, GateStops, SyncBurst, StartData, DrainChunk, DrainEnds,
       Check, ReadChunk, ReadFrame, Resend, Send, SendFails, SyncCheck, SyncWakes,
       SyncSends, vars, sessionVars, streamVars, frameVars, captureVars

LEMMA BufferNext ==
  TypeOK /\ PhaseInv /\ FecInv /\ BufferInv /\ [Next]_vars => BufferInv'
<1> SUFFICES ASSUME TypeOK, PhaseInv, FecInv, BufferInv, [Next]_vars,
                    Streaming', UseFec'
             PROVE  BufferInv'
  BY DEF BufferInv
<1> USE DEF sessionVars, captureVars, streamVars, frameVars
<1>0. /\ Count \in Nat /\ Len(sent) \in Nat /\ idx \in 0..(Depth - 1)
      /\ Depth \in Nat \ {0} /\ burstDone \in BOOLEAN
  BY CountFacts, DepthAssumption DEF TypeOK
<1>b. UseFec
  BY SentSteps DEF UseFec
<1>1. CASE Send
  <2>0. Streaming /\ pc = "send" /\ pc' = "check"
    BY <1>1 DEF Send, Streaming
  <2>1. /\ Count' = Count + 1
        /\ \A n : Place(n)' = Place(n)
        /\ Len(sent') = Len(sent) + 1
        /\ Place(Count + 1) = Len(sent) + 1
        /\ sent'[Len(sent) + 1] = NewFrame
        /\ \A n \in 1..Count : sent'[Place(n)] = sent[Place(n)]
        /\ \A i \in 1..Len(sent) : sent'[i] = sent[i]
    BY <1>1, AfterSend
  <2>2. /\ buf' = [buf EXCEPT ![idx] = NewFrame]
        /\ idx' = IF BufferFull THEN 0 ELSE idx + 1
        /\ burstDone' = (burstDone \/ BufferFull)
    BY <1>1, <1>b DEF Send
  <2>3. buf'[idx] = NewFrame /\ \A j \in 0..(Depth - 1) : j # idx => buf'[j] = buf[j]
    BY <2>2, <1>0 DEF TypeOK
  <2>4. BufferFull <=> idx = Depth - 1
    BY <1>0 DEF BufferFull
  <2>5. CASE burstDone
    <3>1. /\ Len(sent) >= Depth /\ Len(sent) = 2 * Count - Depth + 1
          /\ \A j \in 0..(Depth - 1) : buf[j] = sent[Place(Slot(j))]
      BY <2>5, <2>0, <1>b DEF BufferInv
    <3>2. burstDone'
      BY <2>2, <2>5
    <3>3. Len(sent') >= Depth /\ Len(sent') = 2 * Count' - Depth
      BY <2>1, <3>1, <1>0
    <3>4. ASSUME NEW j \in 0..(Depth - 1)
          PROVE  buf'[j] = sent'[Place(Slot(j)')]
      <4>1. CASE j = idx
        <5>1. Slot(j)' = Count + 1
          BY <4>1, <2>1, <2>2, <2>4, <1>0 DEF Slot
        <5> QED
          BY <5>1, <4>1, <2>1, <2>3
      <4>2. CASE j # idx
        <5>1. Slot(j)' = Slot(j) /\ Slot(j) \in 1..Count
          BY <4>2, <2>1, <2>2, <2>4, <3>1, <1>0 DEF Slot
        <5> QED
          BY <5>1, <4>2, <2>1, <2>3, <3>1
      <4> QED
        BY <4>1, <4>2
    <3>5. \A j \in 0..(Depth - 1) : buf'[j] = sent'[Place(Slot(j))']
      BY <3>4, <2>1
    <3> QED
      BY <2>0, <3>2, <3>3, <3>5 DEF BufferInv
  <2>6. CASE ~burstDone
    <3>1. Len(sent) = idx /\ \A j \in 0..(idx - 1) : buf[j] = sent[j + 1]
      BY <2>6, <2>0, <1>b DEF BufferInv
    <3>2. \A j \in 0..idx : buf'[j] = sent'[j + 1]
      BY <3>1, <2>1, <2>3, <1>0
    <3>3. CASE BufferFull
      <4>a. burstDone'
        BY <3>3, <2>2
      <4>b. idx' = 0 /\ idx + 1 = Depth
        BY <3>3, <2>2, <2>4, <1>0
      <4>1. burstDone' /\ idx' = 0 /\ idx + 1 = Depth
        BY <4>a, <4>b
      <4>2. Len(sent') = Depth
        BY <4>1, <3>1, <2>1, <1>0
      <4>3. Count' = Depth
        BY <4>2, SentSteps DEF Count
      <4>4. \A j \in 0..(Depth - 1) : Slot(j)' = j + 1
        BY <4>1, <4>3, <1>0 DEF Slot
      <4>5. \A j \in 0..(Depth - 1) : Place(j + 1) = j + 1
        BY <1>0 DEF Place
      <4>6. \A j \in 0..(Depth - 1) : buf'[j] = sent'[Place(Slot(j))']
        BY <4>1, <4>4, <4>5, <3>2, <2>1, <1>0
      <4> QED
        BY <4>1, <4>2, <4>3, <4>6, <2>0, <1>0 DEF BufferInv
    <3>4. CASE ~BufferFull
      <4>1. burstDone' = FALSE /\ idx' = idx + 1
        BY <3>4, <2>2, <2>6
      <4>2. Len(sent') = idx'
        BY <4>1, <3>1, <2>1
      <4>3. \A j \in 0..(idx' - 1) : buf'[j] = sent'[j + 1]
        BY <4>1, <3>2, <1>0
      <4> QED
        BY <4>1, <4>2, <4>3, <2>0 DEF BufferInv
    <3> QED
      BY <3>3, <3>4
  <2> QED
    BY <2>5, <2>6, <1>0
<1>2. CASE Resend
  <2>1. /\ UseFec /\ burstDone
        /\ Len(sent) = 2 * Count - Depth /\ Count >= Depth
        /\ Count' = Count
        /\ \A n : Place(n)' = Place(n)
        /\ Len(sent') = Len(sent) + 1
        /\ sent'[Len(sent) + 1] = sent[Place(Count + 1 - Depth)]
        /\ \A n \in 1..Count : sent'[Place(n)] = sent[Place(n)]
    BY <1>2, AfterResend
  <2>2. pc = "resend" /\ pc' = "send" /\ UNCHANGED <<buf, idx, burstDone>>
    BY <1>2 DEF Resend
  <2>3. \A j \in 0..(Depth - 1) : buf[j] = sent[Place(Slot(j))]
    BY <2>1, <2>2, <1>b DEF BufferInv, Streaming
  <2>4. \A j \in 0..(Depth - 1) : Slot(j)' = Slot(j) /\ Slot(j) \in 1..Count
    BY <2>1, <2>2, <1>0 DEF Slot
  <2>5. \A j \in 0..(Depth - 1) : buf'[j] = sent'[Place(Slot(j))']
    BY <2>1, <2>2, <2>3, <2>4
  <2>6. Len(sent') >= Depth /\ Len(sent') = 2 * Count' - Depth + 1
    BY <2>1, <1>0
  <2>7. Count + 1 - Depth \in 1..Count
    BY <2>1, <1>0
  <2>8. sent'[Len(sent')] = sent'[Place(Count + 1 - Depth)]
    BY <2>1, <2>7
  <2>9. sent'[Len(sent')] = sent'[Place(Count + 1 - Depth)']
    BY <2>1, <2>8
  <2> QED
    BY <2>1, <2>2, <2>5, <2>6, <2>9 DEF BufferInv
<1>3. CASE StartData
  <2>1. /\ sent' = <<>> /\ idx' = 0 /\ burstDone' = FALSE /\ pc' = "drain"
    BY <1>3 DEF StartData, PhaseInv
  <2> QED
    BY <2>1 DEF BufferInv
<1>4. CASE ~Send /\ ~Resend /\ ~StartData
  <2>1. UNCHANGED <<sent, idx, burstDone, buf, chacha>>
    BY <1>4 DEF Next, Session, AudioThread, SyncThread, FirstFrame, Stop, NewSample,
       GateOpens, GateStops, SyncBurst, DrainChunk, DrainEnds, Check,
       ReadChunk, ReadFrame, SendFails, SyncCheck, SyncWakes,
       SyncSends, vars
  <2>2. /\ Streaming
        /\ pc' = "send" => pc = "send" \/ (pc = "read" /\ ~burstDone)
        /\ pc' = "resend" => burstDone
        /\ pc = "send" => pc' = "send"
    BY <1>4, <1>b DEF Next, Session, AudioThread, SyncThread, FirstFrame, Stop, NewSample,
       GateOpens, GateStops, SyncBurst, DrainChunk, DrainEnds, Check,
       ReadChunk, ReadFrame, SendFails, SyncCheck, SyncWakes,
       SyncSends, vars, Streaming, FecInv
  <2>3. Count' = Count /\ \A n : Place(n)' = Place(n)
    BY <2>1, AfterOther
  <2>4. \A j : Slot(j)' = Slot(j)
    BY <2>1, <2>3 DEF Slot
  <2> QED
    BY <2>1, <2>2, <2>3, <2>4, <1>b DEF BufferInv
<1> QED
  BY <1>1, <1>2, <1>3, <1>4

LEMMA TwiceNext ==
  TypeOK /\ FecInv /\ BufferInv /\ SentTwice /\ [Next]_vars => SentTwice'
<1> SUFFICES ASSUME TypeOK, FecInv, BufferInv, SentTwice, [Next]_vars, UseFec',
                    NEW n \in 1..Len(sent'), n > Depth,
                    (Place(n) - 1)' \in DOMAIN sent'
             PROVE  sent'[(Place(n) - 1)'] = sent'[Place(n - Depth)']
  BY DEF SentTwice
<1>0. /\ Count \in Nat /\ Len(sent) \in Nat /\ idx \in 0..(Depth - 1)
      /\ Depth \in Nat \ {0} /\ DOMAIN sent = 1..Len(sent) /\ Count <= Len(sent)
      /\ DOMAIN sent' = 1..Len(sent')
  BY TypeNext, CountFacts, DepthAssumption DEF TypeOK
<1>1. UseFec
  BY SentSteps DEF UseFec
<1>2. n \in Nat /\ Place(n) = 2 * n - Depth
  BY <1>0, <1>1 DEF Place, TypeOK
<1>3. \A k \in 1..Len(sent) : k > Depth /\ Place(k) - 1 \in DOMAIN sent =>
        sent[Place(k) - 1] = sent[Place(k - Depth)]
  BY <1>1 DEF SentTwice
<1>4. CASE Send
  <2>1. /\ \A k : Place(k)' = Place(k)
        /\ Len(sent') = Len(sent) + 1
        /\ \A i \in 1..Len(sent) : sent'[i] = sent[i]
    BY <1>4, AfterSend
  <2>2. Streaming /\ pc = "send"
    BY <1>4 DEF Send, Streaming
  <2>3. IF burstDone THEN Len(sent) >= Depth /\ Len(sent) = 2 * Count - Depth + 1
                     ELSE Len(sent) = idx
    BY <2>2, <1>1 DEF BufferInv
  <2>4. Place(n) - 1 \in 1..(Len(sent) + 1)
    BY <2>1, <1>0
  <2>a. 2 * n - Depth - 1 <= Len(sent) + 1
    BY <2>4, <1>0, <1>2
  <2>b. burstDone
    <3>1. CASE ~burstDone
      <4>1. Len(sent) <= Depth - 1
        BY <3>1, <2>3, <1>0
      <4>2. 2 * n <= 2 * Depth + 1 /\ n >= Depth + 1
        BY <4>1, <2>a, <1>0, <1>2
      <4> QED
        BY <4>2, <1>0, <1>2
    <3> QED
      BY <3>1
  <2>c. Len(sent) >= Depth /\ Len(sent) = 2 * Count - Depth + 1
    BY <2>b, <2>3
  <2>d. n <= Count + 1 /\ Count >= Depth
    BY <2>a, <2>c, <1>0, <1>2
  <2>5. Place(n) - 1 \in 1..Len(sent) /\ n \in 1..Len(sent)
    BY <2>c, <2>d, <2>4, <1>0, <1>2
  <2>6. Place(n - Depth) \in 1..Len(sent)
    <3>1. n - Depth \in 1..Count
      BY <2>d, <1>0, <1>2
    <3> QED
      BY <3>1, CountFacts
  <2> QED
    BY <2>1, <2>5, <2>6, <1>0, <1>3
<1>5. CASE Resend
  <2>1. /\ Len(sent) = 2 * Count - Depth /\ Count >= Depth
        /\ \A k : Place(k)' = Place(k)
        /\ Len(sent') = Len(sent) + 1
        /\ \A i \in 1..Len(sent) : sent'[i] = sent[i]
        /\ sent'[Len(sent) + 1] = sent[Place(Count + 1 - Depth)]
    BY <1>5, AfterResend
  <2>2. Place(n) - 1 \in 1..(Len(sent) + 1)
    BY <2>1, <1>0
  <2>3. n - Depth \in 1..Count
    BY <2>1, <2>2, <1>0, <1>2
  <2>4. Place(n - Depth) \in 1..Len(sent)
    BY <2>3, CountFacts
  <2>5. CASE n = Count + 1
    <3>1. Place(n) - 1 = Len(sent) + 1 /\ n - Depth = Count + 1 - Depth
      BY <2>5, <2>1, <1>0, <1>2
    <3> QED
      BY <3>1, <2>1, <2>4
  <2>6. CASE n # Count + 1
    <3>1. Place(n) - 1 \in 1..Len(sent) /\ n \in 1..Len(sent)
      BY <2>6, <2>1, <2>2, <1>0, <1>2
    <3> QED
      BY <3>1, <2>1, <2>4, <1>0, <1>3
  <2> QED
    BY <2>5, <2>6
<1>6. CASE UNCHANGED sent
  <2>1. \A k : Place(k)' = Place(k)
    BY <1>6, AfterOther, SentSteps
  <2> QED
    BY <2>1, <1>6, <1>3
<1> QED
  BY <1>4, <1>5, <1>6, SentSteps

LEMMA NonceNext ==
  TypeOK /\ PhaseInv /\ BufferInv /\ FecInv /\ NonceInv /\ [Next]_vars => NonceInv'
<1> SUFFICES ASSUME TypeOK, PhaseInv, BufferInv, FecInv, NonceInv, [Next]_vars,
                    chacha'
             PROVE  /\ nextNonce' = Len(sent')
                    /\ \A i \in 1..Len(sent') : sent'[i].nonce = i - 1
  BY DEF NonceInv
<1>1. chacha /\ Len(sent) \in Nat
  BY SentSteps, CountFacts
<1>2. CASE Send
  <2>1. /\ Len(sent') = Len(sent) + 1
        /\ \A i \in 1..Len(sent) : sent'[i] = sent[i]
        /\ sent'[Len(sent) + 1] = NewFrame
    BY <1>2, AfterSend
  <2>2. nextNonce' = nextNonce + 1 /\ NewFrame.nonce = nextNonce
    BY <1>1, <1>2 DEF Send, SendPacket, NewFrame, Nonce
  <2> QED
    BY <2>1, <2>2, <1>1 DEF NonceInv
<1>3. CASE Resend
  BY <1>1, <1>3 DEF Resend, FecInv, UseFec
<1>4. CASE UNCHANGED <<sent, nextNonce>>
  BY <1>1, <1>4 DEF NonceInv
<1> QED
  BY <1>2, <1>3, <1>4, SentSteps

(* Products of counts and Spf.                                             *)
LEMMA Products ==
  ASSUME NEW n \in Nat
  PROVE  /\ (n + 1) * Spf = n * Spf + Spf
         /\ n * Spf \in Nat
         /\ n # 0 => n * Spf = (n - 1) * Spf + Spf /\ (n - 1) * Spf \in Nat
BY SpfAssumption

LEMMA ClockNext ==
  TypeOK /\ PhaseInv /\ BufferInv /\ FecInv /\ ClockInv /\ [Next]_vars => ClockInv'
<1> SUFFICES ASSUME TypeOK, PhaseInv, BufferInv, FecInv, ClockInv, [Next]_vars,
                    Unwrapped'
             PROVE  /\ \A n \in 1..Count' : sent'[Place(n)'].rtp = latency' + (n - 1) * Spf
                    /\ Streaming' => nextRtp' = latency' + Count' * Spf
                    /\ syncPc' # "none" =>
                         rtpTime' = IF Count' = 0 THEN latency'
                                    ELSE latency' + (Count' - 1) * Spf
                    /\ sync'.position <= IF Count' = 0 THEN 0 ELSE (Count' - 1) * Spf
  BY DEF ClockInv
<1> USE DEF sessionVars, captureVars, streamVars, frameVars
<1>0. /\ Count \in Nat /\ Len(sent) \in Nat /\ Spf \in Nat \ {0}
      /\ Depth \in Nat \ {0} /\ RtpMod \in Nat \ {0} /\ latency \in Nat \ {0}
      /\ rtpTime \in Nat /\ nextRtp \in Nat
      /\ sync.position \in Nat
  BY CountFacts, SpfAssumption, DepthAssumption, ModAssumption DEF TypeOK, Syncs
<1>a. latency' = latency
  BY SentSteps
<1>1. CASE Send
  <2>1. /\ Count' = Count + 1
        /\ \A n : Place(n)' = Place(n)
        /\ Place(Count + 1) = Len(sent) + 1
        /\ sent'[Len(sent) + 1] = NewFrame
        /\ \A n \in 1..Count : sent'[Place(n)] = sent[Place(n)]
    BY <1>1, AfterSend
  <2>2. /\ rtpTime' = (IF nextRtp >= rtpTime THEN nextRtp ELSE rtpTime)
        /\ nextRtp' = (nextRtp + Spf) % RtpMod
        /\ UNCHANGED <<syncPc, sync>> /\ Streaming /\ syncPc # "none"
        /\ NewFrame.rtp = nextRtp
    BY <1>1 DEF Send, SendPacket, Advance, NewFrame, Streaming, PhaseInv
  <2>3. PICK p \in Nat : Count * Spf = p /\ (Count + 1) * Spf = p + Spf
    BY <1>0, Products
  <2>b. PICK q \in Nat : Count # 0 => (Count - 1) * Spf = q /\ p = q + Spf
    BY <1>0, <2>3, Products
  <2>c. Count = 0 => p = 0
    BY <2>3, <1>0
  <2>4. latency + p + Spf < RtpMod
    <3>1. latency + (p + Spf) < RtpMod
      BY <2>1, <2>3, <1>a DEF Unwrapped
    <3> QED
      BY <3>1, <1>0
  <2>5. Unwrapped
    BY <2>3, <2>4, <1>0 DEF Unwrapped
  <2>6. /\ \A n \in 1..Count : sent[Place(n)].rtp = latency + (n - 1) * Spf
        /\ nextRtp = latency + p
        /\ rtpTime = IF Count = 0 THEN latency ELSE latency + q
        /\ sync.position <= IF Count = 0 THEN 0 ELSE q
    BY <2>2, <2>3, <2>b, <2>5 DEF ClockInv
  <2>7. \A n \in 1..Count' : sent'[Place(n)'].rtp = latency + (n - 1) * Spf
    <3> TAKE n \in 1..Count'
    <3>1. CASE n = Count + 1
      <4>1. sent'[Place(n)'].rtp = nextRtp
        BY <3>1, <2>1, <2>2
      <4>2. n - 1 = Count
        BY <3>1, <1>0
      <4> QED
        BY <4>1, <4>2, <2>3, <2>6
    <3>2. CASE n \in 1..Count
      BY <3>2, <2>1, <2>6
    <3> QED
      BY <3>1, <3>2, <2>1, <1>0
  <2>8. nextRtp' = latency + p + Spf
    <3>1. latency + p + Spf \in Nat
      BY <1>0
    <3>2. (latency + p + Spf) % RtpMod = latency + p + Spf
      BY <3>1, <2>4, <1>0, Remainder
    <3>3. nextRtp + Spf = latency + p + Spf
      BY <2>6
    <3> QED
      BY <3>2, <3>3, <2>2
  <2>9. rtpTime' = latency + p
    <3>1. rtpTime <= latency + p
      <4>1. CASE Count = 0
        BY <4>1, <2>c, <2>6, <1>0
      <4>2. CASE Count # 0
        BY <4>2, <2>b, <2>6, <1>0
      <4> QED
        BY <4>1, <4>2
    <3> QED
      BY <3>1, <2>2, <2>6, <1>0
  <2>10. sync'.position <= p
    BY <2>2, <2>b, <2>c, <2>6, <1>0
  <2>11. Count' # 0 /\ Count' - 1 = Count /\ Count' * Spf = p + Spf
    BY <2>1, <2>3, <1>0
  <2>12. nextRtp' = latency + Count' * Spf
    BY <2>8, <2>11, <1>0
  <2> QED
    BY <2>1, <2>3, <2>7, <2>9, <2>10, <2>11, <2>12, <1>a, <1>0
<1>2. CASE Resend
  <2>1. /\ Count >= Depth /\ Count' = Count
        /\ \A n : Place(n)' = Place(n)
        /\ \A n \in 1..Count : sent'[Place(n)] = sent[Place(n)]
    BY <1>2, AfterResend
  <2>2. Unwrapped
    BY <2>1, <1>a DEF Unwrapped
  <2>3. /\ \A n \in 1..Count : sent[Place(n)].rtp = latency + (n - 1) * Spf
        /\ nextRtp = latency + Count * Spf
        /\ syncPc # "none" /\ Count # 0
        /\ rtpTime = latency + (Count - 1) * Spf
        /\ sync.position <= (Count - 1) * Spf
    BY <1>2, <2>1, <2>2, <1>0 DEF ClockInv, Resend, PhaseInv, Streaming
  <2>4. buf[idx].rtp <= rtpTime
    <3>1. PICK k \in 1..Count : k = Count + 1 - Depth
      BY <2>1, <1>0
    <3>2. /\ sent'[Len(sent) + 1] = sent[Place(k)]
          /\ sent'[Len(sent) + 1] = buf[idx]
      BY <1>2, <3>1, AfterResend, PacketTypes, AppendProperties
      DEF TypeOK, Resend, SendPacket
    <3>3. buf[idx].rtp = latency + (k - 1) * Spf
      BY <3>1, <3>2, <2>3
    <3>4. PICK d \in Nat : Count - 1 = (k - 1) + d
      BY <3>1, <1>0
    <3>5. /\ (Count - 1) * Spf = (k - 1) * Spf + d * Spf
          /\ (k - 1) * Spf \in Nat /\ d * Spf \in Nat
      BY <3>1, <3>4, <1>0
    <3> QED
      BY ONLY <3>3, <3>5, <2>3, <1>0
  <2>5. buf[idx].rtp \in Nat
    BY PacketTypes, ModAssumption DEF Packets
  <2>6. rtpTime' = rtpTime /\ UNCHANGED <<nextRtp, syncPc, sync>>
    BY <1>2, <2>4, <2>5, <1>0 DEF Resend, SendPacket, Advance
  <2> QED
    BY <2>1, <2>3, <2>6, <1>a
<1>3. CASE UNCHANGED sent
  <2>1. Count' = Count /\ \A n : Place(n)' = Place(n)
    BY <1>3, SentSteps, AfterOther
  <2>2. Unwrapped
    BY <2>1, <1>a DEF Unwrapped
  <2>3. /\ \A n \in 1..Count : sent[Place(n)].rtp = latency + (n - 1) * Spf
        /\ Streaming => nextRtp = latency + Count * Spf
        /\ syncPc # "none" =>
             rtpTime = IF Count = 0 THEN latency ELSE latency + (Count - 1) * Spf
        /\ sync.position <= IF Count = 0 THEN 0 ELSE (Count - 1) * Spf
    BY <2>2 DEF ClockInv
  <2>4. ~Send /\ ~Resend
    <3>1. Len(Append(sent, NewFrame)) # Len(sent) /\ Len(Append(sent, buf[idx])) # Len(sent)
      BY PacketTypes, AppendProperties, <1>0 DEF TypeOK
    <3> QED
      BY <3>1, <1>3 DEF Send, Resend, SendPacket
  <2>5. CASE StartData
    <3>1. Count = 0
      BY <2>5, CountFacts DEF StartData, PhaseInv, Early
    <3>2. /\ nextRtp' = latency /\ rtpTime' = latency /\ sync' = sync
      BY <2>5 DEF StartData
    <3>3. 0 * Spf = 0
      BY <1>0
    <3> QED
      BY <3>1, <3>2, <3>3, <2>1, <2>3, <1>a, <1>0
  <2>6. CASE SyncBurst
    <3>1. Count = 0
      BY <2>6, CountFacts DEF SyncBurst, PhaseInv, Early
    <3>2. sync'.position = 0 /\ syncPc' = "none" /\ pc' = "start"
      BY <2>6, <1>0 DEF SyncBurst, SyncPacket, Position, PhaseInv, Early
    <3> QED
      BY <3>1, <3>2, <2>1 DEF Streaming
  <2>7. CASE SyncSends
    <3>1. /\ sync'.position = (IF rtpTime >= latency THEN rtpTime - latency ELSE rtpTime)
          /\ UNCHANGED <<nextRtp, rtpTime, pc>> /\ syncPc # "none"
      BY <2>7 DEF SyncSends, SyncPacket, Position
    <3>2. Count # 0 => (Count - 1) * Spf \in Nat
      BY <1>0, Products
    <3>3. sync'.position <= IF Count = 0 THEN 0 ELSE (Count - 1) * Spf
      BY <3>1, <3>2, <2>3, <1>0
    <3> QED
      BY <3>1, <3>3, <2>1, <2>3, <1>3, <1>a DEF Streaming
  <2>8. CASE ~StartData /\ ~SyncBurst /\ ~SyncSends
    <3>1. /\ UNCHANGED <<rtpTime, nextRtp, sync>>
          /\ Streaming' => Streaming
          /\ syncPc' # "none" => syncPc # "none"
      BY <2>4, <2>8 DEF Next, Session, AudioThread, SyncThread, FirstFrame, Stop,
       NewSample, GateOpens, GateStops, DrainChunk, DrainEnds, Check, ReadChunk,
       ReadFrame, SendFails, SyncCheck, SyncWakes, vars, Streaming
    <3> QED
      BY <3>1, <2>1, <2>3, <1>3, <1>a
  <2> QED
    BY <2>5, <2>6, <2>7, <2>8
<1> QED
  BY <1>1, <1>2, <1>3, SentSteps

-----------------------------------------------------------------------------
LEMMA InvNext == IInv /\ [Next]_vars => IInv'
<1> SUFFICES ASSUME IInv, [Next]_vars
             PROVE  IInv'
  OBVIOUS
<1> USE DEF IInv
<1>1. TypeOK'
  BY TypeNext
<1>2. SampleInv' /\ PhaseInv'
  BY SampleNext, PhaseNext
<1>3. Chain' /\ NextInv' /\ FeedInv'
  BY ChainNext, NextNext, FeedNext
<1>4. FecInv' /\ BufferInv' /\ SentTwice'
  BY FecNext, BufferNext, TwiceNext
<1>5. NonceInv' /\ ClockInv'
  BY NonceNext, ClockNext
<1> QED
  BY <1>1, <1>2, <1>3, <1>4, <1>5

(* Every reachable state satisfies the invariant.                          *)
THEOREM Invariance == Spec => []IInv
BY InvInit, InvNext, PTL DEF Spec

(* The variables of the capture, the stream and the threads keep their     *)
(* types: RTP times and sequence numbers wrap, the buffer's index stays in *)
(* it.                                                                     *)
THEOREM TypeCorrect == Spec => []TypeOK
BY Invariance, PTL DEF IInv

LEMMA ChainIsTimeline == IInv => OneTimeline
<1> SUFFICES ASSUME IInv, NEW n \in 1..Len(sent), Sent(n)
             PROVE  GoodFrame(n)
  BY DEF OneTimeline, GoodFrame
<1>1. n \in 1..Count
  BY CountFacts DEF IInv
<1> QED
  BY <1>1 DEF IInv, Chain

(* What the receiver can put together is one stretch of the capture, from  *)
(* after the drain on, on one timeline.                                    *)
THEOREM StreamIsOneTimeline == Spec => []OneTimeline
BY Invariance, ChainIsTimeline, PTL

(* Without ChaCha every frame leaves the buffer as it was sent, for the    *)
(* frame Depth after it.                                                   *)
THEOREM FramesAreSentTwice == Spec => []SentTwice
BY Invariance, PTL DEF IInv

LEMMA NoncesDiffer == IInv => NonceForOneFrame
<1> SUFFICES ASSUME IInv, chacha, NEW i \in DOMAIN sent, NEW j \in DOMAIN sent,
                    sent[i].nonce = sent[j].nonce
             PROVE  i = j
  BY DEF NonceForOneFrame
<1>1. i \in 1..Len(sent) /\ j \in 1..Len(sent)
  BY DEF IInv, TypeOK
<1>2. sent[i].nonce = i - 1 /\ sent[j].nonce = j - 1
  BY <1>1 DEF IInv, NonceInv
<1>3. i - 1 = j - 1
  BY <1>2
<1>4. i \in Int /\ j \in Int
  BY <1>1
<1> QED
  BY <1>3, <1>4

(* No two packets of an encrypted session have the same nonce.             *)
THEOREM NoncesAreUsedOnce == Spec => []NonceForOneFrame
BY Invariance, NoncesDiffer, PTL

LEMMA SyncStep ==
  ASSUME IInv, [Next]_vars, sync' # sync, sync'.kind = "later", Unwrapped
  PROVE  /\ sync'.position + latency = sync'.head
         /\ sync'.head = IF Count = 0 THEN latency ELSE sent[Place(Count)].rtp
<1>1. SyncSends
  <2>1. SyncSends \/ SyncBurst \/ UNCHANGED sync
    BY DEF Next, Session, AudioThread, SyncThread, FirstFrame, Stop, NewSample,
       GateOpens, GateStops, StartData, DrainChunk, DrainEnds, Check, ReadChunk,
       ReadFrame, Resend, Send, SendFails, SyncCheck, SyncWakes, vars
  <2>2. SyncBurst => sync'.kind = "first"
    BY DEF SyncBurst, SyncPacket
  <2> QED
    BY <2>1, <2>2
<1>2. /\ syncPc = "send" /\ sync'.head = rtpTime
      /\ sync'.position = (IF rtpTime >= latency THEN rtpTime - latency ELSE rtpTime)
  BY <1>1 DEF SyncSends, SyncPacket, Position
<1>3. Count \in Nat /\ latency \in Nat /\ rtpTime \in Nat
  BY CountFacts, ModAssumption DEF IInv, TypeOK
<1>4. rtpTime = IF Count = 0 THEN latency ELSE latency + (Count - 1) * Spf
  BY <1>2 DEF IInv, ClockInv
<1>5. Count # 0 => /\ (Count - 1) * Spf \in Nat
                   /\ sent[Place(Count)].rtp = latency + (Count - 1) * Spf
  BY <1>3, Products DEF IInv, ClockInv
<1> QED
  BY <1>2, <1>3, <1>4, <1>5

(* What a sync packet says is true: its head is the newest frame's RTP     *)
(* time, and its position the latency behind it.                           *)
THEOREM SyncPacketsAreTrue == Spec => SyncsAreTrue
<1>1. IInv /\ [Next]_vars =>
        [ sync' # sync /\ sync'.kind = "later" /\ Unwrapped =>
            /\ sync'.position + latency = sync'.head
            /\ sync'.head = IF Count = 0 THEN latency ELSE sent[Place(Count)].rtp ]_vars
  BY SyncStep
<1> QED
  BY <1>1, Invariance, PTL DEF Spec, SyncsAreTrue

LEMMA ResendStep ==
  ASSUME IInv, [Next]_vars, latency >= (Depth - 1) * Spf, Unwrapped, sent' # sent
  PROVE  sent'[Len(sent')].rtp >= sync.position
<1> USE DEF IInv
<1>0. /\ Count \in Nat /\ Len(sent) \in Nat /\ Spf \in Nat \ {0}
      /\ Depth \in Nat \ {0} /\ latency \in Nat \ {0} /\ sync.position \in Nat
  BY CountFacts, SpfAssumption, DepthAssumption, ModAssumption DEF TypeOK, Syncs
<1>1. CASE Send
  <2>1. sent'[Len(sent')].rtp = nextRtp
    BY <1>1, AfterSend DEF NewFrame
  <2>2. nextRtp = latency + Count * Spf
    BY <1>1 DEF Send, ClockInv, Streaming
  <2>3. sync.position <= IF Count = 0 THEN 0 ELSE (Count - 1) * Spf
    BY DEF ClockInv
  <2>4. PICK p \in Nat : Count * Spf = p
    BY <1>0, Products
  <2>5. PICK q \in Nat : Count # 0 => (Count - 1) * Spf = q /\ p = q + Spf
    BY <1>0, <2>4, Products
  <2> QED
    BY <2>1, <2>2, <2>3, <2>4, <2>5, <1>0
<1>2. CASE Resend
  <2>1. Count >= Depth /\ sent'[Len(sent')] = sent[Place(Count + 1 - Depth)]
    BY <1>2, AfterResend
  <2>2. PICK k \in 1..Count : k = Count + 1 - Depth
    BY <2>1, <1>0
  <2>3. sent'[Len(sent')].rtp = latency + (k - 1) * Spf
    BY <2>1, <2>2 DEF ClockInv
  <2>4. sync.position <= (Count - 1) * Spf
    BY <2>1, <1>0 DEF ClockInv
  <2>5. PICK d \in Nat : d = Depth - 1
    BY <1>0
  <2>6. Count - 1 = (k - 1) + d
    BY <2>2, <2>5, <1>0
  <2>7. /\ (Count - 1) * Spf = (k - 1) * Spf + d * Spf
        /\ (k - 1) * Spf \in Nat /\ d * Spf \in Nat
    BY <2>2, <2>6, <1>0
  <2>8. latency >= d * Spf
    BY <2>5
  <2> QED
    BY <2>3, <2>4, <2>7, <2>8, <1>0
<1> QED
  BY <1>1, <1>2, SentSteps

(* A frame that is sent again has its time still to come, if the latency   *)
(* is that of the frames between.                                          *)
THEOREM ResendsAreInTime == Spec => ResendsComeInTime
<1>1. IInv /\ [Next]_vars =>
        [ latency >= (Depth - 1) * Spf /\ Unwrapped /\ sent' # sent =>
            sent'[Len(sent')].rtp >= sync.position ]_vars
  BY ResendStep
<1> QED
  BY <1>1, Invariance, PTL DEF Spec, ResendsComeInTime
-----------------------------------------------------------------------------
(***************************************************************************)
(* The frames. The bits that BitWriter has been given are where they were  *)
(* put, whatever is written after them. First powers of two, and what is   *)
(* left and lost by a shift.                                               *)
(***************************************************************************)

(* Induction over the natural numbers, as a fact about a set of them.      *)
LEMMA SetInduction ==
  ASSUME NEW S \in SUBSET Nat, 0 \in S, \A n \in S : n + 1 \in S
  PROVE  S = Nat
<1> DEFINE R == OpToRel(<, Nat)
           T == Nat \ S
<1>1. IsWellFoundedOn(R, Nat)
  BY NatLessThanWellFounded
<1>2. \A x, y \in Nat : x < y => <<x, y>> \in R
  BY DEF OpToRel
<1> SUFFICES ASSUME T # {} PROVE FALSE
  OBVIOUS
<1> HIDE DEF R
<1>3. PICK m \in T : \A n \in T : <<n, m>> \notin R
  BY <1>1, WFMin
<1>4. \A n \in T : ~(n < m)
  BY <1>2, <1>3
<1>5. m - 1 \in S
  BY <1>3, <1>4
<1> QED
  BY <1>3, <1>5

(* Pow2 is the power of two, as far as a u32 goes.                         *)
LEMMA Pow2Table ==
  ASSUME NEW n \in 0..30
  PROVE  Pow2(n) \in Nat \ {0} /\ Pow2(n + 1) = 2 * Pow2(n)
<1>1. CASE n \in 0..9
  BY <1>1 DEF Pow2
<1>2. CASE n \in 10..19
  BY <1>2 DEF Pow2
<1>3. CASE n \in 20..30
  BY <1>3 DEF Pow2
<1> QED
  BY <1>1, <1>2, <1>3

LEMMA Pow2Type == ASSUME NEW n \in 0..31 PROVE Pow2(n) \in Nat \ {0}
<1>1. CASE n \in 0..30
  BY <1>1, Pow2Table
<1>2. CASE n = 31
  BY <1>2 DEF Pow2
<1> QED
  BY <1>1, <1>2

LEMMA Pow2Small ==
  /\ Pow2(0) = 1 /\ Pow2(1) = 2 /\ Pow2(2) = 4 /\ Pow2(3) = 8 /\ Pow2(4) = 16
  /\ Pow2(5) = 32 /\ Pow2(6) = 64 /\ Pow2(7) = 128 /\ Pow2(8) = 256
BY DEF Pow2

LEMMA Times ==
  ASSUME NEW a \in Nat, NEW b \in Nat
  PROVE  a * b \in Nat /\ 2 * (a * b) = a * (2 * b)
OBVIOUS

(* A shift by a and b is one by a + b.                                     *)
LEMMA Pow2Add ==
  ASSUME NEW a \in 0..31, NEW b \in 0..31, a + b <= 31
  PROVE  Pow2(a + b) = Pow2(a) * Pow2(b)
<1> DEFINE Adds(d) == \A e \in 0..(31 - d) : Pow2(e + d) = Pow2(e) * Pow2(d)
           S == { d \in Nat : d <= 31 => Adds(d) }
<1>1. 0 \in S
  <2>1. Adds(0)
    BY Pow2Small, Pow2Type
  <2> QED
    BY <2>1
<1>2. ASSUME NEW d \in S
      PROVE  d + 1 \in S
  <2> SUFFICES ASSUME d + 1 <= 31, NEW e \in 0..(31 - (d + 1))
               PROVE  Pow2(e + (d + 1)) = Pow2(e) * Pow2(d + 1)
    OBVIOUS
  <2>1. Pow2(e + d) = Pow2(e) * Pow2(d)
    BY <1>2
  <2>0. d \in 0..30 /\ d \in 0..31 /\ e \in 0..31 /\ e + d \in 0..30
    OBVIOUS
  <2>2. Pow2(e + d + 1) = 2 * Pow2(e + d) /\ Pow2(d + 1) = 2 * Pow2(d)
    BY <2>0, Pow2Table
  <2>3. Pow2(e) \in Nat /\ Pow2(d) \in Nat
    BY <2>0, Pow2Type
  <2>4. 2 * (Pow2(e) * Pow2(d)) = Pow2(e) * (2 * Pow2(d))
    BY <2>3, Times
  <2>5. e + (d + 1) = e + d + 1
    OBVIOUS
  <2> QED
    BY <2>1, <2>2, <2>4, <2>5
<1>3. b \in S
  <2> HIDE DEF S
  <2>1. S \in SUBSET Nat
    BY DEF S
  <2> QED
    BY <1>1, <1>2, <2>1, SetInduction
<1> QED
  BY <1>3

(* The quotient is what leaves a remainder.                                *)
(* A number is divided as it is put together, and in one way.              *)
LEMMA QuotientIs ==
  ASSUME NEW n \in Nat, NEW P \in Nat \ {0}, NEW q \in Nat, NEW r \in 0..(P - 1),
         n = P * q + r
  PROVE  n \div P = q /\ n % P = r
<1>1. /\ n \div P \in Nat /\ n % P \in 0..(P - 1)
      /\ n = P * (n \div P) + (n % P)
  BY SMT
<1> DEFINE u == n \div P
           v == n % P
<1> HIDE DEF u, v
<1>2. u \in Nat /\ v \in 0..(P - 1) /\ P * u + v = P * q + r
  BY <1>1 DEF u, v
<1>3. ~(u > q)
  <2> SUFFICES ASSUME u > q PROVE FALSE
    OBVIOUS
  <2>1. PICK d \in Nat : u = q + 1 + d
    <3>1. u = q + 1 + (u - q - 1) /\ u - q - 1 \in Nat
      BY <1>2
    <3> QED
      BY <3>1
  <2>2. P * u = P * q + P + P * d /\ P * d \in Nat /\ P * q \in Nat
    BY <2>1
  <2> QED
    BY <1>2, <2>2
<1>4. ~(u < q)
  <2> SUFFICES ASSUME u < q PROVE FALSE
    OBVIOUS
  <2>1. PICK d \in Nat : q = u + 1 + d
    <3>1. q = u + 1 + (q - u - 1) /\ q - u - 1 \in Nat
      BY <1>2
    <3> QED
      BY <3>1
  <2>2. P * q = P * u + P + P * d /\ P * d \in Nat /\ P * u \in Nat
    BY <2>1, <1>2
  <2> QED
    BY <1>2, <2>2
<1>5. u = q
  BY <1>2, <1>3, <1>4
<1>6. P * q \in Nat
  OBVIOUS
<1> QED
  BY <1>2, <1>5, <1>6 DEF u, v

LEMMA Division ==
  ASSUME NEW n \in Nat, NEW P \in Nat \ {0}
  PROVE  /\ n \div P \in Nat /\ n % P \in 0..(P - 1)
         /\ n = P * (n \div P) + (n % P)
BY SMT

(* Bits that are shifted by Q and then by P are shifted by both.           *)
LEMMA DivDiv ==
  ASSUME NEW n \in Nat, NEW P \in Nat \ {0}, NEW Q \in Nat \ {0}
  PROVE  (n \div P) \div Q = n \div (P * Q)
<1> DEFINE u == n \div P
           r == n % P
           q == u \div Q
           t == u % Q
<1>1. u \in Nat /\ r \in 0..(P - 1) /\ n = P * u + r
  BY Division
<1>2. q \in Nat /\ t \in 0..(Q - 1) /\ u = Q * q + t
  BY <1>1, Division
<1> HIDE DEF u, r, q, t
<1>3. n = (P * Q) * q + (P * t + r)
  <2>1. P * u = P * (Q * q) + P * t /\ P * (Q * q) = (P * Q) * q
    BY <1>2
  <2> QED
    BY <1>1, <1>2, <2>1
<1>4. P * t + r \in 0..(P * Q - 1)
  <2>1. PICK d \in Nat : Q = t + 1 + d
    <3>1. Q = t + 1 + (Q - t - 1) /\ Q - t - 1 \in Nat
      BY <1>2
    <3> QED
      BY <3>1
  <2>2. P * Q = P * t + P + P * d /\ P * d \in Nat /\ P * t \in Nat
    BY <2>1, <1>2
  <2> QED
    BY <1>1, <2>2
<1>5. P * Q \in Nat \ {0}
  OBVIOUS
<1>6. n \div (P * Q) = q
  BY <1>2, <1>3, <1>4, <1>5, QuotientIs
<1> QED
  BY <1>6 DEF u, q

(* What is below the shift aside, a multiple is shifted as it is.          *)
(* What is a multiple of Q goes through the division by Q.                 *)
LEMMA DivSum ==
  ASSUME NEW t \in Nat, NEW r \in Nat, NEW Q \in Nat \ {0}
  PROVE  (Q * t + r) \div Q = t + (r \div Q)
<1>1. r \div Q \in Nat /\ r % Q \in 0..(Q - 1) /\ r = Q * (r \div Q) + (r % Q)
  BY Division
<1>2. Q * t + r = Q * (t + (r \div Q)) + (r % Q)
  <2>1. Q * (t + (r \div Q)) = Q * t + Q * (r \div Q)
    BY <1>1
  <2>2. Q * t \in Nat /\ Q * (r \div Q) \in Nat
    BY <1>1
  <2> QED
    BY <1>1, <2>1, <2>2
<1>3. Q * t + r \in Nat /\ t + (r \div Q) \in Nat
  BY <1>1
<1> QED
  BY <1>1, <1>2, <1>3, QuotientIs

(* The low s bits of a number are its bits below s.                        *)
(* The low bits of a number are its bits.                                  *)
LEMMA LowBits ==
  ASSUME NEW n \in Nat, NEW s \in 0..31, NEW e \in 0..(s - 1)
  PROVE  ((n % Pow2(s)) \div Pow2(e)) % 2 = (n \div Pow2(e)) % 2
<1> DEFINE P == Pow2(s)
           Q == Pow2(e)
           K == Pow2(s - 1 - e)
           q == n \div P
           r == n % P
<1>1. P \in Nat \ {0} /\ Q \in Nat \ {0} /\ K \in Nat \ {0}
  BY Pow2Type
<1>2. P = Q * (2 * K)
  <2>1. Pow2(e + (s - e)) = Pow2(e) * Pow2(s - e)
    BY Pow2Add
  <2>2. Pow2((s - 1 - e) + 1) = 2 * K
    BY Pow2Table
  <2>3. e + (s - e) = s /\ (s - 1 - e) + 1 = s - e
    OBVIOUS
  <2> QED
    BY <2>1, <2>2, <2>3
<1> HIDE DEF P, Q, K
<1>3. q \in Nat /\ r \in Nat /\ n = P * q + r
  <2>1. q \in Nat /\ r \in 0..(P - 1) /\ n = P * q + r
    BY <1>1, Division
  <2> QED
    BY <1>1, <2>1
<1> HIDE DEF q, r
<1>4. n = Q * (2 * (K * q)) + r
  <2>1. (Q * (2 * K)) * q = Q * (2 * (K * q))
    BY <1>1, <1>3
  <2> QED
    BY <1>2, <1>3, <2>1
<1>5. K * q \in Nat
  BY <1>1, <1>3
<1>6. n \div Q = 2 * (K * q) + (r \div Q)
  <2> DEFINE t == 2 * (K * q)
  <2>1. t \in Nat /\ n = Q * t + r
    BY <1>4, <1>5
  <2> HIDE DEF t
  <2>2. (Q * t + r) \div Q = t + (r \div Q)
    BY <1>1, <1>3, <2>1, DivSum, Zenon
  <2> QED
    BY <2>1, <2>2 DEF t
<1>7. r \div Q \in Nat
  BY <1>1, <1>3, Division
<1>8. \A x, y \in Nat : (2 * x + y) % 2 = y % 2
  OBVIOUS
<1>9. (n \div Q) % 2 = (r \div Q) % 2
  BY <1>5, <1>6, <1>7, <1>8
<1> QED
  BY <1>9 DEF P, Q, r

(* Bit i of a byte, from the highest.                                      *)
BitOf(byte, i) == (byte \div Pow2(7 - i)) % 2

-----------------------------------------------------------------------------
(***************************************************************************)
(* The writer. Pos(w) is how many bits it has been given, and BitAt(w, k)  *)
(* is the one of them at k.                                                *)
(***************************************************************************)

Pos(w) == 8 * Len(w.buf) + w.bitPos

BitAt(w, k) ==
  BitOf(IF k \div 8 < Len(w.buf) THEN w.buf[(k \div 8) + 1] ELSE w.bitBuf, k % 8)

(* What is not written of the byte that is being filled is zero.           *)
WellFormed(w) ==
  /\ w \in [buf : Seq(0..255), bitBuf : 0..255, bitPos : 0..7]
  /\ w.bitBuf % Pow2(8 - w.bitPos) = 0

(* What is added to a byte of which the last bits are free goes there.     *)
LEMMA ByteFacts ==
  ASSUME NEW space \in 1..8, NEW b \in 0..255, b % Pow2(space) = 0,
         NEW x \in 0..(Pow2(space) - 1)
  PROVE  /\ b + x \in 0..255
         /\ \A i \in 0..(7 - space) : BitOf(b + x, i) = BitOf(b, i)
         /\ \A i \in (8 - space)..7 : BitOf(b + x, i) = (x \div Pow2(7 - i)) % 2
<1> DEFINE P == Pow2(space)
           K == Pow2(8 - space)
           c == b \div P
           y == b + x
<1>1. P \in Nat \ {0} /\ K \in Nat \ {0} /\ P * K = 256
  <2>1. Pow2(space + (8 - space)) = P * K
    BY Pow2Add
  <2>2. space + (8 - space) = 8
    OBVIOUS
  <2> QED
    BY <2>1, <2>2, Pow2Type, Pow2Small
<1>2. c \in Nat /\ b = P * c + 0 /\ x \in Nat /\ b \in Nat /\ x \in 0..(P - 1)
  <2>1. b \in Nat /\ x \in 0..(P - 1) /\ b % P = 0 /\ x \in Nat
    BY <1>1 DEF P
  <2> HIDE DEF P
  <2>2. b \div P \in Nat /\ b = P * (b \div P) + (b % P)
    BY <1>1, <2>1, Division
  <2> QED
    BY <2>1, <2>2 DEF c
<1> HIDE DEF P, K, c
<1>3. P * c \in Nat /\ y = P * c + x /\ y \in Nat
  BY <1>1, <1>2 DEF y
<1> HIDE DEF y
<1>4. y \div P = c /\ y % P = x /\ b \div P = c
  <2>1. y \div P = c /\ y % P = x
    <3>1. y \in Nat /\ P \in Nat \ {0} /\ c \in Nat /\ x \in 0..(P - 1) /\ y = P * c + x
      BY <1>1, <1>2, <1>3
    <3> QED
      BY ONLY <3>1, QuotientIs, Zenon
  <2>2. 0 \in 0..(P - 1)
    BY <1>1
  <2>3. b \div P = c
    BY <1>1, <1>2, <2>2, QuotientIs
  <2> QED
    BY <2>1, <2>3
<1>5. y <= 255
  <2>1. c + 1 <= K
    <3>1. CASE c >= K
      <4>1. P * c >= P * K
        BY <1>1, <1>2, <3>1
      <4> QED
        BY <1>1, <1>2, <4>1
    <3> QED
      BY <1>1, <1>2, <3>1
  <2>2. PICK d \in Nat : K = c + 1 + d
    <3>1. K = c + 1 + (K - c - 1) /\ K - c - 1 \in Nat
      BY <1>1, <1>2, <2>1
    <3> QED
      BY <3>1
  <2>3. P * K = P * c + P + P * d /\ P * d \in Nat
    BY <1>1, <1>2, <2>2
  <2> QED
    BY <1>1, <1>2, <1>3, <2>3
<1>6. ASSUME NEW i \in 0..(7 - space)
      PROVE  BitOf(y, i) = BitOf(b, i)
  <2> DEFINE Q == Pow2(7 - i - space)
  <2>1. 7 - i - space \in 0..31
    OBVIOUS
  <2>2. Q \in Nat \ {0}
    BY <2>1, Pow2Type
  <2>3. Pow2(space + (7 - i - space)) = P * Q
    BY <2>1, Pow2Add DEF P
  <2>4. space + (7 - i - space) = 7 - i
    OBVIOUS
  <2> HIDE DEF Q
  <2>5. y \div (P * Q) = b \div (P * Q)
    <3>1. (y \div P) \div Q = y \div (P * Q)
      BY <1>1, <1>3, <2>2, DivDiv
    <3>2. (b \div P) \div Q = b \div (P * Q)
      BY <1>1, <1>2, <2>2, DivDiv
    <3> QED
      BY <1>4, <3>1, <3>2
  <2> QED
    BY <2>3, <2>4, <2>5 DEF BitOf
<1>7. ASSUME NEW i \in (8 - space)..7
      PROVE  BitOf(y, i) = (x \div Pow2(7 - i)) % 2
  <2>1. 7 - i \in 0..(space - 1) /\ space \in 0..31
    OBVIOUS
  <2>2. ((y % P) \div Pow2(7 - i)) % 2 = (y \div Pow2(7 - i)) % 2
    BY <1>3, <2>1, LowBits DEF P
  <2> QED
    BY <1>4, <2>2 DEF BitOf
<1> QED
  BY <1>3, <1>5, <1>6, <1>7 DEF y

(* What does not fill the byte leaves the rest of it free.                 *)
LEMMA ShiftFacts ==
  ASSUME NEW space \in 1..8, NEW n \in 1..space, NEW b \in Nat, b % Pow2(space) = 0,
         NEW m \in 0..(Pow2(n) - 1)
  PROVE  /\ m * Pow2(space - n) \in 0..(Pow2(space) - 1)
         /\ (b + m * Pow2(space - n)) % Pow2(space - n) = 0
<1> DEFINE P == Pow2(space - n)
           N == Pow2(n)
           x == m * P
<1>1. P \in Nat \ {0} /\ N \in Nat \ {0}
  BY Pow2Type
<1>2. Pow2(space) = P * N
  <2>1. Pow2((space - n) + n) = P * N
    BY Pow2Add
  <2>2. (space - n) + n = space
    OBVIOUS
  <2> QED
    BY <2>1, <2>2
<1> HIDE DEF P, N
<1>4. x \in 0..(P * N - 1)
  <2>1. PICK d \in Nat : N = m + 1 + d
    <3>1. N = m + 1 + (N - m - 1) /\ N - m - 1 \in Nat
      BY <1>1 DEF N
    <3> QED
      BY <3>1
  <2>2. m \in Nat
    BY <1>1 DEF N
  <2>3. P * N = m * P + P + P * d /\ P * d \in Nat /\ m * P \in Nat
    BY <1>1, <2>1, <2>2
  <2> QED
    BY <1>1, <2>3
<1>5. (b + x) % P = 0
  <2>1. b \div (P * N) \in Nat /\ b = (P * N) * (b \div (P * N)) + 0
    <3>1. P * N \in Nat \ {0}
      BY <1>1
    <3> QED
      BY <1>2, <3>1, Division
  <2> DEFINE c == b \div (P * N)
  <2> HIDE DEF c
  <2>2. (P * N) * c = P * (N * c) /\ N * c \in Nat /\ m \in Nat
    BY <1>1, <2>1 DEF c, N
  <2>3. b + x = P * (N * c + m) + 0 /\ N * c + m \in Nat
    <3>1. P * (N * c + m) = P * (N * c) + m * P
      BY <1>1, <2>2
    <3>2. b = P * (N * c)
      <4>1. b = (P * N) * c + 0
        BY <2>1 DEF c
      <4> QED
        BY <1>1, <2>2, <4>1
    <3> QED
      BY <1>1, <2>2, <3>1, <3>2
  <2>4. b + x \in Nat
    BY <1>1, <2>2
  <2> HIDE DEF x
  <2> QED
    BY <1>1, <2>3, <2>4, QuotientIs
<1> QED
  BY <1>2, <1>4, <1>5 DEF P

(* And keeps the bits of it.                                               *)
LEMMA ShiftBits ==
  ASSUME NEW space \in 1..8, NEW n \in 1..space, NEW m \in Nat, NEW j \in 1..n
  PROVE  (m * Pow2(space - n)) \div Pow2(space - j) = m \div Pow2(n - j)
<1> DEFINE P == Pow2(space - n)
           Q == Pow2(n - j)
           x == m * P
<1>1. P \in Nat \ {0} /\ Q \in Nat \ {0}
  BY Pow2Type
<1>2. Pow2(space - j) = P * Q
  <2>1. Pow2((space - n) + (n - j)) = P * Q
    BY Pow2Add
  <2>2. (space - n) + (n - j) = space - j
    OBVIOUS
  <2> QED
    BY <2>1, <2>2
<1> HIDE DEF P, Q
<1>3. x \in Nat /\ x = P * m + 0 /\ 0 \in 0..(P - 1)
  BY <1>1
<1> HIDE DEF x
<1>4. x \div P = m
  BY <1>1, <1>3, QuotientIs
<1>5. (x \div P) \div Q = x \div (P * Q)
  BY <1>1, <1>3, DivDiv
<1> QED
  BY <1>2, <1>4, <1>5 DEF x, P, Q

(* Bit i of byte L is bit 8 * L + i.                                       *)
LEMMA ByteIndex ==
  ASSUME NEW L \in Nat
  PROVE  /\ \A i \in 0..7 : (8 * L + i) \div 8 = L /\ (8 * L + i) % 8 = i
         /\ \A k \in 0..(8 * L - 1) : k \div 8 \in 0..(L - 1) /\ k % 8 \in 0..7
<1>1. ASSUME NEW i \in 0..7
      PROVE  (8 * L + i) \div 8 = L /\ (8 * L + i) % 8 = i
  <2>1. 8 * L + i \in Nat /\ i \in 0..(8 - 1) /\ 8 \in Nat \ {0}
    OBVIOUS
  <2> QED
    BY <2>1, QuotientIs
<1>2. ASSUME NEW k \in 0..(8 * L - 1)
      PROVE  k \div 8 \in 0..(L - 1) /\ k % 8 \in 0..7
  OBVIOUS
<1> QED
  BY <1>1, <1>2

(* Where a bit is.                                                         *)
LEMMA PlaceOfBit ==
  ASSUME NEW w, WellFormed(w)
  PROVE  /\ Pos(w) \in Nat /\ Len(w.buf) \in Nat
         /\ \A i \in 0..7 : BitAt(w, 8 * Len(w.buf) + i) = BitOf(w.bitBuf, i)
         /\ \A k \in 0..(8 * Len(w.buf) - 1) :
              BitAt(w, k) = BitOf(w.buf[(k \div 8) + 1], k % 8)
<1>1. Len(w.buf) \in Nat
  BY DEF WellFormed
<1>2. ASSUME NEW i \in 0..7
      PROVE  BitAt(w, 8 * Len(w.buf) + i) = BitOf(w.bitBuf, i)
  <2> DEFINE k == 8 * Len(w.buf) + i
  <2>1. k \div 8 = Len(w.buf) /\ k % 8 = i
    BY <1>1, ByteIndex
  <2> HIDE DEF k
  <2>2. ~(k \div 8 < Len(w.buf))
    BY <1>1, <2>1
  <2>3. BitAt(w, k) = BitOf(w.bitBuf, i)
    BY <2>1, <2>2 DEF BitAt
  <2> QED
    BY <2>3 DEF k
<1>3. ASSUME NEW k \in 0..(8 * Len(w.buf) - 1)
      PROVE  BitAt(w, k) = BitOf(w.buf[(k \div 8) + 1], k % 8)
  <2>1. k \div 8 < Len(w.buf)
    BY <1>1
  <2> QED
    BY <2>1 DEF BitAt
<1>4. Pos(w) \in Nat
  BY <1>1 DEF Pos, WellFormed
<1> QED
  BY <1>1, <1>2, <1>3, <1>4

(* A writer that has put byte in the place of the one that is being filled.*)
LEMMA NextByteFacts ==
  ASSUME NEW w, WellFormed(w), NEW byte \in 0..255
  PROVE  LET v == NextByte(w, byte)
         IN  /\ WellFormed(v) /\ Pos(v) = 8 * Len(w.buf) + 8
             /\ \A k \in 0..(8 * Len(w.buf) - 1) : BitAt(v, k) = BitAt(w, k)
             /\ \A i \in 0..7 : BitAt(v, 8 * Len(w.buf) + i) = BitOf(byte, i)
<1> DEFINE v == NextByte(w, byte)
           L == Len(w.buf)
           B == Append(w.buf, byte)
<1>2. /\ v.buf = B /\ v.bitBuf = 0 /\ v.bitPos = 0
      /\ v = [buf |-> B, bitBuf |-> 0, bitPos |-> 0]
  BY DEF NextByte
<1>1. w.buf \in Seq(0..255) /\ L \in Nat
  BY DEF WellFormed
<1>3. /\ v.buf \in Seq(0..255) /\ Len(v.buf) = L + 1
      /\ \A q \in 1..L : v.buf[q] = w.buf[q]
      /\ v.buf[L + 1] = byte
  BY <1>1, <1>2, AppendProperties
<1> HIDE DEF v, B
<1>4. WellFormed(v)
  <2>1. v \in [buf : Seq(0..255), bitBuf : 0..255, bitPos : 0..7]
    BY <1>2, <1>3
  <2>2. 8 - v.bitPos = 8 /\ v.bitBuf % Pow2(8) = 0
    BY <1>2, Pow2Small
  <2> QED
    BY <2>1, <2>2 DEF WellFormed
<1>5. Pos(v) = 8 * L + 8
  <2>1. Pos(v) = 8 * (L + 1) + 0
    BY <1>2, <1>3 DEF Pos
  <2> QED
    BY <1>1, <2>1
<1>6. ASSUME NEW k \in 0..(8 * L - 1)
      PROVE  BitAt(v, k) = BitAt(w, k)
  <2>1. (k \div 8) + 1 \in 1..L /\ k \div 8 < L
    BY <1>1
  <2> QED
    BY <1>1, <1>3, <2>1 DEF BitAt
<1>7. ASSUME NEW i \in 0..7
      PROVE  BitAt(v, 8 * L + i) = BitOf(byte, i)
  <2> DEFINE k == 8 * L + i
  <2>1. k \div 8 = L /\ k % 8 = i
    BY <1>1, ByteIndex
  <2> HIDE DEF k
  <2>2. L < L + 1
    BY <1>1
  <2>3. BitAt(v, k) = BitOf(v.buf[L + 1], i)
    BY <1>3, <2>1, <2>2 DEF BitAt
  <2> QED
    BY <1>3, <2>3 DEF k
<1> QED
  BY <1>4, <1>5, <1>6, <1>7 DEF v

(* A writer that has or'ed into the byte that is being filled, and not     *)
(* filled it.                                                              *)
LEMMA FillFacts ==
  ASSUME NEW w, WellFormed(w), NEW byte \in 0..255, NEW pos \in 0..7,
         byte % Pow2(8 - pos) = 0
  PROVE  LET v == [buf |-> w.buf, bitBuf |-> byte, bitPos |-> pos]
         IN  /\ WellFormed(v) /\ Pos(v) = 8 * Len(w.buf) + pos
             /\ \A k \in 0..(8 * Len(w.buf) - 1) : BitAt(v, k) = BitAt(w, k)
             /\ \A i \in 0..7 : BitAt(v, 8 * Len(w.buf) + i) = BitOf(byte, i)
<1> DEFINE v == [buf |-> w.buf, bitBuf |-> byte, bitPos |-> pos]
<1>1. v = [buf |-> w.buf, bitBuf |-> byte, bitPos |-> pos]
  OBVIOUS
<1>0. w.buf \in Seq(0..255)
  BY DEF WellFormed
<1> HIDE DEF v
<1>2. v.buf = w.buf /\ v.bitBuf = byte /\ v.bitPos = pos
  BY <1>1
<1>3. WellFormed(v)
  <2>1. v \in [buf : Seq(0..255), bitBuf : 0..255, bitPos : 0..7]
    BY <1>0, <1>1
  <2> QED
    BY <1>2, <2>1 DEF WellFormed
<1>4. Pos(v) = 8 * Len(w.buf) + pos
  BY <1>2 DEF Pos
<1>5. \A i \in 0..7 : BitAt(v, 8 * Len(w.buf) + i) = BitOf(byte, i)
  BY <1>2, <1>3, PlaceOfBit
<1>6. \A k \in 0..(8 * Len(w.buf) - 1) : BitAt(v, k) = BitAt(w, k)
  BY <1>2, <1>3, PlaceOfBit
<1> QED
  BY <1>3, <1>4, <1>5, <1>6 DEF v

(* What is or'ed into the byte that is being filled comes after the bits   *)
(* that have been written.                                                 *)
ByteIs(v, w, byte) ==
  /\ \A k \in 0..(8 * Len(w.buf) - 1) : BitAt(v, k) = BitAt(w, k)
  /\ \A i \in 0..7 : BitAt(v, 8 * Len(w.buf) + i) = BitOf(byte, i)

Adds(v, w, x, n) ==
  /\ Pos(v) = Pos(w) + n
  /\ \A k \in 0..(Pos(w) - 1) : BitAt(v, k) = BitAt(w, k)
  /\ \A j \in 1..n :
       BitAt(v, Pos(w) + j - 1) = (x \div Pow2(8 - w.bitPos - j)) % 2

LEMMA ByteAppended ==
  ASSUME NEW w, WellFormed(w), NEW x \in 0..(Pow2(8 - w.bitPos) - 1),
         NEW n \in 1..(8 - w.bitPos),
         NEW v, Pos(v) = 8 * Len(w.buf) + w.bitPos + n, ByteIs(v, w, w.bitBuf + x)
  PROVE  Adds(v, w, x, n)
<1> USE DEF ByteIs, Adds
<1> DEFINE L == Len(w.buf)
           p == w.bitPos
           b == w.bitBuf
           space == 8 - p
<1>1. L \in Nat /\ p \in 0..7 /\ b \in 0..255 /\ b % Pow2(8 - p) = 0
  <2>1. w \in [buf : Seq(0..255), bitBuf : 0..255, bitPos : 0..7]
    BY DEF WellFormed
  <2> QED
    BY <2>1 DEF WellFormed
<1>2. Pos(w) = 8 * L + p
  BY DEF Pos
<1>3. /\ \A i \in 0..7 : BitAt(w, 8 * L + i) = BitOf(b, i)
  BY PlaceOfBit
<1> HIDE DEF L, p, b
<1>4. space \in 1..8 /\ 8 - space = p /\ 7 - space = p - 1
  BY <1>1
<1>5. x \in 0..(Pow2(space) - 1)
  BY DEF p
<1>6. /\ \A i \in 0..(7 - space) : BitOf(b + x, i) = BitOf(b, i)
      /\ \A i \in (8 - space)..7 : BitOf(b + x, i) = (x \div Pow2(7 - i)) % 2
  BY <1>1, <1>4, <1>5, ByteFacts
<1>7. \A i \in 0..7 : BitAt(v, 8 * L + i) = BitOf(b + x, i)
  BY DEF L, b
<1>8. ASSUME NEW k \in 0..(Pos(w) - 1)
      PROVE  BitAt(v, k) = BitAt(w, k)
  <2>1. CASE k < 8 * L
    <3>1. k \in 0..(8 * L - 1)
      BY <1>1, <1>2, <2>1
    <3> QED
      BY <3>1 DEF L
  <2>2. CASE k >= 8 * L
    <3>1. PICK i \in 0..(p - 1) : k = 8 * L + i
      <4>1. k - 8 * L \in 0..(p - 1) /\ k = 8 * L + (k - 8 * L)
        BY <1>1, <1>2, <2>2
      <4> QED
        BY <4>1
    <3>2. i \in 0..7 /\ i \in 0..(7 - space)
      BY <1>1, <1>4
    <3> QED
      BY <1>3, <1>6, <1>7, <3>1, <3>2
  <2> QED
    BY <1>1, <1>2, <2>1, <2>2
<1>9. ASSUME NEW j \in 1..n
      PROVE  BitAt(v, Pos(w) + j - 1) = (x \div Pow2(8 - p - j)) % 2
  <2> DEFINE i == p + j - 1
  <2>0. n \in 1..(8 - p)
    BY DEF p
  <2>1. i \in 0..7 /\ i \in (8 - space)..7 /\ 7 - i = 8 - p - j
    BY <1>1, <1>4, <2>0
  <2>2. Pos(w) + j - 1 = 8 * L + i
    BY <1>1, <1>2
  <2> HIDE DEF i
  <2> QED
    BY <1>6, <1>7, <2>1, <2>2
<1>10. Pos(v) = Pos(w) + n
  BY <1>1, <1>2 DEF L, p
<1> QED
  BY <1>8, <1>9, <1>10 DEF p

(* A pass of the loop of write is between a writer and what there is to    *)
(* write.                                                                  *)
InPass(s) == WellFormed(s.writer) /\ s.val \in Nat /\ s.nbits \in 0..32

(* From s to t the highest bits of s.val have been written, and the rest   *)
(* is still to be written.                                                 *)
Progress(s, t) ==
  /\ InPass(t)
  /\ t.nbits <= s.nbits
  /\ Pos(t.writer) = Pos(s.writer) + (s.nbits - t.nbits)
  /\ \A k \in 0..(Pos(s.writer) - 1) : BitAt(t.writer, k) = BitAt(s.writer, k)
  /\ \A j \in 1..(s.nbits - t.nbits) :
       BitAt(t.writer, Pos(s.writer) + j - 1) = (s.val \div Pow2(s.nbits - j)) % 2
  /\ \A e \in 0..(t.nbits - 1) :
       (t.val \div Pow2(e)) % 2 = (s.val \div Pow2(e)) % 2

LEMMA Distances ==
  ASSUME NEW S \in Int, NEW a \in Int, NEW b \in Int, NEW c \in Int, NEW j \in Int
  PROVE  /\ (S + (a - b)) + (b - c) = S + (a - c)
         /\ S + j - 1 = (S + (a - b)) + (j - (a - b)) - 1
         /\ b - (j - (a - b)) = a - j
OBVIOUS

LEMMA Later ==
  ASSUME NEW a \in 0..32, NEW b \in 0..32, NEW c \in 0..32, c <= b, b <= a,
         NEW j \in 1..(a - c), j > a - b
  PROVE  j - (a - b) \in 1..(b - c) /\ a - j \in 0..(b - 1)
OBVIOUS

(* What two passes write is what is to be written of the first's value.    *)
LEMMA ProgressTransitive ==
  ASSUME NEW s, InPass(s), NEW t, Progress(s, t), NEW u, Progress(t, u)
  PROVE  Progress(s, u)
<1> DEFINE S == Pos(s.writer)
           T == Pos(t.writer)
           d == s.nbits - t.nbits
<1>1. /\ S \in Nat /\ s.nbits \in 0..32 /\ t.nbits \in 0..32 /\ u.nbits \in 0..32
      /\ t.nbits <= s.nbits /\ u.nbits <= t.nbits /\ d \in 0..32 /\ T = S + d
  <2>1. WellFormed(s.writer) /\ s.nbits \in 0..32
    BY DEF InPass
  <2>2. t.nbits \in 0..32 /\ t.nbits <= s.nbits /\ T = S + (s.nbits - t.nbits)
    BY DEF Progress, InPass
  <2>3. u.nbits \in 0..32 /\ u.nbits <= t.nbits
    BY DEF Progress, InPass
  <2>4. S \in Nat
    BY <2>1, PlaceOfBit
  <2> HIDE DEF S, T
  <2> QED
    BY <2>1, <2>2, <2>3, <2>4
<1>2. InPass(u)
  BY DEF Progress
<1>3. Pos(u.writer) = S + (s.nbits - u.nbits)
  <2>1. Pos(u.writer) = T + (t.nbits - u.nbits)
    BY DEF Progress
  <2>2. T = S + (s.nbits - t.nbits)
    BY <1>1
  <2>3. S \in Int /\ s.nbits \in Int /\ t.nbits \in Int /\ u.nbits \in Int
    BY <1>1
  <2> HIDE DEF S, T
  <2>4. (S + (s.nbits - t.nbits)) + (t.nbits - u.nbits) = S + (s.nbits - u.nbits)
    BY <2>3, Distances
  <2> QED
    BY <2>1, <2>2, <2>4
<1>4. ASSUME NEW k \in 0..(S - 1)
      PROVE  BitAt(u.writer, k) = BitAt(s.writer, k)
  <2>1. k \in 0..(T - 1)
    BY <1>1
  <2>2. BitAt(u.writer, k) = BitAt(t.writer, k)
    BY <2>1 DEF Progress
  <2>3. BitAt(t.writer, k) = BitAt(s.writer, k)
    BY DEF Progress
  <2> QED
    BY <2>2, <2>3
<1>5. ASSUME NEW j \in 1..(s.nbits - u.nbits)
      PROVE  BitAt(u.writer, S + j - 1) = (s.val \div Pow2(s.nbits - j)) % 2
  <2>1. CASE j <= d
    <3>1. j \in 1..d /\ S + j - 1 \in 0..(T - 1)
      BY <1>1, <2>1
    <3>2. BitAt(u.writer, S + j - 1) = BitAt(t.writer, S + j - 1)
      BY <3>1 DEF Progress
    <3>3. BitAt(t.writer, S + j - 1) = (s.val \div Pow2(s.nbits - j)) % 2
      BY <3>1 DEF Progress
    <3> QED
      BY <3>2, <3>3
  <2>2. CASE j > d
    <3> DEFINE i == j - d
    <3>1. /\ i \in 1..(t.nbits - u.nbits) /\ S + j - 1 = T + i - 1
          /\ t.nbits - i = s.nbits - j /\ s.nbits - j \in 0..(t.nbits - 1)
      <4>1. T = S + (s.nbits - t.nbits)
        BY <1>1
      <4>2. S \in Int /\ s.nbits \in Int /\ t.nbits \in Int /\ u.nbits \in Int /\ j \in Int
        BY <1>1
      <4> HIDE DEF S, T
      <4>3. /\ S + j - 1 = (S + (s.nbits - t.nbits)) + (j - (s.nbits - t.nbits)) - 1
            /\ t.nbits - (j - (s.nbits - t.nbits)) = s.nbits - j
        BY <4>2, Distances
      <4>4. i \in 1..(t.nbits - u.nbits) /\ s.nbits - j \in 0..(t.nbits - 1)
        BY <1>1, <2>2, Later
      <4> QED
        BY <4>1, <4>3, <4>4
    <3> HIDE DEF i
    <3>2. BitAt(u.writer, T + i - 1) = (t.val \div Pow2(t.nbits - i)) % 2
      BY <3>1 DEF Progress
    <3>3. (t.val \div Pow2(s.nbits - j)) % 2 = (s.val \div Pow2(s.nbits - j)) % 2
      BY <3>1 DEF Progress
    <3> HIDE DEF S, T
    <3> QED
      BY <3>1, <3>2, <3>3
  <2> QED
    BY <1>1, <2>1, <2>2
<1>6. ASSUME NEW e \in 0..(u.nbits - 1)
      PROVE  (u.val \div Pow2(e)) % 2 = (s.val \div Pow2(e)) % 2
  <2>1. e \in 0..(t.nbits - 1)
    BY <1>1
  <2>2. (u.val \div Pow2(e)) % 2 = (t.val \div Pow2(e)) % 2
    BY DEF Progress
  <2>3. (t.val \div Pow2(e)) % 2 = (s.val \div Pow2(e)) % 2
    BY <2>1 DEF Progress
  <2> QED
    BY <2>2, <2>3
<1>7. u.nbits <= s.nbits
  BY <1>1
<1> QED
  BY <1>2, <1>3, <1>4, <1>5, <1>6, <1>7 DEF Progress

LEMMA Shifted ==
  ASSUME NEW n \in Nat, NEW k \in 0..31
  PROVE  n \div Pow2(k) \in Nat /\ n % Pow2(k) \in Nat /\ n % Pow2(k) \in 0..(Pow2(k) - 1)
<1> DEFINE P == Pow2(k)
<1>1. P \in Nat \ {0}
  BY Pow2Type
<1> HIDE DEF P
<1>2. n \div P \in Nat /\ n % P \in 0..(P - 1)
  BY <1>1, Division
<1> QED
  BY <1>1, <1>2 DEF P

(* The bits fit in the byte that is being filled.                          *)
LEMMA FitsProgress ==
  ASSUME NEW s, InPass(s), s.nbits # 0, s.nbits <= 8 - s.writer.bitPos
  PROVE  Progress(s, Fits(s)) /\ Fits(s).nbits = 0
<1> DEFINE w == s.writer
           n == s.nbits
           p == w.bitPos
           m == s.val % Pow2(n)
           x == m * Pow2((8 - p) - n)
           byte == w.bitBuf + x
           v == IF p + n = 8 THEN NextByte(w, byte)
                ELSE [buf |-> w.buf, bitBuf |-> byte, bitPos |-> p + n]
           t == [writer |-> v, val |-> s.val, nbits |-> 0]
<1>1. Fits(s) = t
  BY DEF Fits
<1>2. WellFormed(w) /\ s.val \in Nat /\ n \in 0..32
  BY DEF InPass
<1>3. p \in 0..7 /\ w.bitBuf \in 0..255 /\ w.bitBuf % Pow2(8 - p) = 0
  <2>1. w \in [buf : Seq(0..255), bitBuf : 0..255, bitPos : 0..7]
    BY <1>2 DEF WellFormed
  <2> QED
    BY <1>2, <2>1 DEF WellFormed
<1>4. n \in 1..(8 - p) /\ 8 - p \in 1..8 /\ n \in 0..31 /\ p + n \in 1..8
  BY <1>2, <1>3
<1> HIDE DEF w, n, p
<1>5. m \in Nat /\ m \in 0..(Pow2(n) - 1)
  BY <1>2, <1>4, Shifted
<1> HIDE DEF m
<1>6. /\ x \in 0..(Pow2(8 - p) - 1)
      /\ (w.bitBuf + x) % Pow2((8 - p) - n) = 0
      /\ \A j \in 1..n : x \div Pow2((8 - p) - j) = m \div Pow2(n - j)
  <2> DEFINE b == w.bitBuf
             space == 8 - p
  <2>1. b \in Nat /\ b % Pow2(space) = 0 /\ space \in 1..8 /\ n \in 1..space
    BY <1>3, <1>4
  <2> HIDE DEF b, space
  <2>2. /\ m * Pow2(space - n) \in 0..(Pow2(space) - 1)
        /\ (b + m * Pow2(space - n)) % Pow2(space - n) = 0
    BY <1>5, <2>1, ShiftFacts, Zenon
  <2>3. ASSUME NEW j \in 1..n
        PROVE  (m * Pow2(space - n)) \div Pow2(space - j) = m \div Pow2(n - j)
    BY <1>5, <2>1, ShiftBits
  <2> QED
    BY <2>2, <2>3 DEF b, space
<1> HIDE DEF x
<1>7. byte \in 0..255
  BY <1>3, <1>4, <1>6, ByteFacts
<1>8. /\ WellFormed(v) /\ Pos(v) = 8 * Len(w.buf) + p + n
      /\ \A k \in 0..(8 * Len(w.buf) - 1) : BitAt(v, k) = BitAt(w, k)
      /\ \A i \in 0..7 : BitAt(v, 8 * Len(w.buf) + i) = BitOf(byte, i)
  <2>0. Len(w.buf) \in Nat
    BY <1>2, PlaceOfBit
  <2>1. CASE p + n = 8
    <3>1. v = NextByte(w, byte)
      BY <2>1
    <3>2. 8 * Len(w.buf) + p + n = 8 * Len(w.buf) + 8
      BY <1>3, <1>4, <2>0, <2>1
    <3> HIDE DEF v, byte
    <3> QED
      BY <1>2, <1>7, <3>1, <3>2, NextByteFacts
  <2>2. CASE p + n # 8
    <3>1. p + n \in 0..7 /\ 8 - (p + n) = (8 - p) - n
      BY <1>3, <1>4, <2>2
    <3>2. byte % Pow2(8 - (p + n)) = 0
      BY <1>6, <3>1
    <3>3. v = [buf |-> w.buf, bitBuf |-> byte, bitPos |-> p + n]
      BY <2>2
    <3>4. 8 * Len(w.buf) + p + n = 8 * Len(w.buf) + (p + n)
      <4> DEFINE L == 8 * Len(w.buf)
      <4>1. L \in Nat /\ p \in 0..7 /\ n \in 0..31
        BY <1>3, <1>4, <2>0
      <4> HIDE DEF L
      <4>2. L + p + n = L + (p + n)
        BY ONLY <4>1
      <4> QED
        BY <4>2 DEF L
    <3> HIDE DEF v, byte
    <3> QED
      BY <1>2, <1>7, <3>1, <3>2, <3>3, <3>4, FillFacts
  <2> QED
    BY <2>1, <2>2
<1> HIDE DEF v
<1>9. /\ Pos(v) = Pos(w) + n
      /\ \A k \in 0..(Pos(w) - 1) : BitAt(v, k) = BitAt(w, k)
      /\ \A j \in 1..n : BitAt(v, Pos(w) + j - 1) = (x \div Pow2(8 - p - j)) % 2
  <2>1. ByteIs(v, w, w.bitBuf + x)
    BY <1>8 DEF ByteIs
  <2>2. Adds(v, w, x, n)
    BY <1>2, <1>4, <1>6, <1>8, <2>1, ByteAppended DEF p
  <2> QED
    BY <2>2 DEF Adds, p
<1>10. ASSUME NEW j \in 1..n
       PROVE  BitAt(v, Pos(w) + j - 1) = (s.val \div Pow2(n - j)) % 2
  <2>1. BitAt(v, Pos(w) + j - 1) = (m \div Pow2(n - j)) % 2
    BY <1>6, <1>9
  <2>2. n - j \in 0..(n - 1)
    BY <1>4
  <2>3. (m \div Pow2(n - j)) % 2 = (s.val \div Pow2(n - j)) % 2
    BY <1>2, <1>4, <2>2, LowBits DEF m
  <2> QED
    BY <2>1, <2>3
<1>11. t.writer = v /\ t.val = s.val /\ t.nbits = 0
  OBVIOUS
<1> HIDE DEF t
<1>12. InPass(t)
  BY <1>2, <1>8, <1>11 DEF InPass
<1>13. n - t.nbits = n /\ t.nbits <= n /\ 0..(t.nbits - 1) = {}
  BY <1>4, <1>11
<1> QED
  BY <1>1, <1>9, <1>10, <1>11, <1>12, <1>13 DEF Progress, w, n

(* They do not: the byte is filled, and the rest is left.                  *)
LEMMA FillsProgress ==
  ASSUME NEW s, InPass(s), s.nbits > 8 - s.writer.bitPos
  PROVE  /\ Progress(s, Fills(s))
         /\ Fills(s).nbits = s.nbits - (8 - s.writer.bitPos)
         /\ Fills(s).writer.bitPos = 0
<1> DEFINE w == s.writer
           n == s.nbits
           p == w.bitPos
           space == 8 - p
           shift == n - space
           u == s.val \div Pow2(shift)
           x == u % Pow2(space)
           byte == w.bitBuf + x
           v == NextByte(w, byte)
           t == [writer |-> v, val |-> s.val % Pow2(shift), nbits |-> shift]
<1>1. Fills(s) = t
  BY DEF Fills
<1>2. WellFormed(w) /\ s.val \in Nat /\ n \in 0..32
  BY DEF InPass
<1>3. p \in 0..7 /\ w.bitBuf \in 0..255 /\ w.bitBuf % Pow2(8 - p) = 0
  <2>1. w \in [buf : Seq(0..255), bitBuf : 0..255, bitPos : 0..7]
    BY <1>2 DEF WellFormed
  <2> QED
    BY <1>2, <2>1 DEF WellFormed
<1>4. space \in 1..8 /\ shift \in 1..31 /\ n \in 2..32
  BY <1>2, <1>3
<1> HIDE DEF w, n, p
<1>5. Pow2(shift) \in Nat \ {0} /\ Pow2(space) \in Nat \ {0}
  BY <1>4, Pow2Type
<1>6. u \in Nat /\ s.val % Pow2(shift) \in Nat
  <2>1. shift \in 0..31
    BY <1>4
  <2> HIDE DEF shift
  <2> QED
    BY <1>2, <2>1, Shifted
<1> HIDE DEF u
<1>7. x \in 0..(Pow2(space) - 1)
  BY <1>5, <1>6, Division
<1> HIDE DEF x
<1>8. byte \in 0..255
  BY <1>3, <1>4, <1>7, ByteFacts, ZenonT(60)
<1> HIDE DEF byte
<1>9. /\ WellFormed(v) /\ Pos(v) = 8 * Len(w.buf) + 8
      /\ \A k \in 0..(8 * Len(w.buf) - 1) : BitAt(v, k) = BitAt(w, k)
      /\ \A i \in 0..7 : BitAt(v, 8 * Len(w.buf) + i) = BitOf(byte, i)
  BY <1>2, <1>8, NextByteFacts
<1>10. v.bitPos = 0
  BY DEF NextByte
<1> HIDE DEF v
<1>11. Pos(v) = 8 * Len(w.buf) + p + space
  <2>1. Len(w.buf) \in Nat
    BY <1>2, PlaceOfBit
  <2> QED
    BY <1>3, <1>9, <2>1
<1>12. /\ Pos(v) = Pos(w) + space
       /\ \A k \in 0..(Pos(w) - 1) : BitAt(v, k) = BitAt(w, k)
       /\ \A j \in 1..space : BitAt(v, Pos(w) + j - 1) = (x \div Pow2(space - j)) % 2
  <2>1. space \in 1..(8 - w.bitPos) /\ x \in 0..(Pow2(8 - w.bitPos) - 1)
    BY <1>4, <1>7 DEF p
  <2> QED
    <3>1. ByteIs(v, w, w.bitBuf + x)
      BY <1>9 DEF byte, ByteIs
    <3>2. Pos(v) = 8 * Len(w.buf) + w.bitPos + space
      BY <1>11 DEF p
    <3> DEFINE sp == space
    <3>3. sp \in 1..(8 - w.bitPos) /\ Pos(v) = 8 * Len(w.buf) + w.bitPos + sp
      BY <2>1, <3>2
    <3> HIDE DEF sp
    <3>4. Adds(v, w, x, sp)
      BY ONLY <1>2, <2>1, <3>1, <3>3, ByteAppended
    <3> QED
      BY <3>4 DEF sp, p, Adds
<1>13. ASSUME NEW j \in 1..space
       PROVE  BitAt(v, Pos(w) + j - 1) = (s.val \div Pow2(n - j)) % 2
  <2> DEFINE e == space - j
  <2>1. e \in 0..(space - 1) /\ e \in 0..31 /\ space \in 0..31 /\ shift \in 0..31
        /\ shift + e = n - j /\ shift + e <= 31
    BY <1>2, <1>3, <1>4
  <2> HIDE DEF e
  <2>2. (x \div Pow2(e)) % 2 = (u \div Pow2(e)) % 2
    BY <1>6, <2>1, LowBits DEF x
  <2>3. Pow2(shift + e) = Pow2(shift) * Pow2(e)
    BY <2>1, Pow2Add
  <2>4. (s.val \div Pow2(shift)) \div Pow2(e) = s.val \div (Pow2(shift) * Pow2(e))
    BY <1>2, <1>5, <2>1, Pow2Type, DivDiv
  <2>5. u \div Pow2(e) = s.val \div Pow2(n - j)
    BY <2>1, <2>3, <2>4 DEF u
  <2>6. BitAt(v, Pos(w) + j - 1) = (x \div Pow2(e)) % 2
    BY <1>12 DEF e
  <2> QED
    BY <2>2, <2>5, <2>6
<1>14. t.writer = v /\ t.val = s.val % Pow2(shift) /\ t.nbits = shift
  OBVIOUS
<1> HIDE DEF t
<1>15. InPass(t)
  BY <1>4, <1>6, <1>9, <1>14 DEF InPass
<1>16. n - t.nbits = space /\ t.nbits <= n
  BY <1>3, <1>4, <1>14
<1>17. ASSUME NEW e \in 0..(t.nbits - 1)
       PROVE  (t.val \div Pow2(e)) % 2 = (s.val \div Pow2(e)) % 2
  <2>1. e \in 0..(shift - 1) /\ shift \in 0..31
    BY <1>4, <1>14
  <2> HIDE DEF shift
  <2> QED
    BY <1>2, <1>14, <2>1, LowBits
<1>18. Progress(s, t)
  BY <1>12, <1>13, <1>14, <1>15, <1>16, <1>17 DEF Progress, w, n
<1> QED
  BY <1>1, <1>10, <1>14, <1>18 DEF w, n, p

(* How much there is left to write.                                        *)
Left(s, n) == s.nbits <= n /\ (s.nbits # 0 => s.writer.bitPos = 0)

LEMMA NothingLeft ==
  ASSUME NEW s, s.nbits = 0
  PROVE  Left(s, 31) /\ \A n \in {15, 23, 31} : Left(s, n - 8)
BY DEF Left

(* A pass writes what it takes, and ends on a byte or with nothing left.   *)
LEMMA PassProgress ==
  ASSUME NEW s, InPass(s)
  PROVE  /\ Progress(s, Pass(s))
         /\ Left(Pass(s), 31)
         /\ \A n \in {15, 23, 31} : Left(s, n) => Left(Pass(s), n - 8)
         /\ Left(s, 7) => Pass(s).nbits = 0
<1>1. WellFormed(s.writer) /\ s.val \in Nat /\ s.nbits \in 0..32
      /\ s.writer.bitPos \in 0..7 /\ Pos(s.writer) \in Nat
  <2>1. WellFormed(s.writer)
    BY DEF InPass
  <2>2. s.writer \in [buf : Seq(0..255), bitBuf : 0..255, bitPos : 0..7]
    BY <2>1 DEF WellFormed
  <2> QED
    BY <2>1, <2>2, PlaceOfBit DEF InPass
<1>2. CASE s.nbits = 0
  <2>1. Pass(s) = s
    BY <1>2 DEF Pass
  <2>2. s.nbits - s.nbits = 0 /\ Pos(s.writer) = Pos(s.writer) + 0 /\ s.nbits <= s.nbits
    BY <1>1
  <2>3. Progress(s, s)
    BY <2>2 DEF Progress
  <2> QED
    BY <1>2, <2>1, <2>3, NothingLeft
<1>3. CASE s.nbits # 0 /\ s.nbits <= 8 - s.writer.bitPos
  <2>1. Pass(s) = Fits(s)
    BY <1>3 DEF Pass
  <2>2. Progress(s, Pass(s)) /\ Pass(s).nbits = 0
    BY <1>3, <2>1, FitsProgress
  <2> QED
    BY <1>3, <2>2, NothingLeft
<1>4. CASE s.nbits # 0 /\ s.nbits > 8 - s.writer.bitPos
  <2>1. Pass(s) = Fills(s)
    BY <1>1, <1>4 DEF Pass
  <2>2. /\ Progress(s, Pass(s))
        /\ Pass(s).nbits = s.nbits - (8 - s.writer.bitPos)
        /\ Pass(s).writer.bitPos = 0
    BY <1>4, <2>1, FillsProgress
  <2> QED
    BY <1>1, <1>4, <2>2 DEF Left
<1> QED
  BY <1>1, <1>2, <1>3, <1>4

(* v is w and n bits of val.                                               *)
Appends(w, v, val, n) ==
  /\ WellFormed(v)
  /\ Pos(v) = Pos(w) + n
  /\ \A k \in 0..(Pos(w) - 1) : BitAt(v, k) = BitAt(w, k)
  /\ \A j \in 1..n : BitAt(v, Pos(w) + j - 1) = (val \div Pow2(n - j)) % 2

(* write puts the bits of a value behind those that were there.            *)
LEMMA WriteAppends ==
  ASSUME NEW w, WellFormed(w), NEW val \in Nat, NEW nbits \in 1..32
  PROVE  Appends(w, Write(w, val, nbits), val, nbits)
<1> DEFINE s == [writer |-> w, val |-> val, nbits |-> nbits]
           s1 == Pass(s)
           s2 == Pass(s1)
           s3 == Pass(s2)
           s4 == Pass(s3)
           s5 == Pass(s4)
<1>1. Write(w, val, nbits) = s5.writer
  BY DEF Write
<1>2. InPass(s) /\ s.writer = w /\ s.val = val /\ s.nbits = nbits
  BY DEF InPass
<1> HIDE DEF s
<1>3. Progress(s, s1) /\ InPass(s1) /\ Left(s1, 31)
  BY <1>2, PassProgress DEF Progress
<1> HIDE DEF s1
<1>4. Progress(s, s2) /\ InPass(s2) /\ Left(s2, 23)
  <2>1. Progress(s1, s2) /\ Left(s2, 31 - 8)
    BY <1>3, PassProgress
  <2> HIDE DEF s2
  <2> QED
    BY <1>2, <1>3, <2>1, ProgressTransitive DEF Progress
<1> HIDE DEF s2
<1>5. Progress(s, s3) /\ InPass(s3) /\ Left(s3, 15)
  <2>1. Progress(s2, s3) /\ Left(s3, 23 - 8)
    BY <1>4, PassProgress
  <2> HIDE DEF s3
  <2> QED
    BY <1>2, <1>4, <2>1, ProgressTransitive DEF Progress
<1> HIDE DEF s3
<1>6. Progress(s, s4) /\ InPass(s4) /\ Left(s4, 7)
  <2>1. Progress(s3, s4) /\ Left(s4, 15 - 8)
    BY <1>5, PassProgress
  <2> HIDE DEF s4
  <2> QED
    BY <1>2, <1>5, <2>1, ProgressTransitive DEF Progress
<1> HIDE DEF s4
<1>7. Progress(s, s5) /\ InPass(s5) /\ s5.nbits = 0
  <2>1. Progress(s4, s5) /\ s5.nbits = 0
    BY <1>6, PassProgress
  <2> HIDE DEF s5
  <2> QED
    BY <1>2, <1>6, <2>1, ProgressTransitive DEF Progress, Left, InPass
<1> HIDE DEF s5
<1>8. nbits - s5.nbits = nbits
  BY <1>7
<1> QED
  BY <1>1, <1>2, <1>7, <1>8 DEF Progress, Appends, InPass

-----------------------------------------------------------------------------
(***************************************************************************)
(* The fields, one after the other: the writer has the bits of all of      *)
(* them, each from its place on.                                           *)
(***************************************************************************)

(* f is the writer after each of the first n fields.                       *)
Runs(f, fields, n) ==
  f = [i \in 0..n |-> IF i = 0 THEN NewWriter
                      ELSE Write(f[i - 1], fields[i][1], fields[i][2])]

(* The function that Written is defined by exists: a run of one field more *)
(* is made from one of the fields before.                                  *)
LEMMA RunsExists ==
  ASSUME NEW fields, NEW n \in Nat
  PROVE  \E f : Runs(f, fields, n)
<1> DEFINE S == { k \in Nat : \E f : Runs(f, fields, k) }
<1>1. 0 \in S
  <2> DEFINE f == [i \in 0..0 |-> NewWriter]
  <2>1. Runs(f, fields, 0)
    BY DEF Runs
  <2> QED
    BY <2>1
<1>2. ASSUME NEW k \in S
      PROVE  k + 1 \in S
  <2>1. PICK f : Runs(f, fields, k)
    OBVIOUS
  <2>2. k \in Nat /\ k + 1 \in Nat
    OBVIOUS
  <2> DEFINE W(w, i) == Write(w, fields[i][1], fields[i][2])
             g == [i \in 0..(k + 1) |-> IF i = k + 1 THEN W(f[k], i) ELSE f[i]]
  <2>3. /\ DOMAIN f = 0..k
        /\ \A i \in 0..k : f[i] = IF i = 0 THEN NewWriter ELSE W(f[i - 1], i)
    BY <2>1 DEF Runs
  <2> HIDE DEF W
  <2>4. /\ \A i \in 0..k : g[i] = f[i]
        /\ g[k + 1] = W(f[k], k + 1)
    BY <2>2
  <2>5. \A i \in 0..(k + 1) : g[i] = IF i = 0 THEN NewWriter ELSE W(g[i - 1], i)
    <3> TAKE i \in 0..(k + 1)
    <3>1. CASE i = k + 1
      <4>1. i # 0 /\ i - 1 = k /\ k \in 0..k
        BY <2>2, <3>1
      <4>2. g[i - 1] = f[k]
        BY <2>4, <4>1
      <4> HIDE DEF g
      <4> QED
        BY <2>4, <3>1, <4>1, <4>2
    <3>2. CASE i # k + 1
      <4>1. i \in 0..k /\ (i # 0 => i - 1 \in 0..k)
        BY <2>2, <3>2
      <4>2. g[i] = f[i] /\ (i # 0 => g[i - 1] = f[i - 1])
        BY <2>4, <4>1
      <4> HIDE DEF g
      <4> QED
        BY <2>3, <4>1, <4>2
    <3> QED
      BY <3>1, <3>2
  <2>6. g = [i \in 0..(k + 1) |-> IF i = 0 THEN NewWriter ELSE W(g[i - 1], i)]
    <3> DEFINE h == [i \in 0..(k + 1) |-> IF i = 0 THEN NewWriter ELSE W(g[i - 1], i)]
    <3>1. DOMAIN g = 0..(k + 1) /\ g = [i \in 0..(k + 1) |-> g[i]]
      OBVIOUS
    <3> HIDE DEF g
    <3>2. [i \in 0..(k + 1) |-> g[i]] = h
      BY <2>5, Zenon
    <3> QED
      BY <3>1, <3>2
  <2> HIDE DEF g
  <2>7. Runs(g, fields, k + 1)
    BY <2>6 DEF Runs, W
  <2> QED
    BY <2>2, <2>7
<1> HIDE DEF S
<1>3. S = Nat
  <2>1. S \in SUBSET Nat
    BY DEF S
  <2> QED
    BY <1>1, <1>2, <2>1, SetInduction
<1> QED
  BY <1>3 DEF S

LEMMA WrittenRuns ==
  ASSUME NEW fields, Len(fields) \in Nat
  PROVE  \E f : Written(fields) = f[Len(fields)] /\ Runs(f, fields, Len(fields))
<1>1. PICK g : Runs(g, fields, Len(fields))
  BY RunsExists
<1> QED
  BY <1>1, Zenon DEF Written, Runs

(* Where the fields start: the next one behind the last.                   *)
Places(start, fields) ==
  /\ start \in [0..Len(fields) -> Nat]
  /\ start[0] = 0
  /\ \A i \in 1..Len(fields) : start[i] = start[i - 1] + fields[i][2]

(* The writer has the bits of the first n fields.                          *)
Has(w, start, fields, n) ==
  /\ WellFormed(w)
  /\ Pos(w) = start[n]
  /\ \A i \in 1..n : \A j \in 1..fields[i][2] :
       BitAt(w, start[i - 1] + j - 1) = (fields[i][1] \div Pow2(fields[i][2] - j)) % 2

LEMMA Further ==
  ASSUME NEW a \in Nat, NEW b \in Nat, NEW d \in 1..32, NEW c, c = b + d
  PROVE  c \in Nat /\ (a <= b => a <= c)
OBVIOUS

(* No field ends behind the last one's end.                                *)
LEMMA PlacesGrow ==
  ASSUME NEW fields \in Seq(Nat \X (1..32)), NEW start, Places(start, fields),
         NEW n \in 0..Len(fields), NEW i \in 1..n
  PROVE  start[i] <= start[n]
<1> DEFINE L == Len(fields)
           S == { k \in Nat : i + k <= L => start[i] <= start[i + k] }
<1>1. L \in Nat /\ i \in Nat
  OBVIOUS
<1>2. \A k \in 1..L : fields[k][2] \in 1..32
  <2> TAKE k \in 1..L
  <2>1. fields[k] \in Nat \X (1..32)
    BY ElementOfSeq
  <2> QED
    BY <2>1
<1>3. 0 \in S
  <2>1. i \in 0..L /\ i + 0 = i
    BY <1>1
  <2>2. start \in [0..L -> Nat]
    BY DEF Places
  <2>3. start[i] \in Nat
    BY <2>1, <2>2
  <2>4. start[i] <= start[i + 0]
    BY <2>1, <2>3
  <2> QED
    BY <2>4
<1>4. ASSUME NEW k \in S
      PROVE  k + 1 \in S
  <2>1. k \in Nat
    OBVIOUS
  <2>2. CASE i + (k + 1) <= L
    <3>1. i + (k + 1) \in 1..L /\ (i + (k + 1)) - 1 = i + k /\ i + k \in 0..L /\ i \in 0..L
      BY <1>1, <2>1, <2>2
    <3>2. start[i + (k + 1)] = start[i + k] + fields[i + (k + 1)][2]
      BY <3>1 DEF Places
    <3>3. start[i + k] \in Nat /\ start[i] \in Nat /\ start[i + (k + 1)] \in Nat
      <4>1. start \in [0..L -> Nat] /\ i + (k + 1) \in 0..L
        BY <3>1 DEF Places
      <4> QED
        BY ONLY <3>1, <4>1
    <3>4. fields[i + (k + 1)][2] \in 1..32
      BY <1>2, <3>1
    <3>5. start[i] <= start[i + k]
      BY <3>1
    <3> QED
      <4>1. start[i] <= start[i + (k + 1)]
        BY <3>2, <3>3, <3>4, <3>5, Further
      <4>2. k + 1 \in Nat
        BY <2>1
      <4> QED
        BY <4>1, <4>2
  <2>3. CASE ~(i + (k + 1) <= L)
    BY <2>1, <2>3
  <2> QED
    BY <2>2, <2>3
<1>5. S = Nat
  <2>1. S \in SUBSET Nat
    OBVIOUS
  <2> HIDE DEF S
  <2> QED
    BY <1>3, <1>4, <2>1, SetInduction
<1>6. n - i \in Nat /\ i + (n - i) = n /\ n <= L
  BY <1>1
<1>7. n - i \in S
  BY <1>5, <1>6
<1> QED
  BY <1>6, <1>7

LEMMA Within ==
  ASSUME NEW a \in Nat, NEW b \in Nat, NEW c \in Nat, NEW n \in 1..32, NEW j \in 1..n,
         b = a + n, b <= c
  PROVE  a + j - 1 \in 0..(c - 1)
OBVIOUS

(* One field more keeps those before it, and is behind them.               *)
LEMMA FieldIsWritten ==
  ASSUME NEW fields \in Seq(Nat \X (1..32)), NEW start, Places(start, fields),
         NEW n \in Nat, n + 1 <= Len(fields), NEW w, Has(w, start, fields, n)
  PROVE  Has(Write(w, fields[n + 1][1], fields[n + 1][2]), start, fields, n + 1)
<1> DEFINE val == fields[n + 1][1]
           nbits == fields[n + 1][2]
           v == Write(w, val, nbits)
<1>1. n + 1 \in 1..Len(fields) /\ n \in 0..Len(fields)
  OBVIOUS
<1>2. val \in Nat /\ nbits \in 1..32
  <2>1. fields[n + 1] \in Nat \X (1..32)
    BY <1>1, ElementOfSeq
  <2> QED
    BY <2>1
<1>3. WellFormed(w) /\ Pos(w) = start[n]
  BY DEF Has
<1> HIDE DEF val, nbits
<1>4. Appends(w, v, val, nbits)
  BY <1>2, <1>3, WriteAppends
<1> HIDE DEF v
<1>5. WellFormed(v) /\ Pos(v) = start[n] + nbits
  BY <1>3, <1>4 DEF Appends
<1>6. (n + 1) - 1 = n /\ start[n + 1] = start[n] + nbits /\ start[n] \in Nat
  BY <1>1 DEF Places, nbits
<1>7. ASSUME NEW i \in 1..(n + 1), NEW j \in 1..fields[i][2]
      PROVE  BitAt(v, start[i - 1] + j - 1) = (fields[i][1] \div Pow2(fields[i][2] - j)) % 2
  <2>1. CASE i = n + 1
    <3>1. i - 1 = n /\ j \in 1..nbits
      BY <2>1 DEF nbits
    <3>2. BitAt(v, Pos(w) + j - 1) = (val \div Pow2(nbits - j)) % 2
      BY <1>4, <3>1 DEF Appends
    <3> QED
      BY <1>3, <2>1, <3>1, <3>2 DEF val, nbits
  <2>2. CASE i # n + 1
    <3>1. i \in 1..n /\ i - 1 \in 0..Len(fields) /\ i \in 1..Len(fields)
      BY <2>2
    <3>2. start[i] = start[i - 1] + fields[i][2] /\ start[i - 1] \in Nat
      BY <3>1 DEF Places
    <3>3. fields[i][2] \in 1..32
      <4>1. fields[i] \in Nat \X (1..32)
        BY <3>1, ElementOfSeq
      <4> QED
        BY <4>1
    <3>4. start[i] <= start[n]
      BY <1>1, <3>1, PlacesGrow
    <3>5. start[i - 1] + j - 1 \in 0..(Pos(w) - 1)
      <4>1. start[i] \in Nat
        BY <3>2, <3>3, Further, ZenonT(60)
      <4>2. start[i - 1] + j - 1 \in 0..(start[n] - 1)
        BY <1>6, <3>2, <3>3, <3>4, <4>1, Within
      <4> QED
        BY <1>3, <4>2
    <3>6. BitAt(v, start[i - 1] + j - 1) = BitAt(w, start[i - 1] + j - 1)
      BY <1>4, <3>5 DEF Appends
    <3>7. BitAt(w, start[i - 1] + j - 1) = (fields[i][1] \div Pow2(fields[i][2] - j)) % 2
      BY <3>1 DEF Has
    <3> QED
      BY <3>6, <3>7
  <2> QED
    BY <2>1, <2>2
<1>8. Pos(v) = start[n + 1]
  BY <1>5, <1>6
<1>9. Has(v, start, fields, n + 1)
  BY <1>5, <1>7, <1>8 DEF Has
<1> QED
  BY <1>9 DEF v, val, nbits

(* When the fields have been written, all their bits are there.            *)
LEMMA FieldsAreWritten ==
  ASSUME NEW fields \in Seq(Nat \X (1..32)), NEW start, Places(start, fields)
  PROVE  Has(Written(fields), start, fields, Len(fields))
<1> DEFINE L == Len(fields)
<1>1. L \in Nat
  OBVIOUS
<1>2. PICK f : Written(fields) = f[L] /\ Runs(f, fields, L)
  BY <1>1, WrittenRuns
<1> DEFINE S == { k \in Nat : k <= L => Has(f[k], start, fields, k) }
<1>3. 0 \in S
  <2>1. f[0] = NewWriter
    BY <1>1, <1>2 DEF Runs
  <2>2. NewWriter \in [buf : Seq(0..255), bitBuf : 0..255, bitPos : 0..7]
        /\ NewWriter.bitBuf = 0 /\ NewWriter.bitPos = 0 /\ NewWriter.buf = <<>>
    BY DEF NewWriter
  <2>3. WellFormed(NewWriter)
    <3>1. 8 - NewWriter.bitPos = 8 /\ NewWriter.bitBuf % Pow2(8) = 0
      BY <2>2, Pow2Small
    <3> QED
      BY <2>2, <3>1 DEF WellFormed
  <2>4. Pos(NewWriter) = 0
    BY <2>2 DEF Pos
  <2>5. start[0] = 0
    BY DEF Places
  <2>6. Has(f[0], start, fields, 0)
    BY <2>1, <2>3, <2>4, <2>5 DEF Has
  <2> QED
    BY <2>6
<1>4. ASSUME NEW k \in S
      PROVE  k + 1 \in S
  <2>1. k \in Nat
    OBVIOUS
  <2>2. CASE k + 1 <= L
    <3>1. k <= L /\ k + 1 \in 0..L /\ k + 1 # 0 /\ (k + 1) - 1 = k
      BY <1>1, <2>1, <2>2
    <3>2. f[k + 1] = Write(f[k], fields[k + 1][1], fields[k + 1][2])
      BY <1>2, <3>1 DEF Runs
    <3>3. Has(f[k], start, fields, k)
      BY <3>1
    <3>4. Has(f[k + 1], start, fields, k + 1)
      BY <2>1, <2>2, <3>2, <3>3, FieldIsWritten
    <3> QED
      BY <2>1, <3>4
  <2>3. CASE ~(k + 1 <= L)
    BY <2>1, <2>3
  <2> QED
    BY <2>2, <2>3
<1>5. S = Nat
  <2>1. S \in SUBSET Nat
    OBVIOUS
  <2> HIDE DEF S
  <2> QED
    BY <1>3, <1>4, <2>1, SetInduction
<1>6. L \in S
  BY <1>1, <1>5
<1> QED
  BY <1>1, <1>2, <1>6

(* The bytes of a writer hold its bits, and the last of them is filled up. *)
LEMMA FlushFacts ==
  ASSUME NEW w, WellFormed(w)
  PROVE  /\ Flush(w) \in Seq(0..255)
         /\ Len(Flush(w)) = (Pos(w) + 7) \div 8
         /\ \A k \in 0..(Pos(w) - 1) : Bit(Flush(w), k) = BitAt(w, k)
<1> DEFINE L == Len(w.buf)
           p == w.bitPos
<1>1. w.buf \in Seq(0..255) /\ L \in Nat /\ p \in 0..7 /\ w.bitBuf \in 0..255
  <2>1. w \in [buf : Seq(0..255), bitBuf : 0..255, bitPos : 0..7]
    BY DEF WellFormed
  <2> QED
    BY <2>1
<1>2. Pos(w) = 8 * L + p
  BY DEF Pos
<1> HIDE DEF L, p
<1>3. CASE p = 0
  <2>1. Flush(w) = w.buf
    BY <1>3 DEF Flush, p
  <2>2. Pos(w) = 8 * L
    BY <1>1, <1>2, <1>3
  <2>3. (8 * L + 7) \div 8 = L
    BY <1>1, ByteIndex
  <2>4. ASSUME NEW k \in 0..(8 * L - 1)
        PROVE  Bit(w.buf, k) = BitAt(w, k)
    <3>1. BitAt(w, k) = BitOf(w.buf[(k \div 8) + 1], k % 8)
      BY PlaceOfBit DEF L
    <3> QED
      BY <3>1 DEF Bit, BitOf
  <2> QED
    BY <1>1, <2>1, <2>2, <2>3, <2>4 DEF L
<1>4. CASE p > 0
  <2> DEFINE bytes == Append(w.buf, w.bitBuf)
  <2>1. Flush(w) = bytes
    BY <1>4 DEF Flush, p
  <2>2. /\ bytes \in Seq(0..255) /\ Len(bytes) = L + 1
        /\ \A q \in 1..L : bytes[q] = w.buf[q]
        /\ bytes[L + 1] = w.bitBuf
    BY <1>1, AppendProperties DEF L
  <2> HIDE DEF bytes
  <2>3. (Pos(w) + 7) \div 8 = L + 1
    <3>1. Pos(w) + 7 = 8 * (L + 1) + (p - 1) /\ p - 1 \in 0..7 /\ L + 1 \in Nat
      BY <1>1, <1>2, <1>4
    <3> QED
      BY <3>1, ByteIndex
  <2>4. ASSUME NEW k \in 0..(Pos(w) - 1)
        PROVE  Bit(bytes, k) = BitAt(w, k)
    <3>1. CASE k < 8 * L
      <4>1. k \in 0..(8 * L - 1)
        BY <1>1, <1>2, <3>1
      <4>2. (k \div 8) + 1 \in 1..L
        <5>1. k \div 8 \in 0..(L - 1)
          BY <1>1, <4>1, ByteIndex
        <5> QED
          BY <1>1, <5>1
      <4>3. BitAt(w, k) = BitOf(w.buf[(k \div 8) + 1], k % 8)
        BY <4>1, PlaceOfBit DEF L
      <4> QED
        BY <2>2, <4>2, <4>3 DEF Bit, BitOf
    <3>2. CASE k >= 8 * L
      <4>1. PICK i \in 0..7 : k = 8 * L + i
        <5>1. k - 8 * L \in 0..7 /\ k = 8 * L + (k - 8 * L)
          BY <1>1, <1>2, <3>2
        <5> QED
          BY <5>1
      <4>2. k \div 8 = L /\ k % 8 = i
        BY <1>1, <4>1, ByteIndex
      <4>3. BitAt(w, k) = BitOf(w.bitBuf, i)
        BY <4>1, PlaceOfBit DEF L
      <4> QED
        BY <2>2, <4>2, <4>3 DEF Bit, BitOf
    <3> QED
      BY <1>1, <1>2, <3>1, <3>2
  <2> QED
    BY <2>1, <2>2, <2>3, <2>4
<1> QED
  BY <1>1, <1>3, <1>4

-----------------------------------------------------------------------------
(***************************************************************************)
(* The frame: the places of its fields, and what is read there.            *)
(***************************************************************************)

FrameHead(frameSize, channels) ==
  << <<IF channels = 2 THEN 1 ELSE 0, 3>>, <<0, 4>>, <<0, 12>>,
     <<1, 1>>, <<0, 2>>, <<1, 1>>, <<frameSize, SizeBits>> >>

SampleFields(raw, n) == [i \in 1..n |-> <<raw[2 * i - 1] + 256 * raw[2 * i], 16>>]

(* What s \o t holds.                                                      *)
LEMMA Joined ==
  ASSUME NEW S, NEW s \in Seq(S), NEW t \in Seq(S)
  PROVE  /\ s \o t \in Seq(S) /\ Len(s \o t) = Len(s) + Len(t)
         /\ \A i \in 1..Len(s) : (s \o t)[i] = s[i]
         /\ \A i \in 1..Len(t) : (s \o t)[Len(s) + i] = t[i]
<1> DEFINE u == s \o t
           m == Len(s)
           n == Len(t)
<1>1. /\ u \in Seq(S) /\ Len(u) = m + n
      /\ \A i \in 1..(m + n) : u[i] = IF i <= m THEN s[i] ELSE t[i - m]
      /\ m \in Nat /\ n \in Nat
  BY ConcatProperties
<1> HIDE DEF u, m, n
<1>2. ASSUME NEW i \in 1..m PROVE u[i] = s[i]
  BY <1>1
<1>3. ASSUME NEW i \in 1..n PROVE u[m + i] = t[i]
  <2> DEFINE k == m + i
  <2>1. k \in 1..(m + n) /\ ~(k <= m) /\ k - m = i
    BY <1>1
  <2> HIDE DEF k
  <2>2. u[k] = t[i]
    BY <1>1, <2>1
  <2> QED
    BY <2>2 DEF k
<1> QED
  BY <1>1, <1>2, <1>3 DEF u, m, n

(* What the fields of a frame are.                                         *)
LEMMA FieldsFacts ==
  ASSUME NEW channels \in {1, 2}, NEW frameSize \in FrameSizes,
         NEW raw \in [1..(2 * frameSize * channels) -> Bytes]
  PROVE  LET F == Fields(raw, frameSize, channels)
             n == frameSize * channels
         IN  /\ n \in Nat
             /\ F \in Seq(Nat \X (1..32)) /\ Len(F) = n + 8
             /\ F[1] = <<channels - 1, 3>> /\ F[2] = <<0, 4>> /\ F[3] = <<0, 12>>
             /\ F[4] = <<1, 1>> /\ F[5] = <<0, 2>> /\ F[6] = <<1, 1>>
             /\ F[7] = <<frameSize, SizeBits>>
             /\ \A i \in 1..n :
                  /\ raw[2 * i - 1] \in 0..255 /\ raw[2 * i] \in 0..255
                  /\ F[7 + i] = <<raw[2 * i - 1] + 256 * raw[2 * i], 16>>
             /\ F[n + 8] = <<7, 3>>
<1> DEFINE n == frameSize * channels
           S == Nat \X (1..32)
           H == FrameHead(frameSize, channels)
           M == SampleFields(raw, n)
           E == << <<7, 3>> >>
           F == Fields(raw, frameSize, channels)
<1>1. frameSize \in Nat /\ n \in Nat /\ 2 * frameSize * channels = 2 * n
  <2>1. frameSize \in Nat
    BY FrameSizesAssumption
  <2> QED
    BY <2>1
<1>2. F = (H \o M) \o E
  BY DEF Fields, FrameHead, SampleFields
<1> HIDE DEF n
<1>3. H \in Seq(S) /\ Len(H) = 7
  <2>1. channels - 1 \in Nat /\ (IF channels = 2 THEN 1 ELSE 0) = channels - 1
    OBVIOUS
  <2>2. /\ <<channels - 1, 3>> \in S /\ <<0, 4>> \in S /\ <<0, 12>> \in S /\ <<1, 1>> \in S
        /\ <<0, 2>> \in S /\ <<frameSize, SizeBits>> \in S
    <3>1. channels - 1 \in Nat /\ 0 \in Nat /\ 1 \in Nat /\ frameSize \in Nat
      BY <1>1, <2>1
    <3>2. 3 \in 1..32 /\ 4 \in 1..32 /\ 12 \in 1..32 /\ 1 \in 1..32 /\ 2 \in 1..32
      OBVIOUS
    <3>3. SizeBits \in 1..32
      BY SizeBitsAssumption
    <3> QED
      BY <3>1, <3>2, <3>3, Zenon
  <2> HIDE DEF S
  <2>3. H = << <<channels - 1, 3>>, <<0, 4>>, <<0, 12>>, <<1, 1>>, <<0, 2>>, <<1, 1>>,
               <<frameSize, SizeBits>> >>
    BY <2>1 DEF FrameHead
  <2> HIDE DEF H
  <2> QED
    BY <2>2, <2>3
<1>4. /\ H[1] = <<channels - 1, 3>> /\ H[2] = <<0, 4>> /\ H[3] = <<0, 12>>
      /\ H[4] = <<1, 1>> /\ H[5] = <<0, 2>> /\ H[6] = <<1, 1>>
      /\ H[7] = <<frameSize, SizeBits>>
  BY DEF FrameHead
<1>5. \A i \in 1..n : raw[2 * i - 1] \in 0..255 /\ raw[2 * i] \in 0..255
  <2> TAKE i \in 1..n
  <2>1. 2 * i - 1 \in 1..(2 * n) /\ 2 * i \in 1..(2 * n)
    BY <1>1
  <2>2. raw \in [1..(2 * n) -> Bytes]
    BY <1>1
  <2>3. raw[2 * i - 1] \in Bytes /\ raw[2 * i] \in Bytes
    BY <2>1, <2>2
  <2> QED
    BY <2>3, BytesAssumption
<1>6. /\ M \in Seq(S) /\ Len(M) = n
      /\ \A i \in 1..n : M[i] = <<raw[2 * i - 1] + 256 * raw[2 * i], 16>>
  <2>1. \A i \in 1..n : <<raw[2 * i - 1] + 256 * raw[2 * i], 16>> \in S
    <3> TAKE i \in 1..n
    <3> DEFINE a == raw[2 * i - 1]
               b == raw[2 * i]
    <3>0. a \in 0..255 /\ b \in 0..255
      BY <1>5
    <3> HIDE DEF a, b
    <3>1. a + 256 * b \in Nat
      BY <3>0
    <3> QED
      BY <3>1 DEF a, b
  <2> HIDE DEF S
  <2>2. M \in [1..n -> S]
    BY <2>1 DEF SampleFields
  <2> QED
    BY <1>1, <2>2, IsASeq, LenProperties DEF SampleFields
<1>7. E \in Seq(S) /\ Len(E) = 1 /\ E[1] = <<7, 3>>
  OBVIOUS
<1> HIDE DEF H, M, E, S, F
<1>8. /\ H \o M \in Seq(S) /\ Len(H \o M) = 7 + n
      /\ \A i \in 1..7 : (H \o M)[i] = H[i]
      /\ \A i \in 1..n : (H \o M)[7 + i] = M[i]
  <2>0. H \in Seq(S) /\ M \in Seq(S)
    BY <1>3, <1>6
  <2>1. /\ H \o M \in Seq(S) /\ Len(H \o M) = Len(H) + Len(M)
        /\ \A i \in 1..Len(H) : (H \o M)[i] = H[i]
    BY ONLY <2>0, Joined, Zenon
  <2>2. \A i \in 1..Len(M) : (H \o M)[Len(H) + i] = M[i]
    BY ONLY <2>0, Joined
  <2> QED
    BY <1>3, <1>6, <2>1, <2>2
<1>9. /\ F \in Seq(S) /\ Len(F) = n + 8
      /\ \A i \in 1..(7 + n) : F[i] = (H \o M)[i]
      /\ F[n + 8] = E[1]
  <2> DEFINE HM == H \o M
             m == 7 + n
  <2>1. HM \in Seq(S) /\ Len(HM) = m /\ m \in Nat /\ m + 1 = n + 8 /\ 1 \in 1..1
    BY <1>1, <1>8
  <2>2. F = HM \o E
    BY <1>2
  <2> HIDE DEF HM, m
  <2>3. /\ F \in Seq(S) /\ Len(F) = m + 1
        /\ \A i \in 1..m : F[i] = HM[i]
        /\ F[m + 1] = E[1]
    <3>0. HM \in Seq(S) /\ E \in Seq(S)
      BY <1>7, <2>1
    <3>1. /\ F \in Seq(S) /\ Len(F) = Len(HM) + Len(E)
          /\ \A i \in 1..Len(HM) : F[i] = HM[i]
      BY ONLY <3>0, <2>2, Joined, Zenon
    <3>2. \A i \in 1..Len(E) : F[Len(HM) + i] = E[i]
      BY ONLY <3>0, <2>2, Joined
    <3> QED
      BY <1>7, <2>1, <3>1, <3>2
  <2> QED
    BY <2>1, <2>3 DEF HM, m
<1>10. \A i \in 1..7 : F[i] = H[i]
  <2> TAKE i \in 1..7
  <2>1. i \in 1..(7 + n)
    BY <1>1
  <2> QED
    BY <1>8, <1>9, <2>1
<1>11. \A i \in 1..n : F[7 + i] = M[i]
  <2> TAKE i \in 1..n
  <2>1. 7 + i \in 1..(7 + n)
    BY <1>1
  <2> QED
    BY <1>8, <1>9, <2>1
<1>12. F[1] = H[1] /\ F[2] = H[2] /\ F[3] = H[3] /\ F[4] = H[4]
       /\ F[5] = H[5] /\ F[6] = H[6] /\ F[7] = H[7]
  BY <1>10
<1> QED
  BY <1>1, <1>4, <1>5, <1>6, <1>7, <1>9, <1>11, <1>12, ZenonT(60) DEF S, F, n

(* The bits of a field are in the bytes, from its place on.                *)
LEMMA FieldIsRead ==
  ASSUME NEW fields \in Seq(Nat \X (1..32)), NEW start, Places(start, fields),
         NEW i \in 1..Len(fields), NEW j \in 1..fields[i][2]
  PROVE  Bit(Flush(Written(fields)), start[i - 1] + j - 1)
           = (fields[i][1] \div Pow2(fields[i][2] - j)) % 2
<1> DEFINE L == Len(fields)
           w == Written(fields)
<1>1. Has(w, start, fields, L)
  BY FieldsAreWritten
<1> HIDE DEF w
<1>2. WellFormed(w) /\ Pos(w) = start[L]
  BY <1>1 DEF Has
<1>3. i - 1 \in 0..L /\ i \in 0..L /\ L \in 0..L
  OBVIOUS
<1>4. start \in [0..L -> Nat] /\ start[i] = start[i - 1] + fields[i][2]
  BY DEF Places
<1>5. start[i - 1] \in Nat /\ start[i] \in Nat /\ start[L] \in Nat
  BY <1>3, <1>4
<1>6. fields[i][2] \in 1..32
  <2>1. fields[i] \in Nat \X (1..32)
    BY ElementOfSeq
  <2> QED
    BY <2>1
<1>7. start[i] <= start[L]
  BY <1>3, PlacesGrow
<1>8. start[i - 1] + j - 1 \in 0..(start[L] - 1)
  BY <1>4, <1>5, <1>6, <1>7, Within
<1>9. Bit(Flush(w), start[i - 1] + j - 1) = BitAt(w, start[i - 1] + j - 1)
  BY <1>2, <1>8, FlushFacts
<1>10. BitAt(w, start[i - 1] + j - 1) = (fields[i][1] \div Pow2(fields[i][2] - j)) % 2
  BY <1>1 DEF Has
<1> QED
  BY <1>9, <1>10 DEF w

(* Where the fields of a frame of n samples start, and where it ends.      *)
HeadBits == 23 + SizeBits

Start(n) ==
  [i \in 0..(n + 8) |->
     IF i = n + 8 THEN HeadBits + 16 * n + 3
     ELSE IF i > 6 THEN HeadBits + 16 * (i - 7)
     ELSE IF i = 0 THEN 0
     ELSE << 3, 7, 19, 20, 22, 23 >>[i]]

LEMMA StartIs ==
  ASSUME NEW n \in Nat
  PROVE  /\ Start(n) \in [0..(n + 8) -> Nat]
         /\ Start(n)[0] = 0 /\ Start(n)[1] = 3 /\ Start(n)[2] = 7 /\ Start(n)[3] = 19
         /\ Start(n)[4] = 20 /\ Start(n)[5] = 22 /\ Start(n)[6] = 23
         /\ \A i \in 0..n : Start(n)[7 + i] = HeadBits + 16 * i
         /\ Start(n)[n + 8] = HeadBits + 16 * n + 3
<1>1. HeadBits \in Nat
  BY SizeBitsAssumption DEF HeadBits
<1>2. /\ Start(n)[0] = 0 /\ Start(n)[1] = 3 /\ Start(n)[2] = 7 /\ Start(n)[3] = 19
      /\ Start(n)[4] = 20 /\ Start(n)[5] = 22 /\ Start(n)[6] = 23
      /\ Start(n)[n + 8] = HeadBits + 16 * n + 3
  BY DEF Start
<1>3. ASSUME NEW i \in 0..n
      PROVE  Start(n)[7 + i] = HeadBits + 16 * i
  <2> DEFINE k == 7 + i
  <2>1. k \in 0..(n + 8) /\ k # n + 8 /\ k > 6 /\ k - 7 = i
    OBVIOUS
  <2> HIDE DEF k
  <2>2. Start(n)[k] = HeadBits + 16 * (k - 7)
    BY <2>1 DEF Start
  <2> QED
    BY <2>1, <2>2 DEF k
<1>4. ASSUME NEW i \in 0..(n + 8)
      PROVE  Start(n)[i] \in Nat
  <2>1. CASE i \in 0..6
    BY <1>2, <2>1
  <2>2. CASE i = n + 8
    BY <1>1, <1>2, <2>2
  <2>3. CASE i \in 7..(n + 7)
    <3>1. i - 7 \in 0..n /\ i = 7 + (i - 7)
      BY <2>3
    <3>2. Start(n)[7 + (i - 7)] = HeadBits + 16 * (i - 7)
      BY <1>3, <3>1
    <3>3. HeadBits + 16 * (i - 7) \in Nat
      BY <1>1, <3>1
    <3> QED
      BY <3>1, <3>2, <3>3
  <2> QED
    BY <2>1, <2>2, <2>3
<1>5. Start(n) = [i \in 0..(n + 8) |-> Start(n)[i]]
  BY DEF Start
<1> QED
  BY <1>2, <1>3, <1>4, <1>5

(* Those are the places of the fields of a frame.                          *)
LEMMA StartPlaces ==
  ASSUME NEW n \in Nat, NEW F \in Seq(Nat \X (1..32)), Len(F) = n + 8,
         F[1][2] = 3, F[2][2] = 4, F[3][2] = 12, F[4][2] = 1, F[5][2] = 2, F[6][2] = 1,
         F[7][2] = SizeBits, \A i \in 1..n : F[7 + i][2] = 16, F[n + 8][2] = 3
  PROVE  Places(Start(n), F)
<1> DEFINE s == Start(n)
<1>1. /\ s \in [0..(n + 8) -> Nat]
      /\ s[0] = 0 /\ s[1] = 3 /\ s[2] = 7 /\ s[3] = 19 /\ s[4] = 20 /\ s[5] = 22 /\ s[6] = 23
      /\ \A i \in 0..n : s[7 + i] = HeadBits + 16 * i
      /\ s[n + 8] = HeadBits + 16 * n + 3
  BY StartIs
<1> HIDE DEF s
<1>2. HeadBits \in Nat /\ HeadBits = 23 + SizeBits
  BY SizeBitsAssumption DEF HeadBits
<1>3. ASSUME NEW i \in 1..(n + 8)
      PROVE  s[i] = s[i - 1] + F[i][2]
  <2>1. CASE i \in 1..6
    <3>1. \/ (i = 1 /\ i - 1 = 0) \/ (i = 2 /\ i - 1 = 1) \/ (i = 3 /\ i - 1 = 2)
          \/ (i = 4 /\ i - 1 = 3) \/ (i = 5 /\ i - 1 = 4) \/ (i = 6 /\ i - 1 = 5)
      BY <2>1
    <3>2. /\ s[1] = s[0] + F[1][2] /\ s[2] = s[1] + F[2][2] /\ s[3] = s[2] + F[3][2]
          /\ s[4] = s[3] + F[4][2] /\ s[5] = s[4] + F[5][2] /\ s[6] = s[5] + F[6][2]
      <4>1. /\ s[0] = 0 /\ s[1] = 3 /\ s[2] = 7 /\ s[3] = 19 /\ s[4] = 20 /\ s[5] = 22
            /\ s[6] = 23
        BY <1>1
      <4>2. /\ F[1][2] = 3 /\ F[2][2] = 4 /\ F[3][2] = 12 /\ F[4][2] = 1 /\ F[5][2] = 2
            /\ F[6][2] = 1
        OBVIOUS
      <4> QED
        BY ONLY <4>1, <4>2
    <3> QED
      BY ONLY <3>1, <3>2, Zenon
  <2>2. CASE i = 7
    <3>1. s[7 + 0] = HeadBits + 16 * 0
      <4>1. 0 \in 0..n
        OBVIOUS
      <4> QED
        BY ONLY <1>1, <4>1, Zenon
    <3>2. 7 + 0 = 7 /\ HeadBits + 16 * 0 = HeadBits /\ i - 1 = 6
      BY <1>2, <2>2
    <3> QED
      BY <1>1, <1>2, <2>2, <3>1, <3>2
  <2>3. CASE i \in 8..(n + 7)
    <3> DEFINE k == i - 8
    <3>1. k \in 0..n /\ k + 1 \in 0..n /\ k + 1 \in 1..n /\ i - 1 = 7 + k /\ i = 7 + (k + 1)
      BY <2>3
    <3> HIDE DEF k
    <3>2. s[i - 1] = HeadBits + 16 * k /\ s[i] = HeadBits + 16 * (k + 1) /\ F[i][2] = 16
      BY <1>1, <3>1
    <3> QED
      BY <1>2, <3>1, <3>2
  <2>4. CASE i = n + 8
    <3>1. i - 1 = 7 + n /\ n \in 0..n
      BY <2>4
    <3>2. s[i - 1] = HeadBits + 16 * n
      BY <1>1, <3>1
    <3> QED
      BY <1>1, <1>2, <2>4, <3>2
  <2> QED
    BY <2>1, <2>2, <2>3, <2>4
<1> QED
  BY <1>1, <1>3 DEF Places, s

(* Holds, but for the value's size.                                        *)
HasBits(bytes, from, n, value) ==
  \A j \in 1..n : Bit(bytes, from + j - 1) = (value \div Pow2(n - j)) % 2

LEMMA FieldAt ==
  ASSUME NEW fields \in Seq(Nat \X (1..32)), NEW start, Places(start, fields),
         NEW i \in 1..Len(fields), NEW val, NEW width, fields[i] = <<val, width>>
  PROVE  HasBits(Flush(Written(fields)), start[i - 1], width, val)
<1>1. fields[i][1] = val /\ fields[i][2] = width
  OBVIOUS
<1>2. ASSUME NEW j \in 1..width
      PROVE  Bit(Flush(Written(fields)), start[i - 1] + j - 1) = (val \div Pow2(width - j)) % 2
  <2>1. j \in 1..fields[i][2]
    BY <1>1
  <2>2. Bit(Flush(Written(fields)), start[i - 1] + j - 1)
          = (fields[i][1] \div Pow2(fields[i][2] - j)) % 2
    BY <2>1, FieldIsRead
  <2> QED
    BY ONLY <1>1, <2>2, Zenon
<1> QED
  BY <1>2, Zenon DEF HasBits

(* A zero has no bits.                                                     *)
LEMMA ZeroBits ==
  ASSUME NEW k \in 0..31
  PROVE  (0 \div Pow2(k)) % 2 = 0
<1> DEFINE P == Pow2(k)
<1>1. P \in Nat \ {0}
  BY Pow2Type
<1> HIDE DEF P
<1>2. 0 \in Nat /\ 0 = P * 0 + 0 /\ 0 \in 0..(P - 1)
  BY <1>1
<1>3. 0 \div P = 0
  BY ONLY <1>1, <1>2, QuotientIs, Zenon
<1>4. 0 % 2 = 0
  OBVIOUS
<1> QED
  BY <1>3, <1>4 DEF P

(* The two fields after the channels are sixteen zeroes.                   *)
LEMMA ZeroRun ==
  ASSUME NEW bytes, HasBits(bytes, 3, 4, 0), HasBits(bytes, 7, 12, 0)
  PROVE  HasBits(bytes, 3, 16, 0)
<1>1. ASSUME NEW j \in 1..16
      PROVE  Bit(bytes, 3 + j - 1) = (0 \div Pow2(16 - j)) % 2
  <2>1. (0 \div Pow2(16 - j)) % 2 = 0
    <3>1. 16 - j \in 0..31
      OBVIOUS
    <3> QED
      BY <3>1, ZeroBits
  <2>2. CASE j <= 4
    <3>1. j \in 1..4 /\ 4 - j \in 0..31
      BY <2>2
    <3>2. Bit(bytes, 3 + j - 1) = (0 \div Pow2(4 - j)) % 2
      BY <3>1 DEF HasBits
    <3>3. (0 \div Pow2(4 - j)) % 2 = 0
      BY <3>1, ZeroBits
    <3> QED
      BY ONLY <2>1, <3>2, <3>3, Zenon
  <2>3. CASE j > 4
    <3> DEFINE k == j - 4
    <3>1. k \in 1..12 /\ 3 + j - 1 = 7 + k - 1 /\ 12 - k \in 0..31
      BY <2>3
    <3> HIDE DEF k
    <3>2. Bit(bytes, 7 + k - 1) = (0 \div Pow2(12 - k)) % 2
      BY <3>1 DEF HasBits
    <3>3. (0 \div Pow2(12 - k)) % 2 = 0
      BY <3>1, ZeroBits
    <3> QED
      BY ONLY <2>1, <3>1, <3>2, <3>3, Zenon
  <2> QED
    BY <2>2, <2>3
<1> QED
  BY <1>1, Zenon DEF HasBits

(* hasSize, extraBytes and verbatim are the bits of a nine.                *)
LEMMA Flags ==
  ASSUME NEW bytes, HasBits(bytes, 19, 1, 1), HasBits(bytes, 20, 2, 0), HasBits(bytes, 22, 1, 1)
  PROVE  HasBits(bytes, 19, 4, 9)
<1>1. Bit(bytes, 19 + 1 - 1) = (1 \div Pow2(1 - 1)) % 2
  BY DEF HasBits
<1>2. Bit(bytes, 20 + 1 - 1) = (0 \div Pow2(2 - 1)) % 2
  BY DEF HasBits
<1>3. Bit(bytes, 20 + 2 - 1) = (0 \div Pow2(2 - 2)) % 2
  BY DEF HasBits
<1>4. Bit(bytes, 22 + 1 - 1) = (1 \div Pow2(1 - 1)) % 2
  BY DEF HasBits
<1>5. /\ Bit(bytes, 19) = 1 /\ Bit(bytes, 20) = 0 /\ Bit(bytes, 21) = 0 /\ Bit(bytes, 22) = 1
  BY <1>1, <1>2, <1>3, <1>4, Pow2Small
<1>6. /\ (9 \div Pow2(4 - 1)) % 2 = 1 /\ (9 \div Pow2(4 - 2)) % 2 = 0
      /\ (9 \div Pow2(4 - 3)) % 2 = 0 /\ (9 \div Pow2(4 - 4)) % 2 = 1
  BY Pow2Small
<1>7. ASSUME NEW j \in 1..4
      PROVE  Bit(bytes, 19 + j - 1) = (9 \div Pow2(4 - j)) % 2
  <2>1. \/ (j = 1 /\ 19 + j - 1 = 19) \/ (j = 2 /\ 19 + j - 1 = 20)
        \/ (j = 3 /\ 19 + j - 1 = 21) \/ (j = 4 /\ 19 + j - 1 = 22)
    OBVIOUS
  <2> QED
    BY ONLY <1>5, <1>6, <2>1, Zenon
<1> QED
  BY <1>7, Zenon DEF HasBits

(* Bit a of x is bit b of y.                                               *)
SameBit(x, a, y, b) == (x \div Pow2(a)) % 2 = (y \div Pow2(b)) % 2

LEMMA SampleBits ==
  ASSUME NEW lo \in 0..255, NEW hi \in 0..255, NEW v, v = lo + 256 * hi, NEW e \in 0..7
  PROVE  SameBit(v, 8 + e, hi, e) /\ SameBit(v, e, lo, e)
<1> DEFINE Q == Pow2(e)
           P == Pow2(8)
<1>0. P = 256
  BY Pow2Small
<1>1. v \in Nat /\ v = P * hi + lo /\ lo \in 0..(P - 1) /\ P \in Nat \ {0} /\ hi \in Nat
  BY <1>0
<1> HIDE DEF P
<1>2. v \div P = hi /\ v % P = lo
  BY ONLY <1>1, QuotientIs, Zenon
<1>3. Q \in Nat \ {0}
  BY Pow2Type
<1>4. Pow2(8 + e) = P * Q
  BY Pow2Add DEF P
<1>5. e \in 0..(8 - 1) /\ 8 \in 0..31
  OBVIOUS
<1>6. ((v % P) \div Q) % 2 = (v \div Q) % 2
  BY <1>1, <1>5, LowBits DEF P
<1> HIDE DEF Q
<1>7. (v \div P) \div Q = v \div (P * Q)
  BY ONLY <1>1, <1>3, DivDiv, Zenon
<1>8. (v \div Pow2(8 + e)) % 2 = (hi \div Q) % 2
  BY ONLY <1>2, <1>4, <1>7, Zenon
<1>9. (v \div Q) % 2 = (lo \div Q) % 2
  BY ONLY <1>2, <1>6, Zenon
<1> QED
  BY ONLY <1>8, <1>9, Zenon DEF Q, SameBit

(* The field of a sample is its bytes, the high one first.                 *)
LEMMA SampleBytes ==
  ASSUME NEW bytes, NEW at \in Nat, NEW lo \in 0..255, NEW hi \in 0..255,
         HasBits(bytes, at, 16, lo + 256 * hi)
  PROVE  HasBits(bytes, at, 8, hi) /\ HasBits(bytes, at + 8, 8, lo)
<1> DEFINE v == lo + 256 * hi
<1>0. v = lo + 256 * hi /\ lo \in 0..255 /\ hi \in 0..255
  OBVIOUS
<1>1. ASSUME NEW j \in 1..16
      PROVE  Bit(bytes, at + j - 1) = (v \div Pow2(16 - j)) % 2
  BY Zenon DEF HasBits
<1> HIDE DEF v
<1>2. ASSUME NEW j \in 1..8
      PROVE  /\ Bit(bytes, at + j - 1) = (hi \div Pow2(8 - j)) % 2
             /\ Bit(bytes, at + 8 + j - 1) = (lo \div Pow2(8 - j)) % 2
  <2> DEFINE e == 8 - j
             k == 8 + j
  <2>1. /\ e \in 0..7 /\ 8 + e = 16 - j /\ 16 - k = e
        /\ j \in 1..16 /\ k \in 1..16 /\ at + 8 + j - 1 = at + k - 1
    <3>1. at \in Nat /\ j \in 1..8
      OBVIOUS
    <3> QED
      BY ONLY <3>1
  <2> HIDE DEF e, k
  <2>2. /\ (v \div Pow2(8 + e)) % 2 = (hi \div Pow2(e)) % 2
        /\ (v \div Pow2(e)) % 2 = (lo \div Pow2(e)) % 2
    <3>1. SameBit(v, 8 + e, hi, e) /\ SameBit(v, e, lo, e)
      BY ONLY <1>0, <2>1, SampleBits, ZenonT(60)
    <3> QED
      BY ONLY <3>1, Zenon DEF SameBit
  <2>3. Bit(bytes, at + j - 1) = (v \div Pow2(16 - j)) % 2
    BY ONLY <1>1, <2>1, Zenon
  <2>4. Bit(bytes, at + k - 1) = (v \div Pow2(16 - k)) % 2
    BY ONLY <1>1, <2>1, Zenon
  <2> QED
    BY ONLY <2>1, <2>2, <2>3, <2>4, Zenon DEF e
<1> QED
  BY <1>2, Zenon DEF HasBits

(* What the fields of a frame can hold.                                    *)
LEMMA SmallFits ==
  /\ FitsIn(0, 3) /\ FitsIn(1, 3) /\ FitsIn(7, 3) /\ FitsIn(0, 16) /\ FitsIn(9, 4)
  /\ \A b \in 0..255 : FitsIn(b, 8)
<1>1. Pow2(3 - 1) = 4 /\ Pow2(16 - 1) = 32768 /\ Pow2(4 - 1) = 8 /\ Pow2(8 - 1) = 128
  BY DEF Pow2
<1>2. ASSUME NEW b \in 0..255
      PROVE  FitsIn(b, 8)
  <2>1. b \div 128 <= 1
    OBVIOUS
  <2> QED
    BY <1>1, <2>1 DEF FitsIn
<1> QED
  BY <1>1, <1>2 DEF FitsIn

(* What a receiver reads out of a frame is the frame: each field at its    *)
(* place, and the samples of the PCM.                                      *)
LEMMA FrameIsVerbatim ==
  ASSUME NEW channels \in {1, 2}, NEW frameSize \in FrameSizes,
         NEW raw \in [1..(2 * frameSize * channels) -> Bytes]
  PROVE  IsVerbatim(Encode(raw, frameSize, channels), raw, frameSize, channels)
<1> DEFINE F == Fields(raw, frameSize, channels)
           n == frameSize * channels
           w == Written(F)
           bytes == Flush(w)
           s == Start(n)
           end == HeadBits + 16 * n
<1>1. /\ n \in Nat
      /\ F \in Seq(Nat \X (1..32)) /\ Len(F) = n + 8
      /\ F[1] = <<channels - 1, 3>> /\ F[2] = <<0, 4>> /\ F[3] = <<0, 12>>
      /\ F[4] = <<1, 1>> /\ F[5] = <<0, 2>> /\ F[6] = <<1, 1>>
      /\ F[7] = <<frameSize, SizeBits>>
      /\ \A i \in 1..n :
           /\ raw[2 * i - 1] \in 0..255 /\ raw[2 * i] \in 0..255
           /\ F[7 + i] = <<raw[2 * i - 1] + 256 * raw[2 * i], 16>>
      /\ F[n + 8] = <<7, 3>>
  BY FieldsFacts
<1>2. Encode(raw, frameSize, channels) = bytes
  BY DEF Encode
<1>3. FitsIn(frameSize, SizeBits)
  BY FrameSizesAssumption
<1>4. HeadBits \in Nat /\ HeadBits = 23 + SizeBits /\ SizeBits \in 1..32
  BY SizeBitsAssumption DEF HeadBits
<1> HIDE DEF F, n
<1>5. Places(s, F)
  <2>1. /\ F[1][2] = 3 /\ F[2][2] = 4 /\ F[3][2] = 12 /\ F[4][2] = 1 /\ F[5][2] = 2
        /\ F[6][2] = 1 /\ F[7][2] = SizeBits /\ F[n + 8][2] = 3
    BY <1>1
  <2>2. ASSUME NEW i \in 1..n
        PROVE  F[7 + i][2] = 16
    <3>1. F[7 + i] = <<raw[2 * i - 1] + 256 * raw[2 * i], 16>>
      BY <1>1
    <3> QED
      BY ONLY <3>1
  <2> QED
    BY <1>1, <2>1, <2>2, StartPlaces
<1>6. /\ s[0] = 0 /\ s[1] = 3 /\ s[2] = 7 /\ s[3] = 19 /\ s[4] = 20 /\ s[5] = 22 /\ s[6] = 23
      /\ \A i \in 0..n : s[7 + i] = HeadBits + 16 * i
      /\ s[n + 8] = HeadBits + 16 * n + 3
  BY <1>1, StartIs
<1> HIDE DEF s, w
<1>7. Len(bytes) = ((end + 3) + 7) \div 8 /\ \A k \in DOMAIN bytes : bytes[k] \in 0..255
  <2>1. WellFormed(w) /\ Pos(w) = end + 3
    BY <1>1, <1>5, <1>6, FieldsAreWritten DEF Has, w
  <2>2. bytes \in Seq(0..255) /\ Len(bytes) = (Pos(w) + 7) \div 8
    BY <2>1, FlushFacts
  <2> HIDE DEF bytes, end
  <2>3. \A k \in DOMAIN bytes : bytes[k] \in 0..255
    <3>1. bytes \in Seq(0..255)
      BY <2>2
    <3>2. DOMAIN bytes = 1..Len(bytes)
      BY ONLY <3>1, LenProperties
    <3>3. \A k \in 1..Len(bytes) : bytes[k] \in 0..255
      BY ONLY <3>1, ElementOfSeq
    <3> QED
      BY ONLY <3>2, <3>3, Zenon
  <2> QED
    BY ONLY <2>1, <2>2, <2>3, Zenon
<1>8. /\ 1 \in 1..Len(F) /\ 2 \in 1..Len(F) /\ 3 \in 1..Len(F) /\ 4 \in 1..Len(F)
      /\ 5 \in 1..Len(F) /\ 6 \in 1..Len(F) /\ 7 \in 1..Len(F) /\ n + 8 \in 1..Len(F)
      /\ \A i \in 1..n : 7 + i \in 1..Len(F)
      /\ 1 - 1 = 0 /\ 2 - 1 = 1 /\ 3 - 1 = 2 /\ 4 - 1 = 3 /\ 5 - 1 = 4 /\ 6 - 1 = 5 /\ 7 - 1 = 6
  BY <1>1
<1>9. \A i \in 1..Len(F) : \A val, width :
        F[i] = <<val, width>> => HasBits(bytes, s[i - 1], width, val)
  BY <1>1, <1>5, FieldAt, Zenon DEF w
<1> HIDE DEF bytes
<1>10. /\ HasBits(bytes, s[1 - 1], 3, channels - 1)
       /\ HasBits(bytes, s[2 - 1], 4, 0)
       /\ HasBits(bytes, s[3 - 1], 12, 0)
       /\ HasBits(bytes, s[4 - 1], 1, 1)
       /\ HasBits(bytes, s[5 - 1], 2, 0)
       /\ HasBits(bytes, s[6 - 1], 1, 1)
       /\ HasBits(bytes, s[7 - 1], SizeBits, frameSize)
       /\ HasBits(bytes, s[(n + 8) - 1], 3, 7)
  BY ONLY <1>1, <1>8, <1>9, ZenonT(60)
<1>11. Holds(bytes, 0, 3, channels - 1)
  <2>1. HasBits(bytes, 0, 3, channels - 1)
    BY ONLY <1>6, <1>8, <1>10, Zenon
  <2>2. FitsIn(channels - 1, 3)
    <3>1. channels - 1 = 0 \/ channels - 1 = 1
      OBVIOUS
    <3> QED
      BY <3>1, SmallFits, Zenon
  <2> QED
    BY <2>1, <2>2, Zenon DEF Holds, HasBits
<1>12. Holds(bytes, 3, 16, 0)
  <2>1. HasBits(bytes, 3, 4, 0) /\ HasBits(bytes, 7, 12, 0)
    BY ONLY <1>6, <1>8, <1>10, Zenon
  <2> QED
    BY <2>1, ZeroRun, SmallFits, Zenon DEF Holds, HasBits
<1>13. Holds(bytes, 19, 4, 9)
  <2>1. HasBits(bytes, 19, 1, 1) /\ HasBits(bytes, 20, 2, 0) /\ HasBits(bytes, 22, 1, 1)
    BY ONLY <1>6, <1>8, <1>10, Zenon
  <2> QED
    BY <2>1, Flags, SmallFits, Zenon DEF Holds, HasBits
<1>14. Holds(bytes, 23, SizeBits, frameSize)
  <2>1. HasBits(bytes, 23, SizeBits, frameSize)
    BY ONLY <1>6, <1>8, <1>10, Zenon
  <2> QED
    BY <1>3, <2>1, Zenon DEF Holds, HasBits
<1>15. ASSUME NEW i \in 1..n
       PROVE  /\ Holds(bytes, HeadBits + 16 * (i - 1), 8, raw[2 * i])
              /\ Holds(bytes, HeadBits + 16 * (i - 1) + 8, 8, raw[2 * i - 1])
  <2> DEFINE lo == raw[2 * i - 1]
             hi == raw[2 * i]
             at == HeadBits + 16 * (i - 1)
  <2>1. lo \in 0..255 /\ hi \in 0..255 /\ F[7 + i] = <<lo + 256 * hi, 16>>
    BY <1>1
  <2>2. s[(7 + i) - 1] = at /\ at \in Nat
    <3>1. i - 1 \in 0..n /\ (7 + i) - 1 = 7 + (i - 1)
      BY <1>1
    <3> QED
      BY <1>4, <1>6, <3>1
  <2> HIDE DEF lo, hi, at
  <2>3. HasBits(bytes, at, 16, lo + 256 * hi)
    <3>1. 7 + i \in 1..Len(F)
      BY <1>8
    <3> QED
      BY ONLY <1>9, <2>1, <2>2, <3>1, Zenon
  <2>4. HasBits(bytes, at, 8, hi) /\ HasBits(bytes, at + 8, 8, lo)
    BY <2>1, <2>2, <2>3, SampleBytes, ZenonT(60)
  <2>5. Holds(bytes, at, 8, hi) /\ Holds(bytes, at + 8, 8, lo)
    BY <2>1, <2>4, SmallFits, Zenon DEF Holds, HasBits
  <2> QED
    BY <2>5 DEF at, hi, lo
<1>16. Holds(bytes, end, 3, 7)
  <2>1. s[(n + 8) - 1] = end
    <3>1. n \in 0..n /\ (n + 8) - 1 = 7 + n
      BY <1>1
    <3> QED
      BY <1>6, <3>1
  <2> HIDE DEF end
  <2> QED
    BY <1>10, <2>1, SmallFits, Zenon DEF Holds, HasBits
<1>17. /\ HeadBits = 23 + SizeBits /\ end + 3 = (23 + SizeBits) + 16 * (frameSize * channels) + 3
       /\ ((23 + SizeBits) + 16 * (frameSize * channels) + 3) - 3 = end
  <2>1. n = frameSize * channels
    BY DEF n
  <2>2. end \in Nat
    BY <1>1, <1>4
  <2>3. (end + 3) - 3 = end
    BY <2>2
  <2> QED
    BY <1>4, <2>1, <2>3
<1> HIDE DEF end
<1> QED
  BY <1>2, <1>7, <1>11, <1>12, <1>13, <1>14, <1>15, <1>16, <1>17 DEF IsVerbatim, n

(* Every frame that encode_alac_verbatim packs holds its PCM, for frames   *)
(* and samples of any size and number that the header can say: no field    *)
(* runs into the next one's bits, and none is cut at a byte's end.         *)
THEOREM FramesVerbatim == Spec => []FramesAreVerbatim
<1>1. AllVerbatim
  BY FrameIsVerbatim, Zenon DEF AllVerbatim
<1>2. FramesAreVerbatim
  BY <1>1 DEF FramesAreVerbatim
<1> QED
  BY <1>2, PTL
=============================================================================
