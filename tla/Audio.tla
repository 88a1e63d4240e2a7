-------------------------------- MODULE Audio --------------------------------
(***************************************************************************)
(* The sound of one mirror (src/rust/airfry/src/audio.rs): the audio       *)
(* capture, whose callback runs on GStreamer's thread; stream_audio, on the *)
(* session's audio thread, which cuts the capture into frames and sends    *)
(* them, without ChaCha each of them twice; and the sync thread, which     *)
(* tells the receiver what is to be heard now.  The two threads share the  *)
(* AudioStream behind its lock: what is done under the lock is one step.   *)
(*                                                                         *)
(* Time is counted in samples.  A sample (of all channels) is named by its *)
(* place in what the capture delivers, and a frame by its samples.         *)
(***************************************************************************)
EXTENDS Alac

CONSTANTS
  Spf,       \* AUDIO_SPF: the samples of a frame
  Depth,     \* RETRANSMIT_DEPTH
  RtpMod,    \* 2^32: RTP times wrap there
  SeqMod,    \* 2^16: sequence numbers wrap there
  Targets,   \* target latencies, in samples
  Floor,     \* CONSERVATIVE_PLAYOUT_LATENCY, in samples
  Reported,  \* latencies that receivers report; 0 for none
  Samples,   \* the most samples that are captured (a bound)
  Backlog    \* the most that wait for the audio thread (a bound)

ASSUME SpfAssumption == Spf \in Nat \ {0}
ASSUME DepthAssumption == Depth \in Nat \ {0}
ASSUME ModAssumption == RtpMod \in Nat \ {0} /\ SeqMod \in Nat \ {0, 1}
ASSUME LatencyAssumption ==
         /\ Targets \subseteq 1..(RtpMod - 1)
         /\ Floor \in 1..(RtpMod - 1)
         /\ Reported \subseteq 0..(RtpMod - 1)
ASSUME BoundsAssumption == Samples \in Nat /\ Backlog \in Nat

VARIABLES
  \* the session: what it agreed with the receiver, and its two flags
  chacha,      \* AudioStream.chacha is there: the session is encrypted
  latency,     \* latency_samples
  firstFrame, stop,
  \* the AudioCapture
  captured,    \* how many samples it has captured
  chan,        \* those in the channel to the audio thread
  pcm,         \* those in pcm
  \* the AudioStream
  rtpTime,     \* rtp_time
  nextNonce,   \* chacha_nonce
  \* the audio thread: where it stands, and the locals of stream_audio
  pc,
  stale,       \* (history) how many samples there were when the drain began
  payload,     \* the frame that it is about to send
  frameSeq, nextRtp,
  buf, idx,    \* retransmit_buf, retransmit_idx
  burstDone,
  \* the sync thread
  syncPc,
  \* what was sent: the packets with sound, and the last sync packet
  sent,
  sync

sessionVars == <<chacha, latency, firstFrame, stop>>
captureVars == <<captured, chan, pcm>>
streamVars == <<rtpTime, nextNonce>>
frameVars == <<stale, payload, frameSeq, nextRtp, buf, idx, burstDone>>
vars == <<sessionVars, captureVars, streamVars, pc, frameVars, syncPc, sent, sync>>

Frames == Seq(1..Samples)
Packets == [payload : Frames, rtp : 0..(RtpMod - 1), seq : 0..(SeqMod - 1),
            nonce : Nat]
Syncs == [kind : {"none", "first", "later"}, head : 0..(RtpMod - 1),
          position : 0..(RtpMod - 1)]

TypeOK ==
  /\ chacha \in BOOLEAN
  /\ latency \in 1..(RtpMod - 1)
  /\ firstFrame \in BOOLEAN
  /\ stop \in BOOLEAN
  /\ captured \in 0..Samples
  /\ chan \in Frames
  /\ pcm \in Frames
  /\ rtpTime \in 0..(RtpMod - 1)
  /\ nextNonce \in Nat
  /\ pc \in {"gate", "burst", "start", "drain", "check", "read", "resend",
             "send", "ended"}
  /\ stale \in 0..Samples
  /\ payload \in Frames
  /\ frameSeq \in 0..(SeqMod - 1)
  /\ nextRtp \in 0..(RtpMod - 1)
  /\ buf \in [0..(Depth - 1) -> Packets]
  /\ idx \in 0..(Depth - 1)
  /\ burstDone \in BOOLEAN
  /\ syncPc \in {"none", "check", "asleep", "send", "ended"}
  /\ sent \in Seq(Packets)
  /\ sync \in Syncs

(* The session's latency: the target, with a floor for receivers without   *)
(* FairPlay SAP, or what the receiver reports in its answer to RECORD.     *)
SessionLatency(target, sap, reported) ==
  LET least == IF sap THEN 0 ELSE Floor
  IN  IF reported > 0 THEN reported
      ELSE IF target < least THEN least ELSE target

(* AudioFrame::default()                                                   *)
NoFrame == [payload |-> <<>>, rtp |-> 0, seq |-> 0, nonce |-> 0]

(* AudioCapture::start: the capture plays, and nothing has come of it yet.  *)
CaptureStarted ==
  /\ captured = 0
  /\ chan = <<>>
  /\ pcm = <<>>

(* The audio thread starts with a capture that is playing already.         *)
Init ==
  /\ chacha \in BOOLEAN
  /\ latency \in { SessionLatency(t, sap, r) :
                     t \in Targets, sap \in BOOLEAN, r \in Reported }
  /\ firstFrame = FALSE
  /\ stop = FALSE
  /\ CaptureStarted
  /\ rtpTime = 0
  /\ nextNonce = 0
  /\ pc = "gate"
  /\ stale = 0
  /\ payload = <<>>
  /\ frameSeq = 1
  /\ nextRtp = 0
  /\ buf = [i \in 0..(Depth - 1) |-> NoFrame]
  /\ idx = 0
  /\ burstDone = FALSE
  /\ syncPc = "none"
  /\ sent = <<>>
  /\ sync = [kind |-> "none", head |-> 0, position |-> 0]

-----------------------------------------------------------------------------
(***************************************************************************)
(* The session and the capture.                                            *)
(***************************************************************************)

(* The video thread has sent its first frame.                              *)
FirstFrame ==
  /\ ~firstFrame
  /\ firstFrame' = TRUE
  /\ UNCHANGED <<chacha, latency, stop, captureVars, streamVars, pc, frameVars,
                 syncPc, sent, sync>>

Stop ==
  /\ ~stop
  /\ stop' = TRUE
  /\ UNCHANGED <<chacha, latency, firstFrame, captureVars, streamVars, pc,
                 frameVars, syncPc, sent, sync>>

(* new_sample: the channel takes any number of samples.  (Where one chunk  *)
(* ends and the next begins is left to who receives them.)                 *)
NewSample ==
  /\ captured < Samples
  /\ Len(chan) < Backlog
  /\ captured' = captured + 1
  /\ chan' = Append(chan, captured')
  /\ UNCHANGED <<sessionVars, pcm, streamVars, pc, frameVars, syncPc, sent, sync>>

-----------------------------------------------------------------------------
(***************************************************************************)
(* AudioStream: what is done under its lock.                               *)
(***************************************************************************)

AdvanceAlways(rtp) == rtp

(* rtp_time only advances forward.                                         *)
Advance(rtp) == IF rtp >= rtpTime THEN rtp ELSE rtpTime

NonceIsSeq(seq) == seq

(* next_chacha_nonce: the default mode is the counter.                     *)
Nonce(seq) == nextNonce

(* send_packet, of a new frame or (again) of one that was sent before.     *)
SendPacket(packet, again) ==
  /\ sent' = Append(sent, packet)
  /\ rtpTime' = Advance(packet.rtp)
  /\ nextNonce' = IF chacha /\ ~again THEN nextNonce + 1 ELSE nextNonce

PositionIsHead(head) == head

(* What a sync packet says is to be heard now.                             *)
Position(head) == IF head >= latency THEN head - latency ELSE head

SyncPacket(kind) ==
  [kind |-> kind, head |-> rtpTime, position |-> Position(rtpTime)]

-----------------------------------------------------------------------------
(***************************************************************************)
(* stream_audio.                                                           *)
(***************************************************************************)

(* It waits for the first frame of video, looking for it and for the stop  *)
(* flag in turn.                                                           *)
GateOpens ==
  /\ pc = "gate"
  /\ firstFrame
  /\ pc' = "burst"
  /\ UNCHANGED <<sessionVars, captureVars, streamVars, frameVars, syncPc, sent,
                 sync>>

GateStops ==
  /\ pc = "gate"
  /\ stop
  /\ pc' = "ended"
  /\ UNCHANGED <<sessionVars, captureVars, streamVars, frameVars, syncPc, sent,
                 sync>>

(* The seven sync packets, all alike.                                      *)
SyncBurst ==
  /\ pc = "burst"
  /\ sync' = SyncPacket("first")
  /\ pc' = "start"
  /\ UNCHANGED <<sessionVars, captureVars, streamVars, frameVars, syncPc, sent>>

(* RTP time starts at the latency, the sync thread starts, and the drain   *)
(* begins with what is in pcm.                                             *)
StartData ==
  /\ pc = "start"
  /\ rtpTime' = latency
  /\ nextRtp' = latency
  /\ syncPc' = "check"
  /\ pcm' = <<>>
  /\ stale' = captured
  /\ pc' = "drain"
  /\ UNCHANGED <<sessionVars, captured, chan, nextNonce, payload, frameSeq, buf,
                 idx, burstDone, sent, sync>>

(* What follows the first n elements.                                      *)
After(s, n) == SubSeq(s, n + 1, Len(s))

DrainChunk ==
  /\ pc = "drain"
  /\ \E n \in 1..Len(chan) : chan' = After(chan, n)
  /\ UNCHANGED <<sessionVars, captured, pcm, streamVars, pc, frameVars, syncPc,
                 sent, sync>>

DrainOneChunk ==
  /\ pc = "drain"
  /\ pc' = "check"
  /\ UNCHANGED <<sessionVars, captureVars, streamVars, frameVars, syncPc, sent,
                 sync>>

(* drain_stale is over when nothing has come for a moment.                 *)
DrainEnds ==
  /\ pc = "drain"
  /\ chan = <<>>
  /\ pc' = "check"
  /\ UNCHANGED <<sessionVars, captureVars, streamVars, frameVars, syncPc, sent,
                 sync>>

Check ==
  /\ pc = "check"
  /\ pc' = IF stop THEN "ended" ELSE "read"
  /\ UNCHANGED <<sessionVars, captureVars, streamVars, frameVars, syncPc, sent,
                 sync>>

(* read_frame takes chunks until it has a frame...                         *)
ReadChunk ==
  /\ pc = "read"
  /\ Len(pcm) < Spf
  /\ \E n \in 1..Len(chan) :
       /\ pcm' = pcm \o SubSeq(chan, 1, n)
       /\ chan' = After(chan, n)
  /\ UNCHANGED <<sessionVars, captured, streamVars, pc, frameVars, syncPc, sent,
                 sync>>

(* use_audio_fec                                                           *)
UseFec == ~chacha

(* ...and takes the frame from them.                                       *)
ReadFrame ==
  /\ pc = "read"
  /\ Len(pcm) >= Spf
  /\ payload' = SubSeq(pcm, 1, Spf)
  /\ pcm' = After(pcm, Spf)
  /\ pc' = IF UseFec /\ burstDone THEN "resend" ELSE "send"
  /\ UNCHANGED <<sessionVars, captured, chan, streamVars, stale, frameSeq,
                 nextRtp, buf, idx, burstDone, syncPc, sent, sync>>

(* Once the buffer is full, the oldest frame in it goes first, again...    *)
Resend ==
  /\ pc = "resend"
  /\ SendPacket(buf[idx], TRUE)
  /\ pc' = "send"
  /\ UNCHANGED <<sessionVars, captureVars, frameVars, syncPc, sync>>

(* AudioFrame of the frame that is about to be sent.                       *)
NewFrame ==
  [payload |-> payload, rtp |-> nextRtp, seq |-> frameSeq,
   nonce |-> IF chacha THEN Nonce(frameSeq) ELSE 0]

BufferFullEarly == idx + 2 >= Depth

(* The slot that was written is the buffer's last.                         *)
BufferFull == idx + 1 >= Depth

(* ...then the new frame, which takes its slot.                            *)
Send ==
  /\ pc = "send"
  /\ SendPacket(NewFrame, FALSE)
  /\ IF UseFec
       THEN /\ buf' = [buf EXCEPT ![idx] = NewFrame]
            /\ idx' = IF BufferFull THEN 0 ELSE idx + 1
            /\ burstDone' = (burstDone \/ BufferFull)
       ELSE UNCHANGED <<buf, idx, burstDone>>
  /\ frameSeq' = (frameSeq + 1) % SeqMod
  /\ nextRtp' = (nextRtp + Spf) % RtpMod
  /\ pc' = "check"
  /\ UNCHANGED <<sessionVars, captureVars, stale, payload, syncPc, sync>>

(* A packet cannot be sent, which ends the audio.                          *)
SendFails ==
  /\ pc \in {"resend", "send"}
  /\ pc' = "ended"
  /\ UNCHANGED <<sessionVars, captureVars, streamVars, frameVars, syncPc, sent,
                 sync>>

-----------------------------------------------------------------------------
(***************************************************************************)
(* The sync thread looks for the stop flag before and after it sleeps.     *)
(***************************************************************************)

SyncCheck ==
  /\ syncPc = "check"
  /\ syncPc' = IF stop THEN "ended" ELSE "asleep"
  /\ UNCHANGED <<sessionVars, captureVars, streamVars, pc, frameVars, sent, sync>>

SyncWakes ==
  /\ syncPc = "asleep"
  /\ syncPc' = IF stop THEN "ended" ELSE "send"
  /\ UNCHANGED <<sessionVars, captureVars, streamVars, pc, frameVars, sent, sync>>

SyncSends ==
  /\ syncPc = "send"
  /\ sync' = SyncPacket("later")
  /\ syncPc' = "check"
  /\ UNCHANGED <<sessionVars, captureVars, streamVars, pc, frameVars, sent>>

Session == FirstFrame \/ Stop
AudioThread ==
  \/ GateOpens
  \/ GateStops
  \/ SyncBurst
  \/ StartData
  \/ DrainChunk
  \/ DrainEnds
  \/ Check
  \/ ReadChunk
  \/ ReadFrame
  \/ Resend
  \/ Send
  \/ SendFails
SyncThread == SyncCheck \/ SyncWakes \/ SyncSends

Next == Session \/ NewSample \/ AudioThread \/ SyncThread

Spec == Init /\ [][Next]_vars

-----------------------------------------------------------------------------
(***************************************************************************)
(* Properties.                                                             *)
(***************************************************************************)

(* Where in sent the n-th frame goes out for the first time: with FEC, the *)
(* burst fills the buffer, and then each new frame has an old one before   *)
(* it.                                                                     *)
Place(n) == IF UseFec /\ n > Depth THEN 2 * n - Depth ELSE n

(* The n-th frame has gone out.                                            *)
Sent(n) == Place(n) \in DOMAIN sent

(* The samples of s are as they were captured, in order and without a gap. *)
Consecutive(s) == \A i \in 1..(Len(s) - 1) : s[i + 1] = s[i] + 1

(* The second frame's first sample is the next after the first's last, and *)
(* its RTP time and sequence number are the next ones.                     *)
Follows(f, g) ==
  /\ g.payload[1] = f.payload[Spf] + 1
  /\ g.rtp = (f.rtp + Spf) % RtpMod
  /\ g.seq = (f.seq + 1) % SeqMod

(* What the receiver can put together is one stretch of the capture on one *)
(* timeline: it begins with samples that were captured after the drain     *)
(* began, at the latency, and no frame is missing, cut short or out of     *)
(* place, whatever the chunks it came in and however often numbers wrap.   *)
OneTimeline ==
  \A n \in 1..Len(sent) : Sent(n) =>
    LET f == sent[Place(n)]
    IN  /\ Len(f.payload) = Spf
        /\ Consecutive(f.payload)
        /\ IF n = 1 THEN /\ f.payload[1] > stale
                         /\ f.rtp = latency
                         /\ f.seq = 1
                    ELSE Follows(sent[Place(n - 1)], f)

(* With FEC every frame goes out twice: when it leaves the buffer, for the *)
(* frame Depth after it, exactly the packet that was sent is sent again.   *)
SentTwice ==
  UseFec => \A n \in 1..Len(sent) : n > Depth /\ Place(n) - 1 \in DOMAIN sent =>
              sent[Place(n) - 1] = sent[Place(n - Depth)]

(* Under ChaCha no two packets have the same nonce, whatever happens to    *)
(* their sequence numbers.                                                 *)
NonceForOneFrame ==
  chacha => \A i, j \in DOMAIN sent : sent[i].nonce = sent[j].nonce => i = j

(* How many frames have gone out.                                          *)
Count == IF UseFec /\ Len(sent) > Depth THEN (Len(sent) + Depth) \div 2
                                        ELSE Len(sent)

(* RTP times have not come to their end yet.                               *)
Unwrapped == latency + Count * Spf < RtpMod

(* What a sync packet says is true, in the middle of a frame and its       *)
(* resend too: the head is the RTP time of the newest frame (of the first  *)
(* one, before there is any), and the position is the latency behind it.   *)
SyncsAreTrue ==
  [][ sync' # sync /\ sync'.kind = "later" /\ Unwrapped =>
        /\ sync'.position + latency = sync'.head
        /\ sync'.head = IF Count = 0 THEN latency ELSE sent[Place(Count)].rtp ]_vars

(* A frame that is sent again still has its time to come, by what the last *)
(* sync packet said is to be heard now, if the latency is that of the      *)
(* frames between.                                                         *)
ResendsComeInTime ==
  [][ latency >= (Depth - 1) * Spf /\ Unwrapped /\ sent' # sent =>
        sent'[Len(sent')].rtp >= sync.position ]_vars

(* Every frame of PCM that encode_alac_verbatim packs can be read by a     *)
(* receiver as it was captured.  (The encoder has no state: it is enough   *)
(* to look at it as the audio starts.)                                     *)
FramesAreVerbatim == Init => AllVerbatim
=============================================================================
