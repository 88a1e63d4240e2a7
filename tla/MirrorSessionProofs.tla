------------------------ MODULE MirrorSessionProofs -------------------------
(***************************************************************************)
(* Proofs about MirrorSession, for any set of threads and of callers.  The *)
(* invariant comes in layers: types, the gate of the first frame, the end  *)
(* of the session, and the mute flag.  Each layer is preserved under those *)
(* before it.                                                              *)
(***************************************************************************)
EXTENDS MirrorSession, TLAPS

USE ThreadsAssumption, TogetherAssumption, MuteAssumption, CallerAssumption

-----------------------------------------------------------------------------
(***************************************************************************)
(* The inductive invariant.                                                *)
(***************************************************************************)

(* Only the listener is ever in accept, and whatever opens the gate comes  *)
(* after the codec packet.                                                 *)
GateInv ==
  /\ first => codec
  /\ pc = "open" => codec
  /\ \A t \in Threads : thread[t] = "accepting" => t = "accept"
  /\ FirstFrameFirst

(* The channel is locked only while there is one, and none is left when    *)
(* TEARDOWN goes out.  By then stop is set and the audio thread has ended. *)
EndInv ==
  /\ \A c \in Clients : call[c] = "holding" => bound
  /\ pc \in {"teardown", "done"} => ~bound
  /\ pc \in {"join", "unbind", "teardown", "done"} => stop
  /\ pc \in {"unbind", "teardown", "done"} =>
       \A t \in Threads : t = "audio" => thread[t] \in {"none", "ended"}
  /\ torn => pc = "done"
  /\ late # {} => torn
  /\ TeardownIsLast

(* Until the channel is there, the receiver has its first volume.  Unless  *)
(* calls clash, the flag is what they agree on, and once the channel is    *)
(* there the receiver knows of it or is about to be told: by the setup, if *)
(* it has not looked at the flag yet, or by a call under way.              *)
MuteInv ==
  /\ pc \in Setup \ {"load", "apply", "spawn", "audio", "source"} =>
       ~bound /\ volume = "on"
  /\ pc = "load" => bound
  /\ agreed # "clash" =>
       /\ pc # "called" => agreed = Level(muted)
       /\ \A c \in Clients : call[c] # "idle" => agreed = Level(wish[c])
       /\ pc = "apply" => agreed = "muted"
       /\ bound /\ pc # "apply" /\ (pc = "load" => agreed = "on") =>
            volume \in {agreed, "unknown"} \/ \E c \in Clients : call[c] # "idle"

IInv == TypeOK /\ GateInv /\ EndInv

-----------------------------------------------------------------------------
(* Types.                                                                  *)

LEMMA TypeInit == Init => TypeOK
<1> SUFFICES ASSUME Init PROVE TypeOK
  OBVIOUS
<1> USE DEF Init
<1>1. /\ thread \in [Threads -> Places]
      /\ call \in [Clients -> {"idle", "stored", "holding"}]
      /\ wish \in [Clients -> BOOLEAN]
  BY DEF Places
<1>2. pc \in Setup /\ agreed \in {"on", "muted"} /\ misses \in 0..2
  BY DEF Setup, Level
<1> QED
  BY <1>1, <1>2 DEF TypeOK

LEMMA StartedType ==
  ASSUME TypeOK, NEW S
  PROVE  Started(S) \in [Threads -> Places]
<1>1. \A t \in Threads : Entry(t) \in Places
  BY DEF Entry, Places, Tickers, Readers
<1> QED
  BY <1>1 DEF Started, TypeOK

LEMMA TypeStep == TypeOK /\ [Next]_vars => TypeOK'
<1> SUFFICES ASSUME TypeOK, [Next]_vars PROVE TypeOK'
  OBVIOUS
<1> USE DEF TypeOK, control, remote
<1>1. ASSUME NEW from, NEW to \in Setup \cup Stream \cup Wind \cup {"failed"}, NEW S,
             Advance(from, to, S)
      PROVE  TypeOK'
  BY <1>1, StartedType DEF Advance
<1>2. CASE AllocatePorts \/ ListenForEvents \/ SetupAudio \/ SetupVideo \/ ConnectData
           \/ Record \/ StartLoops \/ StartAudio \/ OpenSource \/ SourceFails
  BY <1>1, <1>2 DEF AllocatePorts, ListenForEvents, SetupAudio, SetupVideo, ConnectData,
     Record, StartLoops, StartAudio, OpenSource, SourceFails, Setup, Stream
<1>3. CASE Seed \/ Bind \/ LoadMute \/ ApplyMute \/ Fail
  <2>1. CASE Seed
    BY <2>1 DEF Seed, Level, Setup
  <2>2. CASE Bind
    BY <2>2 DEF Bind, Setup
  <2>3. CASE LoadMute \/ Fail
    BY <2>3 DEF LoadMute, Fail, Setup
  <2>4. CASE ApplyMute
    BY <2>4 DEF ApplyMute, SendVolume, Setup
  <2> QED
    BY <1>3, <2>1, <2>2, <2>3, <2>4
<1>4. CASE CheckStop \/ Read \/ SendCodec \/ OpenGate
  <2>1. CASE CheckStop
    BY <2>1 DEF CheckStop, Stream, Wind
  <2>2. CASE Read
    BY <2>2 DEF Read, Stream, Wind
  <2>3. CASE SendCodec
    BY <2>3 DEF SendCodec, Stream, Wind
  <2>4. CASE OpenGate
    BY <2>4 DEF OpenGate, Stream, Wind
  <2> QED
    BY <1>4, <2>1, <2>2, <2>3, <2>4
<1>5. CASE Leave \/ Join \/ Unbind \/ Teardown
  <2>1. CASE Leave
    BY <2>1 DEF Leave, Wind
  <2>2. CASE Join
    BY <2>2 DEF Join, Wind
  <2>3. CASE Unbind
    BY <2>3 DEF Unbind, Wind
  <2>4. CASE Teardown
    BY <2>4 DEF Teardown, Wind
  <2> QED
    BY <1>5, <2>1, <2>2, <2>3, <2>4
<1>6. CASE \E t \in Threads : Accept(t) \/ Quit(t) \/ Wake(t) \/ ReaderReads(t)
  BY <1>6 DEF Accept, Quit, Wake, ReaderReads, Move, Places
<1>7. CASE \E t \in Threads : PassGate(t)
  BY <1>7, StartedType DEF PassGate, Places
<1>8. CASE \E t \in Threads :
             Tick(t) \/ DataTick(t) \/ TellTime(t) \/ ReadEvents(t) \/ AudioReads(t)
  BY <1>8 DEF Tick, DataTick, TellTime, ReadEvents, AudioReads, Move, SentBy, Places
<1>9. CASE \E t \in Threads : HeartbeatTick(t)
  BY <1>9 DEF HeartbeatTick, Move, SentBy, Places
<1>10. CASE Stop
  BY <1>10 DEF Stop
<1>11. ASSUME NEW c \in Clients,
              LockChannel(c) \/ RequestVolume(c) \/ \E m \in BOOLEAN : SetMuted(c, m)
       PROVE  TypeOK'
  <2>1. CASE LockChannel(c)
    <3>1. call' \in [Clients -> {"idle", "stored", "holding"}] /\ wish' \in [Clients -> BOOLEAN]
      BY <2>1 DEF LockChannel, Return
    <3> QED
      BY <2>1, <3>1 DEF LockChannel
  <2>2. CASE RequestVolume(c)
    <3>1. volume' \in {"on", "muted", "unknown"}
      BY <2>2 DEF RequestVolume, SendVolume, Level
    <3> QED
      BY <2>2, <3>1 DEF RequestVolume, Return, SentBy
  <2>3. CASE \E m \in BOOLEAN : SetMuted(c, m)
    BY <2>3 DEF SetMuted, Level
  <2> QED
    BY <1>11, <2>1, <2>2, <2>3
<1>12. CASE UNCHANGED vars
  BY <1>12 DEF vars
<1> QED
  BY <1>2, <1>3, <1>4, <1>5, <1>6, <1>7, <1>8, <1>9, <1>10, <1>11, <1>12
     DEF Next, MainStep, ThreadStep, ClientStep

-----------------------------------------------------------------------------
(***************************************************************************)
(* The steps, grouped by what they can disturb.                            *)
(***************************************************************************)

(* Steps of the setup, and none of the others, start threads.              *)
SetupStep ==
  \E from \in Setup \ {"called", "load", "apply"},
     to \in (Setup \ {"called"}) \cup {"stream", "failed"} :
    \E S \in SUBSET {"ntp", "accept", "event", "drain", "data", "heartbeat", "feedback", "audio"} :
      Advance(from, to, S)

LEMMA SetupSteps ==
  ASSUME AllocatePorts \/ ListenForEvents \/ SetupAudio \/ SetupVideo \/ ConnectData
         \/ Record \/ StartLoops \/ StartAudio \/ OpenSource \/ SourceFails
  PROVE  SetupStep
BY DEF AllocatePorts, ListenForEvents, SetupAudio, SetupVideo, ConnectData,
   Record, StartLoops, StartAudio, OpenSource, SourceFails, SetupStep, Setup

-----------------------------------------------------------------------------
(* The gate of the first frame.                                            *)

LEMMA GateInit == Init => GateInv
BY DEF Init, GateInv, FirstFrameFirst

LEMMA GateStep == TypeOK /\ GateInv /\ [Next]_vars => GateInv'
<1> SUFFICES ASSUME TypeOK, GateInv, [Next]_vars PROVE GateInv'
  OBVIOUS
<1> USE DEF GateInv, FirstFrameFirst, control, remote
<1>1. CASE SetupStep
  <2> PICK from \in Setup \ {"called", "load", "apply"},
           to \in (Setup \ {"called"}) \cup {"stream", "failed"},
           S \in SUBSET {"ntp", "accept", "event", "drain", "data", "heartbeat", "feedback", "audio"} :
        Advance(from, to, S)
    BY <1>1 DEF SetupStep
  <2>1. ASSUME NEW t \in Threads
        PROVE  /\ thread'[t] = "accepting" => t = "accept"
               /\ t \in {"data", "audio", "sync"} /\ thread'[t] \in {"idle", "busy"} => codec
    <3>1. CASE t \in S
      BY <3>1 DEF Advance, Started, Entry
    <3>2. CASE t \notin S
      BY <3>2 DEF Advance, Started
    <3> QED
      BY <3>1, <3>2
  <2> QED
    BY <2>1 DEF Advance, Setup
<1>2. CASE Seed \/ Bind \/ LoadMute \/ ApplyMute \/ Fail
  BY <1>2 DEF Seed, Bind, LoadMute, ApplyMute, SendVolume, Fail
<1>3. CASE CheckStop \/ Read \/ SendCodec \/ OpenGate
  BY <1>3 DEF CheckStop, Read, SendCodec, OpenGate
<1>4. CASE Leave \/ Join \/ Unbind \/ Teardown
  BY <1>4 DEF Leave, Join, Unbind, Teardown
<1>5. CASE \E t \in Threads : Accept(t) \/ Quit(t) \/ Wake(t) \/ ReaderReads(t)
  BY <1>5 DEF Accept, Quit, Wake, ReaderReads, Move, TypeOK
<1>6. ASSUME NEW t \in Threads, PassGate(t)
      PROVE  GateInv'
  <2>1. codec
    BY <1>6 DEF PassGate
  <2>2. ASSUME NEW u \in Threads, thread'[u] = "accepting"
        PROVE  u = "accept"
    BY <1>6, <2>2 DEF PassGate, Started, Entry, TypeOK
  <2> QED
    BY <1>6, <2>1, <2>2 DEF PassGate
<1>7. CASE \E t \in Threads :
             \/ Tick(t) \/ DataTick(t) \/ HeartbeatTick(t)
             \/ TellTime(t) \/ ReadEvents(t) \/ AudioReads(t)
  BY <1>7 DEF Tick, DataTick, HeartbeatTick, TellTime, ReadEvents, AudioReads, Move, TypeOK
<1>8. CASE Stop
  BY <1>8 DEF Stop
<1>9. CASE \E c \in Clients : ClientStep(c) \/ \E m \in BOOLEAN : SetMuted(c, m)
  BY <1>9 DEF ClientStep, LockChannel, RequestVolume, SetMuted, SendVolume
<1>10. CASE UNCHANGED vars
  BY <1>10 DEF vars
<1> QED
  BY <1>1, <1>2, <1>3, <1>4, <1>5, <1>6, <1>7, <1>8, <1>9, <1>10, SetupSteps
     DEF Next, MainStep, ThreadStep

-----------------------------------------------------------------------------
(* The end of the session.                                                 *)

LEMMA EndInit == Init => EndInv
BY DEF Init, EndInv, TeardownIsLast

(* Before TEARDOWN, nobody is late; nobody becomes late.                   *)
LEMMA NotLate ==
  ASSUME TypeOK, EndInv, ~torn, UNCHANGED late
  PROVE  late' = {}
BY DEF EndInv

LEMMA EndStep == TypeOK /\ EndInv /\ [Next]_vars => EndInv'
<1> SUFFICES ASSUME TypeOK, EndInv, [Next]_vars PROVE EndInv'
  OBVIOUS
<1> USE DEF EndInv, control, remote
<1>1. CASE SetupStep
  <2>1. PICK from \in Setup \ {"called", "load", "apply"},
           to \in (Setup \ {"called"}) \cup {"stream", "failed"},
             S \in SUBSET {"ntp", "accept", "event", "drain", "data", "heartbeat", "feedback", "audio"} :
          Advance(from, to, S)
    BY <1>1 DEF SetupStep
  <2>2. ~torn /\ late' = {}
    BY <2>1, NotLate DEF Advance, Setup
  <2> QED
    BY <2>1, <2>2 DEF Advance, Setup, TeardownIsLast
<1>2. CASE Seed \/ Bind \/ LoadMute \/ ApplyMute \/ Fail
  <2>1. ~torn /\ late' = {}
    BY <1>2, NotLate DEF Seed, Bind, LoadMute, ApplyMute, Fail
  <2> QED
    BY <1>2, <2>1 DEF Seed, Bind, LoadMute, ApplyMute, SendVolume, Fail, TeardownIsLast
<1>3. CASE CheckStop \/ Read \/ SendCodec \/ OpenGate \/ Leave \/ Join \/ Unbind
  <2>1. ~torn /\ late' = {}
    BY <1>3, NotLate DEF CheckStop, Read, SendCodec, OpenGate, Leave, Join, Unbind
  <2>2. CASE CheckStop \/ Read \/ SendCodec \/ OpenGate
    BY <2>1, <2>2 DEF CheckStop, Read, SendCodec, OpenGate, TeardownIsLast
  <2>3. CASE Leave \/ Join \/ Unbind
    BY <2>1, <2>3 DEF Leave, Join, Unbind, Unlocked, TeardownIsLast
  <2> QED
    BY <1>3, <2>2, <2>3
<1>4. CASE Teardown
  BY <1>4 DEF Teardown, TeardownIsLast
<1>5. ASSUME NEW t \in Threads, Accept(t) \/ Quit(t) \/ ReaderReads(t)
      PROVE  EndInv'
  <2>1. \A u \in Threads : thread'[u] \in {thread[u], "idle", "ended"}
    BY <1>5 DEF Accept, Quit, ReaderReads, Move, TypeOK
  <2>2. TeardownIsLast'
    BY <1>5, <2>1 DEF Accept, Quit, ReaderReads, TypeOK, TeardownIsLast, Tickers, Answerers
  <2> QED
    BY <1>5, <2>2 DEF Accept, Quit, ReaderReads, Move, TypeOK, Readers
<1>6. ASSUME NEW t \in Threads, Wake(t)
      PROVE  EndInv'
  <2>1. ~torn /\ late' = {} /\ pc \notin {"join", "unbind", "teardown", "done"}
    BY <1>6, NotLate DEF Wake
  <2> QED
    BY <1>6, <2>1 DEF Wake, TeardownIsLast
<1>7. ASSUME NEW t \in Threads, PassGate(t)
      PROVE  EndInv'
  <2>1. \A u \in Threads : thread'[u] \in {"idle", thread[u]}
    BY <1>7 DEF PassGate, Started, Entry, TypeOK
  <2>2. t = "audio" => pc \notin {"unbind", "teardown", "done"}
    BY <1>7 DEF PassGate
  <2>3. \A u \in Threads : u = "audio" /\ t # "audio" => thread'[u] = thread[u]
    BY <1>7 DEF PassGate, Started, TypeOK
  <2>4. TeardownIsLast'
    BY <1>7, <2>1 DEF PassGate, TeardownIsLast, TypeOK, Tickers, Answerers
  <2> QED
    BY <1>7, <2>2, <2>3, <2>4 DEF PassGate
<1>8. ASSUME NEW t \in Threads,
             Tick(t) \/ DataTick(t) \/ HeartbeatTick(t) \/ TellTime(t) \/ ReadEvents(t)
      PROVE  EndInv'
  <2>1. thread'[t] \in {"idle", "ended"} /\ \A u \in Threads : u # t => thread'[u] = thread[u]
    BY <1>8 DEF Tick, DataTick, HeartbeatTick, TellTime, ReadEvents, Move, TypeOK
  <2>2. late' = late \/ (torn /\ late' = late \cup {t})
    BY <1>8 DEF Tick, DataTick, HeartbeatTick, TellTime, ReadEvents, SentBy
  <2>3. t \in Tickers \cup Answerers /\ t # "audio"
    BY <1>8 DEF Tick, DataTick, HeartbeatTick, TellTime, ReadEvents, Tickers, Answerers
  <2>4. UNCHANGED <<pc, control, call, torn>>
    BY <1>8 DEF Tick, DataTick, HeartbeatTick, TellTime, ReadEvents
  <2>5. TeardownIsLast'
    BY <2>1, <2>2, <2>3 DEF TeardownIsLast, TypeOK, Tickers, Answerers
  <2> QED
    BY <2>1, <2>2, <2>3, <2>4, <2>5
<1>9. ASSUME NEW t \in Threads, AudioReads(t)
      PROVE  EndInv'
  <2>1. t = "audio" /\ pc \notin {"unbind", "teardown", "done"}
    BY <1>9 DEF AudioReads
  <2>2. late' = {}
    BY <1>9, <2>1, NotLate DEF AudioReads, SentBy
  <2> QED
    BY <1>9, <2>1, <2>2 DEF AudioReads, TeardownIsLast
<1>10. CASE Stop
  BY <1>10 DEF Stop, TeardownIsLast
<1>11. ASSUME NEW c \in Clients, LockChannel(c) \/ \E m \in BOOLEAN : SetMuted(c, m)
       PROVE  EndInv'
  <2>1. CASE LockChannel(c)
    BY <2>1 DEF LockChannel, Return, TypeOK, TeardownIsLast
  <2>2. CASE \E m \in BOOLEAN : SetMuted(c, m)
    BY <2>2 DEF SetMuted, TypeOK, TeardownIsLast
  <2> QED
    BY <1>11, <2>1, <2>2
<1>12. ASSUME NEW c \in Clients, RequestVolume(c)
       PROVE  EndInv'
  <2>1. ~torn
    BY <1>12 DEF RequestVolume
  <2>2. late' = {}
    BY <1>12, <2>1, NotLate DEF RequestVolume, SentBy
  <2> QED
    BY <1>12, <2>1, <2>2 DEF RequestVolume, Return, TypeOK, TeardownIsLast
<1>13. CASE UNCHANGED vars
  BY <1>13 DEF vars, TeardownIsLast
<1> QED
  BY <1>1, <1>2, <1>3, <1>4, <1>5, <1>6, <1>7, <1>8, <1>9, <1>10, <1>11, <1>12, <1>13,
     SetupSteps DEF Next, MainStep, ThreadStep, ClientStep

-----------------------------------------------------------------------------
(* The mute flag, with any number of callers.                              *)

LEMMA MuteInit == Init => MuteInv
BY DEF Init, MuteInv, Level

LEMMA MuteStep == TypeOK /\ EndInv /\ MuteInv /\ [Next]_vars => MuteInv'
<1> SUFFICES ASSUME TypeOK, EndInv, MuteInv, [Next]_vars PROVE MuteInv'
  OBVIOUS
<1> USE DEF MuteInv, Setup, control, remote
<1>1. CASE AllocatePorts \/ ListenForEvents \/ SetupAudio \/ SetupVideo \/ ConnectData \/ Record
  BY <1>1 DEF AllocatePorts, ListenForEvents, SetupAudio, SetupVideo, ConnectData, Record,
     Advance
<1>2. CASE StartLoops \/ StartAudio \/ OpenSource \/ SourceFails
  BY <1>2 DEF StartLoops, StartAudio, OpenSource, SourceFails, Advance
<1>3. CASE Seed
  BY <1>3, MuteAssumption DEF Seed
<1>4. CASE Bind \/ Fail
  BY <1>4 DEF Bind, Fail
<1>5. CASE LoadMute
  BY <1>5 DEF LoadMute, Level
<1>6. CASE ApplyMute
  BY <1>6 DEF ApplyMute, SendVolume
<1>7. CASE CheckStop \/ Read \/ SendCodec \/ OpenGate
  BY <1>7 DEF CheckStop, Read, SendCodec, OpenGate
<1>8. CASE Leave \/ Join \/ Unbind \/ Teardown
  BY <1>8 DEF Leave, Join, Unbind, Teardown
<1>9. CASE \E t \in Threads : Accept(t) \/ ReadEvents(t) \/ AudioReads(t) \/ ThreadStep(t)
  BY <1>9 DEF Accept, ReadEvents, AudioReads, ThreadStep, Quit, PassGate, Wake, Tick,
     DataTick, HeartbeatTick, ReaderReads, TellTime
<1>10. CASE Stop
  BY <1>10 DEF Stop
<1>11. ASSUME NEW c \in Clients, NEW m \in BOOLEAN, SetMuted(c, m)
       PROVE  MuteInv'
  <2>1. /\ call'[c] = "stored" /\ wish'[c] = m
        /\ \A d \in Clients : d # c => call'[d] = call[d] /\ wish'[d] = wish[d]
    BY <1>11 DEF SetMuted, TypeOK
  <2>2. ASSUME agreed' # "clash"
        PROVE  /\ agreed' = Level(m)
               /\ \A d \in Clients : call'[d] # "idle" => wish'[d] = m
               /\ pc = "apply" => m
    BY <1>11, <2>1, <2>2 DEF SetMuted, OthersMean
  <2> QED
    BY <1>11, <2>1, <2>2 DEF SetMuted, Level
<1>12. ASSUME NEW c \in Clients, LockChannel(c)
       PROVE  MuteInv'
  <2>1. CASE bound
    BY <1>12, <2>1 DEF LockChannel, TypeOK
  <2>2. CASE ~bound
    BY <1>12, <2>2 DEF LockChannel, Return, TypeOK
  <2> QED
    BY <2>1, <2>2
<1>13. ASSUME NEW c \in Clients, RequestVolume(c)
       PROVE  MuteInv'
  <2>1. bound /\ UNCHANGED <<pc, muted, bound, agreed>>
    BY <1>13 DEF RequestVolume, EndInv
  <2>2. \A d \in Clients : call'[d] # "idle" => call[d] # "idle" /\ wish'[d] = wish[d]
    BY <1>13 DEF RequestVolume, Return, TypeOK
  <2>3. agreed # "clash" => volume' \in {agreed, "unknown"}
    BY <1>13 DEF RequestVolume, SendVolume
  <2> QED
    BY <2>1, <2>2, <2>3
<1>14. CASE UNCHANGED vars
  BY <1>14 DEF vars
<1> QED
  BY <1>1, <1>2, <1>3, <1>4, <1>5, <1>6, <1>7, <1>8, <1>9, <1>10, <1>11, <1>12, <1>13, <1>14
     DEF Next, MainStep, ClientStep

-----------------------------------------------------------------------------
(***************************************************************************)
(* The theorems.                                                           *)
(***************************************************************************)

(* Every reachable state of a session satisfies the invariant, whatever    *)
(* threads it has and whoever calls.                                       *)
THEOREM Invariance == Spec => []IInv
<1>1. Init => IInv
  BY TypeInit, GateInit, EndInit DEF IInv
<1>2. IInv /\ [Next]_vars => IInv'
  BY TypeStep, GateStep, EndStep DEF IInv
<1> QED
  BY <1>1, <1>2, PTL DEF Spec

(* The variables keep their types: the heartbeat gives up after three      *)
(* failures in a row, and only threads and callers are ever late.          *)
THEOREM TypeCorrect == Spec => []TypeOK
<1>1. IInv => TypeOK
  BY DEF IInv
<1> QED
  BY <1>1, Invariance, PTL

(* What follows TEARDOWN is at most a last keepalive or sync packet, or    *)
(* the answers to one last read of the time or the events, per thread: no  *)
(* audio and no volume, however many threads and callers there are.        *)
THEOREM NothingAfterTeardown == Spec => []TeardownIsLast
<1>1. IInv => TeardownIsLast
  BY DEF IInv, EndInv
<1> QED
  BY <1>1, Invariance, PTL

(* Nothing that waits for the first frame is sent before the codec packet. *)
THEOREM CodecFirst == Spec => []FirstFrameFirst
<1>1. IInv => FirstFrameFirst
  BY DEF IInv, GateInv
<1> QED
  BY <1>1, Invariance, PTL

(* However many callers there are and at whatever point of the setup or    *)
(* the stream they come, once they have returned the receiver's volume is  *)
(* what they agreed on, unless it left the last request unanswered.  Where *)
(* they clash, or one was overtaken by the start of the session, nothing   *)
(* is said until the next call that agrees with those under way.           *)
THEOREM MuteReachesReceiver == Spec => []MutedMeansMuted
<1>1. Init => IInv /\ MuteInv
  BY TypeInit, GateInit, EndInit, MuteInit DEF IInv
<1>2. IInv /\ MuteInv /\ [Next]_vars => (IInv /\ MuteInv)'
  BY TypeStep, GateStep, EndStep, MuteStep DEF IInv
<1>3. MuteInv => MutedMeansMuted
  BY DEF MuteInv, MutedMeansMuted, Settled
<1> QED
  BY <1>1, <1>2, <1>3, PTL DEF Spec
=============================================================================
