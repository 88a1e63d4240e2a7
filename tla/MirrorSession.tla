---------------------------- MODULE MirrorSession ----------------------------
(***************************************************************************)
(* One mirror session (run_mirror_with_source in mirror.rs): the thread    *)
(* that sets it up, streams and tears it down, the background threads it   *)
(* starts, and the calls of MirrorControl::set_muted and stop that other   *)
(* threads make meanwhile.  They share the stop flag, the first-frame      *)
(* gate, the mute flag and the mute channel.                               *)
(*                                                                         *)
(* A request on the control channel holds the transport's mutex from its   *)
(* first byte to its answer or timeout, so it is one step; what a thread   *)
(* read before it took the mutex it read in an earlier step.  What the     *)
(* video frames contain is the subject of StreamFrames.                    *)
(*                                                                         *)
(* An operator that stands right before another and is named like it, with *)
(* what is wrong with it (UnbindNever), is a wrong variant of it: put in   *)
(* its place, it makes a property fail.                                    *)
(***************************************************************************)
EXTENDS Naturals

CONSTANTS
  Threads,     \* the background threads, by name
  Together,    \* the sets of them that one behaviour looks at
  Clients,     \* threads that call set_muted, again and again
  MuteAudio,   \* MirrorOpts.mute_audio
  CallerStops  \* whether the caller sets the stop flag once the session returned

(* Tick: look at stop, sleep, look again, send something, repeat.          *)
Tickers == {"data", "heartbeat", "feedback", "sync"}

(* Look at stop, read with a timeout, repeat; two of them answer.          *)
Readers == {"ntp", "accept", "event", "drain", "resend"}
Answerers == {"ntp", "event"}

ASSUME ThreadsAssumption == Threads \subseteq Tickers \cup Readers \cup {"audio"}
ASSUME TogetherAssumption == Together \subseteq SUBSET Threads

(* Only the command line has an option to start muted, and nobody calls    *)
(* set_muted there.                                                        *)
ASSUME MuteAssumption == MuteAudio \in BOOLEAN /\ (MuteAudio => Clients = {})
ASSUME CallerAssumption == CallerStops \in BOOLEAN

VARIABLES
  pc,       \* where the session's own thread stands
  stop,     \* MirrorControl.stop
  muted,    \* MirrorControl.muted
  bound,    \* MirrorControl.chan is Some
  first,    \* first_frame
  thread,   \* thread[t]: where background thread t stands
  misses,   \* consecutive_failures of the heartbeat
  call,     \* call[c]: where client c stands in set_muted
  wish,     \* wish[c]: what its current call asks for
  volume,   \* the receiver's volume; "unknown" after a request it left unanswered
  codec,    \* the receiver has got the first codec packet
  torn,     \* TEARDOWN was sent
  late,     \* who has sent something after TEARDOWN
  agreed    \* history: the volume the callers want, or "clash"

control == <<stop, muted, bound>>
remote  == <<volume, codec, torn, late>>
vars    == <<pc, control, first, thread, misses, call, wish, remote, agreed>>

(* What the options and the callers ask for.                               *)
Level(m) == IF m THEN "muted" ELSE "on"

(* "idle": at the top of its loop; "busy": found stop unset, about to act. *)
Places == {"none", "accepting", "gate", "idle", "busy", "ended"}

Setup == {"called", "ports", "listen", "setupAudio", "setupVideo", "connect", "record",
          "bind", "load", "apply", "spawn", "audio", "source"}
Stream == {"stream", "read", "codec", "open"}
Wind == {"leave", "join", "unbind", "teardown", "done"}

TypeOK ==
  /\ pc \in Setup \cup Stream \cup Wind \cup {"failed"}
  /\ stop \in BOOLEAN
  /\ muted \in BOOLEAN
  /\ bound \in BOOLEAN
  /\ first \in BOOLEAN
  /\ thread \in [Threads -> Places]
  /\ misses \in 0..2
  /\ call \in [Clients -> {"idle", "stored", "holding"}]
  /\ wish \in [Clients -> BOOLEAN]
  /\ volume \in {"on", "muted", "unknown"}
  /\ codec \in BOOLEAN
  /\ torn \in BOOLEAN
  /\ late \in SUBSET (Threads \cup {"mute"})
  /\ agreed \in {"on", "muted", "clash"}

Init ==
  /\ pc = "called"
  /\ stop = FALSE
  /\ muted = FALSE
  /\ bound = FALSE
  /\ first = FALSE
  /\ \E W \in Together : thread = [t \in Threads |-> IF t \in W THEN "none" ELSE "ended"]
  /\ misses = 0
  /\ call = [c \in Clients |-> "idle"]
  /\ wish = [c \in Clients |-> FALSE]
  /\ volume = "on"
  /\ codec = FALSE
  /\ torn = FALSE
  /\ late = {}
  /\ agreed = Level(MuteAudio)

(* The feedback loop sends before it looks at stop; the data heartbeat and *)
(* the audio thread wait for the first frame, the event listener for the   *)
(* receiver to connect.                                                    *)
Entry(t) ==
  CASE t = "feedback"          -> "busy"
    [] t \in {"data", "audio"} -> "gate"
    [] t = "accept"            -> "accepting"
    [] t \in {"heartbeat", "sync", "ntp", "event", "drain", "resend"} -> "idle"

(* No thread looks at another, but for the session at the audio thread: one *)
(* that a behaviour leaves out counts as ended from the beginning.         *)
Started(S) ==
  [t \in Threads |-> IF t \in S /\ thread[t] = "none" THEN Entry(t) ELSE thread[t]]

(* Nobody holds the mute channel's lock.                                   *)
Unlocked == \A c \in Clients : call[c] # "holding"

-----------------------------------------------------------------------------
(***************************************************************************)
(* Setting up.  Every request, connect and bind of a port may fail and     *)
(* end the session there and then, whatever was started by then.           *)
(***************************************************************************)

(* Go from one step of the setup to the next, starting the threads in S.   *)
Advance(from, to, S) ==
  /\ pc = from
  /\ pc' = to
  /\ thread' = Started(S)
  /\ UNCHANGED <<control, first, misses, call, wish, remote, agreed>>

(* The mute flag is that of the options, whatever it was: what was asked   *)
(* for before the session began is forgotten.                              *)
Seed ==
  /\ pc = "called"
  /\ pc' = "ports"
  /\ muted' = MuteAudio
  /\ agreed' = IF agreed = Level(MuteAudio) THEN agreed ELSE "clash"
  /\ UNCHANGED <<stop, bound, first, thread, misses, call, wish, remote>>

AllocatePorts == Advance("ports", "listen", {"ntp"})
ListenForEvents == Advance("listen", "setupAudio", {"accept"})
SetupAudio == Advance("setupAudio", "setupVideo", {})

(* An event channel that cannot be reached is done without.                *)
SetupVideo == \E S \in {{}, {"event"}} : Advance("setupVideo", "connect", S)
ConnectData == \E S \in {{}, {"drain"}} : Advance("connect", "record", S)

(* RECORD, and twice the full volume, which it already has.                *)
Record == Advance("record", "bind", {})

Bind ==
  /\ pc = "bind"
  /\ Unlocked
  /\ pc' = "load"
  /\ bound' = TRUE
  /\ UNCHANGED <<stop, muted, first, thread, misses, call, wish, remote, agreed>>

LoadMuteNever ==
  /\ pc = "load"
  /\ pc' = "spawn"
  /\ UNCHANGED <<control, first, thread, misses, call, wish, remote, agreed>>

LoadMute ==
  /\ pc = "load"
  /\ pc' = IF muted THEN "apply" ELSE "spawn"
  /\ UNCHANGED <<control, first, thread, misses, call, wish, remote, agreed>>

(* A volume of v is asked for; without an answer, it may be set or not.    *)
SendVolume(v) == volume' \in {v, "unknown"}

ApplyMute ==
  /\ pc = "apply"
  /\ pc' = "spawn"
  /\ SendVolume("muted")
  /\ UNCHANGED <<control, first, thread, misses, call, wish, codec, torn, late, agreed>>

StartLoops == Advance("spawn", "audio", {"data", "heartbeat", "feedback"})

(* Without audio, or with audio that cannot be captured, it is video only. *)
StartAudio == \E S \in {{}, {"audio"}} : Advance("audio", "source", S)

Fail ==
  /\ pc \in {"ports", "listen", "setupAudio", "setupVideo", "connect", "record"}
  /\ pc' = "failed"
  /\ UNCHANGED <<control, first, thread, misses, call, wish, remote, agreed>>

(* The capture asks the user for a screen, who may take for ever or cancel. *)
OpenSource == Advance("source", "stream", {})
SourceFails == Advance("source", "failed", {})

-----------------------------------------------------------------------------
(***************************************************************************)
(* Streaming and winding down.                                             *)
(***************************************************************************)

CheckStop ==
  /\ pc = "stream"
  /\ pc' = IF stop THEN "leave" ELSE "read"
  /\ UNCHANGED <<control, first, thread, misses, call, wish, remote, agreed>>

(* A read may block.  Until the first keyframe nothing is sent, then comes *)
(* a codec packet; at the end of the capture or an error the loop is left. *)
Read ==
  /\ pc = "read"
  /\ pc' \in {"stream", "leave"} \cup (IF first THEN {} ELSE {"codec"})
  /\ UNCHANGED <<control, first, thread, misses, call, wish, remote, agreed>>

SendCodec ==
  /\ pc = "codec"
  /\ \/ pc' = "open" /\ codec' = TRUE
     \/ pc' = "leave" /\ UNCHANGED codec
  /\ UNCHANGED <<control, first, thread, misses, call, wish, volume, torn, late, agreed>>

OpenGate ==
  /\ pc = "open"
  /\ pc' \in {"stream", "leave"}
  /\ first' = TRUE
  /\ UNCHANGED <<control, thread, misses, call, wish, remote, agreed>>

Leave ==
  /\ pc = "leave"
  /\ pc' = "join"
  /\ stop' = TRUE
  /\ UNCHANGED <<muted, bound, first, thread, misses, call, wish, remote, agreed>>

(* Only the audio thread is waited for.                                    *)
Join ==
  /\ pc = "join"
  /\ \A t \in Threads \cap {"audio"} : thread[t] \in {"none", "ended"}
  /\ pc' = "unbind"
  /\ UNCHANGED <<control, first, thread, misses, call, wish, remote, agreed>>

UnbindNever ==
  /\ pc = "unbind"
  /\ pc' = "teardown"
  /\ UNCHANGED <<control, first, thread, misses, call, wish, remote, agreed>>

Unbind ==
  /\ pc = "unbind"
  /\ Unlocked
  /\ pc' = "teardown"
  /\ bound' = FALSE
  /\ UNCHANGED <<stop, muted, first, thread, misses, call, wish, remote, agreed>>

Teardown ==
  /\ pc = "teardown"
  /\ pc' = "done"
  /\ torn' = TRUE
  /\ UNCHANGED <<control, first, thread, misses, call, wish, volume, codec, late, agreed>>

-----------------------------------------------------------------------------
(***************************************************************************)
(* The background threads.                                                 *)
(***************************************************************************)

Move(t, place) == thread' = [thread EXCEPT ![t] = place]

SentBy(s) == late' = IF torn THEN late \cup {s} ELSE late

(* Accepting goes on, stop or no stop, until the receiver connects.        *)
Accept(t) ==
  /\ thread[t] = "accepting"
  /\ \E place \in {"idle", "ended"} : Move(t, place)
  /\ UNCHANGED <<pc, control, first, misses, call, wish, remote, agreed>>

QuitPastGate(t) ==
  /\ stop
  /\ thread[t] = "idle"
  /\ Move(t, "ended")
  /\ UNCHANGED <<pc, control, first, misses, call, wish, remote, agreed>>

Quit(t) ==
  /\ stop
  /\ thread[t] \in {"gate", "idle"}
  /\ Move(t, "ended")
  /\ UNCHANGED <<pc, control, first, misses, call, wish, remote, agreed>>

(* The first frame went out.  The audio thread now starts two of its own.  *)
PassGate(t) ==
  /\ first
  /\ thread[t] = "gate"
  /\ thread' = [Started(IF t = "audio" THEN {"sync", "resend"} ELSE {}) EXCEPT ![t] = "idle"]
  /\ UNCHANGED <<pc, control, first, misses, call, wish, remote, agreed>>

Wake(t) ==
  /\ ~stop
  /\ thread[t] = "idle"
  /\ Move(t, "busy")
  /\ UNCHANGED <<pc, control, first, misses, call, wish, remote, agreed>>

(* Feedback and sync packets are sent whatever becomes of them.            *)
Tick(t) ==
  /\ t \in {"feedback", "sync"}
  /\ thread[t] = "busy"
  /\ Move(t, "idle")
  /\ SentBy(t)
  /\ UNCHANGED <<pc, control, first, misses, call, wish, volume, codec, torn, agreed>>

(* The data heartbeat ends when it cannot be written.                      *)
DataTick(t) ==
  /\ t = "data"
  /\ thread[t] = "busy"
  /\ \E place \in {"idle", "ended"} : Move(t, place)
  /\ SentBy(t)
  /\ UNCHANGED <<pc, control, first, misses, call, wish, volume, codec, torn, agreed>>

(* The heartbeat ends when it failed three times in a row.                 *)
HeartbeatTick(t) ==
  /\ t = "heartbeat"
  /\ thread[t] = "busy"
  /\ \/ misses' = 0 /\ Move(t, "idle")
     \/ misses < 2 /\ misses' = misses + 1 /\ Move(t, "idle")
     \/ misses = 2 /\ Move(t, "ended") /\ UNCHANGED misses
  /\ SentBy(t)
  /\ UNCHANGED <<pc, control, first, call, wish, volume, codec, torn, agreed>>

(* Something was read, nothing was, or the peer is gone.                   *)
ReaderReads(t) ==
  /\ t \in Readers \ Answerers
  /\ thread[t] = "busy"
  /\ \E place \in {"idle", "ended"} : Move(t, place)
  /\ UNCHANGED <<pc, control, first, misses, call, wish, remote, agreed>>

(* A probe is answered with the time; a short or late one is not.          *)
TellTime(t) ==
  /\ t = "ntp"
  /\ thread[t] = "busy"
  /\ \E place \in {"idle", "ended"} : Move(t, place)
  /\ SentBy(t) \/ UNCHANGED late
  /\ UNCHANGED <<pc, control, first, misses, call, wish, volume, codec, torn, agreed>>

(* Every request that one read completes is answered, without a timeout on *)
(* the answers; then it may find that the receiver is gone or garbled.     *)
ReadEvents(t) ==
  /\ t = "event"
  /\ thread[t] = "busy"
  /\ \E place \in {"idle", "ended"} : Move(t, place)
  /\ SentBy(t) \/ UNCHANGED late
  /\ UNCHANGED <<pc, control, first, misses, call, wish, volume, codec, torn, agreed>>

(* The next samples, for which it may wait long, sent as a packet or two;  *)
(* or the end of the capture or an error, and the end of the thread.       *)
AudioReads(t) ==
  /\ t = "audio"
  /\ thread[t] = "busy"
  /\ \/ Move(t, "idle") /\ SentBy(t)
     \/ Move(t, "ended") /\ UNCHANGED late
  /\ UNCHANGED <<pc, control, first, misses, call, wish, volume, codec, torn, agreed>>

-----------------------------------------------------------------------------
(***************************************************************************)
(* MirrorControl.                                                          *)
(***************************************************************************)

(* The daemon or the tray stops the session.  The tray forgets its handle  *)
(* when the session returns (finish_mirror), the daemon sets the flag of   *)
(* the entry it then removes (remove_stream).                              *)
Stop ==
  /\ ~stop
  /\ pc \in {"failed", "done"} => CallerStops
  /\ stop' = TRUE
  /\ UNCHANGED <<pc, muted, bound, first, thread, misses, call, wish, remote, agreed>>

(* Whoever is about to ask for something asks for the same.                *)
OthersMean(m) ==
  /\ \A c \in Clients : call[c] # "idle" => wish[c] = m
  /\ pc = "apply" => m

(* The flag is stored without the lock: whoever stored first may ask last. *)
SetMuted(c, m) ==
  /\ call[c] = "idle"
  /\ call' = [call EXCEPT ![c] = "stored"]
  /\ wish' = [wish EXCEPT ![c] = m]
  /\ muted' = m
  /\ agreed' = IF OthersMean(m) THEN Level(m) ELSE "clash"
  /\ UNCHANGED <<pc, stop, bound, first, thread, misses, remote>>

Return(c) == call' = [call EXCEPT ![c] = "idle"] /\ wish' = [wish EXCEPT ![c] = FALSE]

(* It takes the lock of the channel and keeps it while it asks.            *)
LockChannel(c) ==
  /\ call[c] = "stored"
  /\ Unlocked
  /\ IF bound THEN call' = [call EXCEPT ![c] = "holding"] /\ UNCHANGED wish
              ELSE Return(c)
  /\ UNCHANGED <<pc, control, first, thread, misses, remote, agreed>>

RequestVolume(c) ==
  /\ call[c] = "holding"
  /\ Return(c)
  /\ SendVolume(Level(wish[c]))
  /\ SentBy("mute")
  /\ UNCHANGED <<pc, control, first, thread, misses, codec, torn, agreed>>

-----------------------------------------------------------------------------
MainStep ==
  \/ Seed \/ AllocatePorts \/ ListenForEvents \/ SetupAudio \/ SetupVideo \/ ConnectData
  \/ Record \/ Bind \/ LoadMute \/ ApplyMute \/ StartLoops \/ StartAudio \/ Fail
  \/ CheckStop \/ SendCodec \/ OpenGate \/ Leave \/ Join \/ Unbind \/ Teardown

ThreadStep(t) ==
  \/ Quit(t) \/ PassGate(t) \/ Wake(t) \/ Tick(t) \/ DataTick(t) \/ HeartbeatTick(t)
  \/ ReaderReads(t) \/ TellTime(t)

ClientStep(c) == LockChannel(c) \/ RequestVolume(c)

Next ==
  \/ MainStep
  \/ OpenSource \/ SourceFails \/ Read
  \/ \E t \in Threads : ThreadStep(t) \/ Accept(t) \/ ReadEvents(t) \/ AudioReads(t)
  \/ \E c \in Clients : ClientStep(c) \/ \E m \in BOOLEAN : SetMuted(c, m)
  \/ Stop

Spec == Init /\ [][Next]_vars

(* Requests have timeouts, threads that can run do, and who calls set_muted *)
(* leaves the lock to others now and then.  The dialog of the capture,     *)
(* reads of captures, the receiver's connect and the answers to its events *)
(* may take for ever.                                                      *)
FairSpec ==
  /\ Spec
  /\ WF_vars(MainStep)
  /\ SF_vars(Unbind)
  /\ \A t \in Threads : WF_vars(ThreadStep(t))
  /\ \A c \in Clients : WF_vars(ClientStep(c))
  /\ WF_vars(pc = "failed" /\ Stop)

-----------------------------------------------------------------------------
(***************************************************************************)
(* Properties.                                                             *)
(***************************************************************************)

(* Nobody is about to tell the receiver anything about its volume.         *)
Settled == bound /\ pc \notin {"load", "apply"} /\ \A c \in Clients : call[c] = "idle"

(* Once the calls have returned, the receiver is as silent or as loud as   *)
(* the last of them asked for, unless it left a request unanswered.  A     *)
(* call may come at any point of the setup and from any thread (the tray   *)
(* starts one per click).  The code does not promise it where calls clash: *)
(* two that want different things are under way at once, an unmute comes   *)
(* while the setup mutes, or a mute comes before the session began.        *)
MutedMeansMuted == Settled /\ agreed # "clash" => volume \in {agreed, "unknown"}

(* After TEARDOWN come at most a last keepalive or sync packet, or the     *)
(* last answers, of each thread that was about to send them or to read,    *)
(* never audio and never a volume: the session waits for these.            *)
TeardownIsLast ==
  late \subseteq Tickers \cup Answerers /\ \A t \in late : thread[t] \in {"idle", "ended"}

(* No heartbeat and no audio goes to a receiver that has not got the codec *)
(* packet, also when that packet could not be sent and the session ends.   *)
FirstFrameFirst ==
  \A t \in Threads \cap {"data", "audio", "sync"} :
    thread[t] \in {"idle", "busy"} => codec

(* Waiting for sound, or for the receiver to take an answer.               *)
Hangs(t) == t \in {"audio", "event"} /\ thread[t] = "busy"

(* Waiting for the user, for a picture, or for a thread that hangs.        *)
SessionHangs ==
  \/ pc \in {"source", "read"}
  \/ pc = "join" /\ \E t \in Threads \cap {"audio"} : Hangs(t)

(* Everything has ended or hangs, or waits in accept, which nothing wakes. *)
Quiet ==
  /\ pc \in {"failed", "done"} \/ SessionHangs
  /\ \A t \in Threads : thread[t] \in {"none", "accepting", "ended"} \/ Hangs(t)

(* A session that is stopped, or fails and is then stopped by its caller   *)
(* (as the daemon does, and not the tray), ends for good with every thread *)
(* it started, but for what waits for ever for a capture or the receiver;  *)
(* a thread that hangs keeps nothing from ending but the join of audio.    *)
StoppedSessionEnds == (stop \/ pc = "failed") ~> []Quiet
=============================================================================
