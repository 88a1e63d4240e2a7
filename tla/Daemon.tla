------------------------------- MODULE Daemon -------------------------------
(***************************************************************************)
(* The control daemon of airfry (src/rust/airfry/src/daemon.rs): the stream *)
(* registry, the PIN parking place and the one shared screen capture, all  *)
(* guarded by the mutex around Inner, and the threads that work on them:   *)
(* a handler thread per target, a worker thread per connect, and a pump   *)
(* thread per shared capture.                                              *)
(*                                                                         *)
(* One action is one critical section of that mutex, or one step a thread  *)
(* takes between two of them.  A connect is identified with its worker: w   *)
(* names the worker thread, the MirrorControl that handle_connect creates  *)
(* for it, its PIN channel and the capture it may build.  Ports, names and *)
(* the contents of replies are left out; mute is a matter of its own.      *)
(*                                                                         *)
(* An operator that stands right before another and says in its name what  *)
(* it lacks (DropEntriesUnstopped, LeaveSilently) is a wrong variant of    *)
(* it: put in its place, it makes a property fail.                         *)
(***************************************************************************)
EXTENDS FiniteSets

CONSTANTS
  Targets,  \* receivers, by IP address
  Workers,  \* connects that may happen, each with a thread of its own
  None      \* the empty string or Option::None of the code

ASSUME NoneAssumption == None \notin Targets \cup Workers

VARIABLES
  \* Inner.streams, the map from target to ActiveStream, as three functions
  control,      \* control[t]: whose MirrorControl the entry holds, None: no entry
  streaming,    \* the targets whose entry is in STATE_STREAMING
  pinTx,        \* pinTx[t]: the worker whose PIN channel the entry holds
  \* the rest of Inner
  pending,      \* Inner.pending_target
  broadcast,    \* Inner.broadcast, named by the worker that built it
  captureStop,  \* Inner.capture_stop
  \* the controls, channels, captures and threads
  stopped,      \* controls whose stop flag is set
  pc,           \* where the worker stands
  target,       \* the worker's target
  held,         \* held[w]: the control the worker runs its mirror with
  mail,         \* what was sent over the worker's PIN channel
  sink,         \* sink[w]: the capture the worker's BroadcastSink reads
  capture,      \* capture[c]: the pipeline built by worker c
  pump          \* pump[c]: the thread in BroadcastCapture::run for that capture

registry == <<control, streaming, pinTx>>
inner    == <<registry, pending, broadcast, captureStop>>
vars     == <<inner, stopped, pc, target, held, mail, sink, capture, pump>>

Steps == {"unborn", "spawned", "pairing", "parked", "resumed", "paired", "building",
          "built", "attached", "mirroring", "ended", "winding", "leaving", "done"}

Registered == {t \in Targets : control[t] # None}

TypeOK ==
  /\ control \in [Targets -> Workers \cup {None}]
  /\ streaming \in SUBSET Registered
  /\ pinTx \in [Targets -> Workers \cup {None}]
  /\ pending \in Targets \cup {None}
  /\ broadcast \in Workers \cup {None}
  /\ captureStop \in Workers \cup {None}
  /\ stopped \in SUBSET Workers
  /\ pc \in [Workers -> Steps]
  /\ target \in [Workers -> Targets \cup {None}]
  /\ held \in [Workers -> Workers \cup {None}]
  /\ mail \in [Workers -> {"none", "code", "abort"}]
  /\ sink \in [Workers -> Workers \cup {None}]
  /\ capture \in [Workers -> {"none", "live", "silent", "stopped"}]
  /\ pump \in [Workers -> {"none", "running", "stopping", "done"}]

Init ==
  /\ control = [t \in Targets |-> None]
  /\ streaming = {}
  /\ pinTx = [t \in Targets |-> None]
  /\ pending = None
  /\ broadcast = None
  /\ captureStop = None
  /\ stopped = {}
  /\ pc = [w \in Workers |-> "unborn"]
  /\ target = [w \in Workers |-> None]
  /\ held = [w \in Workers |-> None]
  /\ mail = [w \in Workers |-> "none"]
  /\ sink = [w \in Workers |-> None]
  /\ capture = [w \in Workers |-> "none"]
  /\ pump = [w \in Workers |-> "none"]

Goto(w, step) == pc' = [pc EXCEPT ![w] = step]

-----------------------------------------------------------------------------
(***************************************************************************)
(* What the critical sections share.                                       *)
(***************************************************************************)

(* Take capture_stop, stop the pipeline with it, and clear broadcast.      *)
ReleaseCapture ==
  /\ broadcast' = None
  /\ captureStop' = None
  /\ capture' = [c \in Workers |-> IF c = captureStop THEN "stopped" ELSE capture[c]]

KeepCapture == UNCHANGED <<broadcast, captureStop, capture>>

MaybeStopNever(gone) == KeepCapture

(* maybe_stop_broadcast_locked, the entries of `gone` having been removed. *)
MaybeStopBroadcast(gone) ==
  \/ Registered \subseteq gone /\ ReleaseCapture
  \/ ~(Registered \subseteq gone) /\ KeepCapture

DropEntriesUnstopped(gone) ==
  /\ control' = [t \in Targets |-> IF t \in gone THEN None ELSE control[t]]
  /\ streaming' = streaming \ gone
  /\ pinTx' = [t \in Targets |-> IF t \in gone THEN None ELSE pinTx[t]]
  /\ mail' = [w \in Workers |->
                IF \E t \in gone : pinTx[t] = w THEN "abort" ELSE mail[w]]
  /\ UNCHANGED stopped

(* Remove the entries of `gone`, stop their controls, and send None to     *)
(* whoever's PIN channel they hold.                                        *)
DropEntries(gone) ==
  /\ control' = [t \in Targets |-> IF t \in gone THEN None ELSE control[t]]
  /\ streaming' = streaming \ gone
  /\ pinTx' = [t \in Targets |-> IF t \in gone THEN None ELSE pinTx[t]]
  /\ mail' = [w \in Workers |->
                IF \E t \in gone : pinTx[t] = w THEN "abort" ELSE mail[w]]
  /\ stopped' = stopped \cup {w \in Workers : \E t \in gone : control[t] = w}

ForgetPendingNever(t) == UNCHANGED pending

ForgetPending(t) == pending' = IF pending = t THEN None ELSE pending

(* remove_stream, and the same steps spelled out in handle_disconnect.     *)
RemoveStream(t) ==
  /\ DropEntries({t})
  /\ ForgetPending(t)
  /\ MaybeStopBroadcast({t})

StopAll ==
  /\ DropEntries(Targets)
  /\ pending' = None
  /\ ReleaseCapture

-----------------------------------------------------------------------------
(***************************************************************************)
(* Requests.  status, devices and discover change nothing.  A connect that *)
(* names no target is Connect(w, t) for the t that pick_free_device_locked *)
(* returns: some t without an entry.                                       *)
(***************************************************************************)

(* handle_connect, past its early returns.  A connect that carries a PIN   *)
(* resumes the parked target, if there is one (Resume); otherwise it is a  *)
(* connect whose worker happens to take no Park step.                      *)
Connect(w, t) ==
  /\ pc[w] = "unborn"
  /\ control[t] = None
  /\ control' = [control EXCEPT ![t] = w]
  /\ target' = [target EXCEPT ![w] = t]
  /\ Goto(w, "spawned")
  /\ UNCHANGED <<streaming, pinTx, pending, broadcast, captureStop, stopped,
                 held, mail, sink, capture, pump>>

ResumeKeepsChannel ==
  /\ pending # None
  /\ pinTx[pending] # None
  /\ mail' = [mail EXCEPT ![pinTx[pending]] = "code"]
  /\ pending' = None
  /\ UNCHANGED <<control, streaming, pinTx, broadcast, captureStop, stopped,
                 pc, target, held, sink, capture, pump>>

(* handle_pin, or handle_connect with a PIN while a target is parked:      *)
(* resume_pending_locked hands the code to the channel in the entry.       *)
(* Without a channel there it parks the target again, which changes        *)
(* nothing.                                                                *)
Resume ==
  /\ pending # None
  /\ pinTx[pending] # None
  /\ mail' = [mail EXCEPT ![pinTx[pending]] = "code"]
  /\ pinTx' = [pinTx EXCEPT ![pending] = None]
  /\ pending' = None
  /\ UNCHANGED <<control, streaming, broadcast, captureStop, stopped,
                 pc, target, held, sink, capture, pump>>

(* handle_disconnect of a target; without an entry it is refused.          *)
Disconnect(t) ==
  /\ control[t] # None
  /\ RemoveStream(t)
  /\ UNCHANGED <<pc, target, held, sink, pump>>

(* handle_disconnect without a target; shutdown and cleanup do the same,   *)
(* and accept no request after it.                                         *)
DisconnectAll ==
  /\ StopAll
  /\ UNCHANGED <<pc, target, held, sink, pump>>

-----------------------------------------------------------------------------
(***************************************************************************)
(* The worker thread: connect_and_stream.                                  *)
(***************************************************************************)

(* It takes the control out of whatever entry its target has by now.       *)
Begin(w) ==
  /\ pc[w] = "spawned"
  /\ \/ /\ control[target[w]] # None
        /\ held' = [held EXCEPT ![w] = control[target[w]]]
        /\ Goto(w, "pairing")
     \/ /\ control[target[w]] = None
        /\ Goto(w, "done")
        /\ UNCHANGED held
  /\ UNCHANGED <<inner, stopped, target, mail, sink, capture, pump>>

(* connect_host_with returns a session, or an error at any of its phases.  *)
Pair(w) ==
  /\ pc[w] \in {"pairing", "resumed"}
  /\ Goto(w, "paired") \/ Goto(w, "leaving")
  /\ UNCHANGED <<inner, stopped, target, held, mail, sink, capture, pump>>

(* The receiver shows a code and none was given: pin_provider parks the    *)
(* target, whether or not it still has an entry, and waits on the channel. *)
Park(w) ==
  /\ pc[w] = "pairing"
  /\ pending' = target[w]
  /\ pinTx' = IF control[target[w]] # None
                THEN [pinTx EXCEPT ![target[w]] = w]
                ELSE pinTx
  /\ Goto(w, "parked")
  /\ UNCHANGED <<control, streaming, broadcast, captureStop, stopped, target,
                 held, mail, sink, capture, pump>>

(* The channel delivers the code, or None, which fails the pairing.        *)
Wake(w) ==
  /\ pc[w] = "parked"
  /\ \/ mail[w] = "code" /\ Goto(w, "resumed")
     \/ mail[w] = "abort" /\ Goto(w, "leaving")
  /\ UNCHANGED <<inner, stopped, target, held, mail, sink, capture, pump>>

(* get_or_start_broadcast, first section: join the running capture.        *)
GetBroadcast(w) ==
  /\ pc[w] = "paired"
  /\ \/ /\ broadcast # None
        /\ sink' = [sink EXCEPT ![w] = broadcast]
        /\ Goto(w, "attached")
     \/ /\ broadcast = None
        /\ Goto(w, "building")
        /\ UNCHANGED sink
  /\ UNCHANGED <<inner, stopped, target, held, mail, capture, pump>>

(* CaptureSource::start, outside the lock.                                 *)
Build(w) ==
  /\ pc[w] = "building"
  /\ \/ /\ capture' = [capture EXCEPT ![w] = "live"]
        /\ sink' = [sink EXCEPT ![w] = w]
        /\ Goto(w, "built")
     \/ /\ Goto(w, "leaving")
        /\ UNCHANGED <<capture, sink>>
  /\ UNCHANGED <<inner, stopped, target, held, mail, pump>>

InstallUnchecked(w) ==
  /\ pc[w] = "built"
  /\ broadcast' = w
  /\ captureStop' = w
  /\ pump' = [pump EXCEPT ![w] = "running"]
  /\ Goto(w, "attached")
  /\ UNCHANGED <<registry, pending, stopped, target, held, mail, sink, capture>>

(* get_or_start_broadcast, second section.  A capture that another worker  *)
(* installed meanwhile wins and the one built here is stopped; nobody else *)
(* knows of it, so its stop after the unlock belongs to this step.  Spawning *)
(* the pump thread does too: it may run at once or much later.             *)
Install(w) ==
  /\ pc[w] = "built"
  /\ \/ /\ broadcast # None
        /\ sink' = [sink EXCEPT ![w] = broadcast]
        /\ capture' = [capture EXCEPT ![w] = "stopped"]
        /\ UNCHANGED <<broadcast, captureStop, pump>>
     \/ /\ broadcast = None
        /\ broadcast' = w
        /\ captureStop' = w
        /\ pump' = [pump EXCEPT ![w] = "running"]
        /\ UNCHANGED <<sink, capture>>
  /\ Goto(w, "attached")
  /\ UNCHANGED <<registry, pending, stopped, target, held, mail>>

(* Flip the target's entry to streaming; without one, drop the sink and    *)
(* stop the capture if nobody else is registered.                          *)
Record(w) ==
  /\ pc[w] = "attached"
  /\ ForgetPending(target[w])
  /\ \/ /\ control[target[w]] # None
        /\ streaming' = streaming \cup {target[w]}
        /\ pinTx' = [pinTx EXCEPT ![target[w]] = None]
        /\ Goto(w, "mirroring")
        /\ UNCHANGED sink
        /\ KeepCapture
     \/ /\ control[target[w]] = None
        /\ sink' = [sink EXCEPT ![w] = None]
        /\ Goto(w, "done")
        /\ UNCHANGED <<streaming, pinTx>>
        /\ MaybeStopBroadcast({})
  /\ UNCHANGED <<control, stopped, target, held, mail, pump>>

(* run_mirror_with_source drops the sink.  An error of its setup makes it  *)
(* return there and then.  Past it, an error of the network, a stop seen   *)
(* between two frames or the end of the sink's byte stream is the end of   *)
(* the stream.                                                             *)
MirrorEnds(w) ==
  /\ pc[w] = "mirroring"
  /\ sink' = [sink EXCEPT ![w] = None]
  /\ Goto(w, "leaving") \/ Goto(w, "ended")
  /\ UNCHANGED <<inner, stopped, target, held, mail, capture, pump>>

(* The stream being over, it sets the stop flag of its control, which may  *)
(* be that of a mirror of another worker as well.                          *)
MirrorWinds(w) ==
  /\ pc[w] = "ended"
  /\ stopped' = stopped \cup {held[w]}
  /\ Goto(w, "winding")
  /\ UNCHANGED <<inner, target, held, mail, sink, capture, pump>>

(* It has waited for the audio thread, tears down and returns.             *)
MirrorReturns(w) ==
  /\ pc[w] = "winding"
  /\ Goto(w, "leaving")
  /\ UNCHANGED <<inner, stopped, target, held, mail, sink, capture, pump>>

LeaveSilently(w) ==
  /\ pc[w] = "leaving"
  /\ Goto(w, "done")
  /\ UNCHANGED <<inner, stopped, target, held, mail, sink, capture, pump>>

(* Every way out ends with remove_stream of the worker's target.           *)
Leave(w) ==
  /\ pc[w] = "leaving"
  /\ RemoveStream(target[w])
  /\ Goto(w, "done")
  /\ UNCHANGED <<target, held, sink, pump>>

-----------------------------------------------------------------------------
(***************************************************************************)
(* The captures and their pump threads.                                    *)
(***************************************************************************)

(* The pipeline ends by itself: grant revoked, error, end of stream.  The  *)
(* sender that the pump's read waits on lives in the appsink's callback,   *)
(* and nothing but CaptureStopHandle::stop drops that: no frame comes any  *)
(* more, and nobody is told.                                               *)
CaptureEnds(c) ==
  /\ capture[c] = "live"
  /\ capture' = [capture EXCEPT ![c] = "silent"]
  /\ UNCHANGED <<inner, stopped, pc, target, held, mail, sink, pump>>

PumpRetries(c) ==
  /\ pump[c] = "running"
  /\ capture[c] = "stopped"
  /\ UNCHANGED vars

(* Its capture having been stopped, BroadcastCapture::run closes every     *)
(* sink and returns.                                                       *)
PumpReturns(c) ==
  /\ pump[c] = "running"
  /\ capture[c] = "stopped"
  /\ pump' = [pump EXCEPT ![c] = "stopping"]
  /\ UNCHANGED <<inner, stopped, pc, target, held, mail, sink, capture>>

(* The rest of the pump thread: stop_all_locked.                           *)
PumpStopsAll(c) ==
  /\ pump[c] = "stopping"
  /\ pump' = [pump EXCEPT ![c] = "done"]
  /\ StopAll
  /\ UNCHANGED <<pc, target, held, sink>>

-----------------------------------------------------------------------------
Request ==
  \/ \E w \in Workers, t \in Targets : Connect(w, t)
  \/ Resume
  \/ \E t \in Targets : Disconnect(t)
  \/ DisconnectAll

Worker(w) ==
  \/ Begin(w) \/ Pair(w) \/ Park(w) \/ Wake(w)
  \/ GetBroadcast(w) \/ Build(w) \/ Install(w) \/ Record(w)
  \/ MirrorEnds(w) \/ MirrorWinds(w) \/ MirrorReturns(w) \/ Leave(w)

Capture(c) == CaptureEnds(c) \/ PumpReturns(c) \/ PumpStopsAll(c)

Next == Request \/ (\E w \in Workers : Worker(w) \/ Capture(w))

Spec == Init /\ [][Next]_vars

(* What the operating system's scheduler and the socket timeouts grant: a  *)
(* thread that can run does, and pairing comes to an end.  A stream is     *)
(* only sure to end once its sink is closed, for a stop flag is read       *)
(* between frames and a still screen sends none.  Nothing makes a mirror   *)
(* return whose audio thread waits for sound that never comes (no fairness *)
(* for MirrorReturns).  Starting a capture may wait for ever on the        *)
(* portal's dialog, and a parked worker on its PIN.                        *)
SinkClosed(w) == sink[w] # None /\ pump[sink[w]] = "done"

Fairness ==
  \A w \in Workers :
    /\ WF_vars(Begin(w) \/ Pair(w) \/ Wake(w) \/ GetBroadcast(w) \/ Install(w)
               \/ Record(w) \/ MirrorWinds(w) \/ Leave(w))
    /\ WF_vars(MirrorEnds(w) /\ SinkClosed(w))
    /\ WF_vars(PumpReturns(w))
    /\ WF_vars(PumpStopsAll(w))

FairSpec == Spec /\ Fairness

-----------------------------------------------------------------------------
(***************************************************************************)
(* Safety.                                                                 *)
(***************************************************************************)

Parked(w) == pc[w] = "parked" /\ mail[w] = "none"

(* A screen capture that was not stopped is the one the daemon knows of,   *)
(* and can stop, or is still in the hands of the worker that started it:   *)
(* racing connects and cancelled ones leak none.                           *)
NoLeakedCapture ==
  \A c \in Workers :
    capture[c] \in {"live", "silent"} => broadcast = c \/ pc[c] = "built"

(* The daemon holds on to a shared capture only while a stream is          *)
(* registered, or a worker that joined it is about to look whether its own *)
(* stream still is (and stops the capture if nobody's is).                 *)
NoIdleCapture ==
  broadcast # None => Registered # {} \/ \E w \in Workers : pc[w] = "attached"

(* A mirror that runs has been told to stop, or some entry still holds the *)
(* control that stops it: disconnecting everything reaches every mirror.   *)
EveryMirrorCanBeStopped ==
  \A w \in Workers :
    pc[w] = "mirroring" => held[w] \in stopped \/ \E t \in Targets : control[t] = held[w]

(* When the daemon reports pin_required, a worker of the very target it    *)
(* names does wait for a code, and none has been sent to it yet.           *)
PinRequiredIsReal ==
  pending # None => \E w \in Workers : target[w] = pending /\ Parked(w)

(* A target that status shows as streaming is being streamed to, or was    *)
(* until the stream of a worker ended that is on its way to remove it.     *)
StreamingIsReal ==
  \A t \in streaming :
    \E w \in Workers : target[w] = t /\ pc[w] \in {"mirroring", "ended", "winding", "leaving"}

(* An entry, which makes every further connect to its target fail, belongs *)
(* to a connect whose worker is still around: no way out leaves it behind. *)
NoDeadEntry ==
  \A t \in Targets :
    control[t] # None => /\ target[control[t]] = t
                         /\ pc[control[t]] \notin {"unborn", "done"}

(* A parked worker is sent one answer, the code or the abort, and never    *)
(* both: the channel leaves the entry with the first of them.              *)
AnsweredOnce == [][\A w \in Workers : mail[w] # "none" => mail'[w] = mail[w]]_vars

-----------------------------------------------------------------------------
(***************************************************************************)
(* The registry, the controls and the sinks together are what shares one   *)
(* capture among the mirrors.                                              *)
(***************************************************************************)

CaptureState(c) ==
  IF capture[c] \in {"none", "stopped"} THEN capture[c]
  ELSE IF broadcast = c THEN "shared" ELSE "private"

CaptureStates == [c \in Workers |-> CaptureState(c)]
Mirroring     == {w \in Workers : pc[w] = "mirroring"}
Told          == {w \in Workers : held[w] \in stopped}

Abstract == INSTANCE SharedCapture WITH
  Mirrors  <- Workers,
  state    <- CaptureStates,
  reads    <- sink,
  watching <- Mirroring,
  told     <- Told

(* However connects, disconnects, failing mirrors and pump threads of      *)
(* earlier captures follow one another: a mirror that nobody disconnected  *)
(* has its pictures from the one capture that the daemon shares, which is  *)
(* not stopped under it; and a capture built in vain is stopped.           *)
IsSharedCapture == Abstract!Spec

-----------------------------------------------------------------------------
(***************************************************************************)
(* Liveness, under FairSpec.                                               *)
(***************************************************************************)

(* When the shared capture is stopped, every worker that mirrors from it,  *)
(* those disconnected before included, stops streaming, tells the other    *)
(* threads of its session to stop and finishes, unless it waits for ever   *)
(* for its audio thread.                                                   *)
StoppedCaptureFreesWorkers ==
  \A w, c \in Workers :
    pc[w] = "mirroring" /\ sink[w] = c /\ capture[c] = "stopped"
      ~> pc[w] = "done" \/ [](pc[w] = "winding" /\ held[w] \in stopped)

-----------------------------------------------------------------------------
(***************************************************************************)
(* What comments in the source say, and the code does not keep.            *)
(***************************************************************************)

(* "when the LAST stream ends the capture is stopped and cleared, so a     *)
(* later connect starts a fresh one" (daemon.rs:27): what a pump thread    *)
(* tears down in the end is its own capture, not the fresh one.            *)
PumpStopsItsOwn ==
  [][\A c \in Workers :
       pump[c] = "stopping" /\ pump'[c] = "done" => broadcast \in {c, None}]_vars

(* "When the capture ends - e.g. the portal grant is revoked or the last   *)
(* stream stops it - stop every active stream" (daemon.rs:912): a worker   *)
(* that mirrors from a capture that ended by itself stops streaming, too.  *)
EndedCaptureStopsStreams ==
  \A w, c \in Workers :
    pc[w] = "mirroring" /\ sink[w] = c /\ capture[c] = "silent" ~> pc[w] # "mirroring"
=============================================================================
