------------------------------- MODULE Capture -------------------------------
(***************************************************************************)
(* One screen capture (src/rust/airfry/src/capture.rs): CaptureSource's    *)
(* start with its choice of a source and an encoder, its probe for a first *)
(* frame and its retry in software; the appsink's callbacks, on GStreamer's *)
(* thread; read, on the thread that reads the capture; and the stop handle, *)
(* on any other.                                                           *)
(*                                                                         *)
(* A start builds at most two pipelines, 1 and, as the retry, 2; they are  *)
(* named so in encoder, pipe, made and queue.  A chunk is what one buffer  *)
(* of the encoder holds, named by its place in the pipeline's stream, and  *)
(* read takes it in Parts pieces.                                          *)
(*                                                                         *)
(* ProbeDiscards and the like are wrong variants of the operator they      *)
(* stand before: put in its place, they make a property fail.              *)
(***************************************************************************)
EXTENDS Picture

CONSTANTS
  Displays,  \* what a capture may be started on
  Modes,     \* the HWAccel modes it may be started with
  Parts,     \* the reads that a chunk takes
  Chunks     \* the most chunks that a pipeline encodes

Pipes == {1, 2}
Software == "x264enc"
Hardware == {"nvh264enc", "vulkanh264enc", "vah264enc"}

ASSUME DisplaysAssumption == Displays \subseteq {"test", "wayland", "x11", "none"}
ASSUME ModesAssumption ==
         Modes \subseteq {"auto", "nvenc", "vulkan", "vaapi", "none"}
ASSUME PartsAssumption == Parts \in Nat \ {0}
ASSUME ChunksAssumption == Chunks \in Nat

VARIABLES
  \* the process: where it runs, and $AIRFRY_HWACCEL
  display, mode,
  \* the thread that starts the capture
  pc,          \* where it stands
  soft,        \* force_software: it builds pipeline 2
  portal,      \* the grant of the portal: none, open, closed
  \* the pipelines
  encoder,     \* encoder[p]: the encoder chosen for it
  pipe,        \* pipe[p]: its state
  wired,       \* those whose appsink has the callbacks, and with them the sender
  inCallback,  \* those whose new_sample is running
  made,        \* made[p]: the chunks that it has encoded
  queue,       \* queue[p]: the chunks in the channel to read
  eos,         \* those whose eos flag is set
  \* the CaptureSource that start has returned
  chunk,       \* the chunk in leftover
  left,        \* how many reads it is still good for
  got,         \* the pieces that read has returned: <<pipeline, chunk>>
  reader,      \* reading, or how that came to an end
  stop         \* how far the stop handle's stop has come

startVars == <<display, mode, pc, soft, portal>>
pipeVars == <<encoder, pipe, wired, inCallback, made, queue, eos>>
readVars == <<chunk, left, got, reader, stop>>
vars == <<startVars, pipeVars, readVars>>

(* The pipeline that start works on, and that the CaptureSource holds.     *)
Current == IF soft THEN 2 ELSE 1

TypeOK ==
  /\ display \in Displays
  /\ mode \in Modes
  /\ pc \in {"start", "portal", "build", "play", "probe", "abandon",
             "running", "failed", "dropped"}
  /\ soft \in BOOLEAN
  /\ portal \in {"none", "open", "closed"}
  /\ encoder \in [Pipes -> Hardware \cup {Software, "none"}]
  /\ pipe \in [Pipes -> {"none", "built", "playing", "over", "null", "lost"}]
  /\ wired \in SUBSET Pipes
  /\ inCallback \in SUBSET Pipes
  /\ made \in [Pipes -> 0..Chunks]
  /\ queue \in [Pipes -> Seq(1..Chunks)]
  /\ eos \in SUBSET Pipes
  /\ chunk \in 0..Chunks
  /\ left \in 0..Parts
  /\ got \in Seq(Pipes \X (1..Chunks))
  /\ reader \in {"reading", "eof", "error", "left"}
  /\ stop \in {"no", "cleared", "done"}

Init ==
  /\ display \in Displays
  /\ mode \in Modes
  /\ pc = "start"
  /\ soft = FALSE
  /\ portal = "none"
  /\ encoder = [p \in Pipes |-> "none"]
  /\ pipe = [p \in Pipes |-> "none"]
  /\ wired = {}
  /\ inCallback = {}
  /\ made = [p \in Pipes |-> 0]
  /\ queue = [p \in Pipes |-> <<>>]
  /\ eos = {}
  /\ chunk = 0
  /\ left = 0
  /\ got = <<>>
  /\ reader = "reading"
  /\ stop = "no"

-----------------------------------------------------------------------------
(***************************************************************************)
(* CaptureSource::start.                                                   *)
(***************************************************************************)

(* What gives up returns an error, and the portal's grant, if there is     *)
(* one, goes with the locals.                                              *)
GivesUp ==
  /\ pc' = "failed"
  /\ portal' = IF portal = "open" THEN "closed" ELSE portal

(* start: only Wayland asks for the screen; with no display it fails.      *)
Start ==
  /\ pc = "start"
  /\ pc' = CASE display = "none"    -> "failed"
             [] display = "wayland" -> "portal"
             [] display \in {"test", "x11"} -> "build"
  /\ UNCHANGED <<display, mode, soft, portal, pipeVars, readVars>>

(* request_screencast: somebody picks a screen...                          *)
PortalGrants ==
  /\ pc = "portal"
  /\ portal' = "open"
  /\ pc' = "build"
  /\ UNCHANGED <<display, mode, soft, pipeVars, readVars>>

(* ...or does not, or some request to the portal fails.                    *)
PortalRefuses ==
  /\ pc = "portal"
  /\ GivesUp
  /\ UNCHANGED <<display, mode, soft, pipeVars, readVars>>

(* build_encoder: the encoders that a mode tries before the software one.  *)
Tried(m) ==
  CASE m = "auto"   -> <<"nvh264enc", "vah264enc">>
    [] m = "nvenc"  -> <<"nvh264enc">>
    [] m = "vulkan" -> <<"vulkanh264enc">>
    [] m = "vaapi"  -> <<"vah264enc">>
    [] m = "none"   -> <<>>

(* It is the first of them that can be made.                               *)
Encoder(available) ==
  LET chain == IF soft THEN <<Software>> ELSE Append(Tried(mode), Software)
  IN  { chain[i] : i \in { j \in DOMAIN chain :
          /\ chain[j] \in available
          /\ \A k \in 1..(j - 1) : chain[k] \notin available } }

(* build_..._pipeline and finish_pipeline: the elements are made, added    *)
(* and linked, and the appsink gets its callbacks.                         *)
Build ==
  /\ pc = "build"
  /\ \E available \in SUBSET (Hardware \cup {Software}) :
       \E e \in Encoder(available) :
         encoder' = [encoder EXCEPT ![Current] = e]
  /\ pipe' = [pipe EXCEPT ![Current] = "built"]
  /\ wired' = wired \cup {Current}
  /\ pc' = "play"
  /\ UNCHANGED <<display, mode, soft, portal, inCallback, made, queue, eos,
                 readVars>>

(* No encoder, or some other element cannot be made or linked.             *)
BuildFails ==
  /\ pc = "build"
  /\ GivesUp
  /\ UNCHANGED <<display, mode, soft, pipeVars, readVars>>

(* set_state(Playing).  What was built in software is not probed.          *)
Play ==
  /\ pc = "play"
  /\ pipe' = [pipe EXCEPT ![Current] = "playing"]
  /\ pc' = IF soft THEN "running" ELSE "probe"
  /\ UNCHANGED <<display, mode, soft, portal, encoder, wired, inCallback, made,
                 queue, eos, readVars>>

(* The pipeline does not start.  With X11 it is torn down, and tried again *)
(* in software if the encoder is Vulkan's.                                 *)
PlayFailsX11 ==
  /\ pc = "play"
  /\ display = "x11"
  /\ pipe' = [pipe EXCEPT ![Current] = "null"]
  /\ wired' = wired \ {Current}
  /\ IF encoder[Current] = "vulkanh264enc"
       THEN /\ soft' = TRUE
            /\ pc' = "build"
            /\ UNCHANGED portal
       ELSE /\ GivesUp
            /\ UNCHANGED soft
  /\ UNCHANGED <<display, mode, encoder, inCallback, made, queue, eos, readVars>>

(* Otherwise it is dropped as it is, half started.                         *)
PlayFails ==
  /\ pc = "play"
  /\ display # "x11"
  /\ pipe' = [pipe EXCEPT ![Current] = "lost"]
  /\ wired' = wired \ {Current}
  /\ GivesUp
  /\ UNCHANGED <<display, mode, soft, encoder, inCallback, made, queue, eos,
                 readVars>>

ProbeDiscards ==
  /\ pc = "probe"
  /\ queue[Current] # <<>>
  /\ queue' = [queue EXCEPT ![Current] = Tail(@)]
  /\ pc' = "running"
  /\ UNCHANGED <<display, mode, soft, portal, encoder, pipe, wired, inCallback,
                 made, eos, readVars>>

(* probe_first_frame: the first chunk is kept for read.                    *)
ProbeFirstFrame ==
  /\ pc = "probe"
  /\ queue[Current] # <<>>
  /\ queue' = [queue EXCEPT ![Current] = Tail(@)]
  /\ chunk' = Head(queue[Current])
  /\ left' = Parts
  /\ pc' = "running"
  /\ UNCHANGED <<display, mode, soft, portal, encoder, pipe, wired, inCallback,
                 made, eos, got, reader, stop>>

ProbeGivesIn ==
  /\ pc = "probe"
  /\ queue[Current] = <<>>
  /\ pc' = IF display = "x11" THEN "running" ELSE "abandon"
  /\ UNCHANGED <<display, mode, soft, portal, pipeVars, readVars>>

(* Nothing has come in three seconds.                                      *)
ProbeTimesOut ==
  /\ pc = "probe"
  /\ queue[Current] = <<>>
  /\ pc' = "abandon"
  /\ UNCHANGED <<display, mode, soft, portal, pipeVars, readVars>>

AbandonDropsPortal ==
  /\ pc = "abandon"
  /\ Current \notin inCallback
  /\ pipe' = [pipe EXCEPT ![Current] = "null"]
  /\ portal' = IF portal = "open" THEN "closed" ELSE portal
  /\ soft' = TRUE
  /\ pc' = "build"
  /\ UNCHANGED <<display, mode, encoder, wired, inCallback, made, queue, eos,
                 readVars>>

AbandonRunning ==
  /\ pc = "abandon"
  /\ soft' = TRUE
  /\ pc' = "build"
  /\ UNCHANGED <<display, mode, portal, pipeVars, readVars>>

(* The portal's grant is taken back and the pipeline set to Null, which    *)
(* waits for its thread, before the retry.                                 *)
Abandon ==
  /\ pc = "abandon"
  /\ Current \notin inCallback
  /\ pipe' = [pipe EXCEPT ![Current] = "null"]
  /\ soft' = TRUE
  /\ pc' = "build"
  /\ UNCHANGED <<display, mode, portal, encoder, wired, inCallback, made, queue,
                 eos, readVars>>

StartStep ==
  \/ Start
  \/ PortalGrants
  \/ PortalRefuses
  \/ Build
  \/ BuildFails
  \/ Play
  \/ PlayFailsX11
  \/ PlayFails
  \/ ProbeFirstFrame
  \/ ProbeTimesOut
  \/ Abandon

-----------------------------------------------------------------------------
(***************************************************************************)
(* The pipelines' own threads.                                             *)
(***************************************************************************)

(* The encoder has a buffer, and the appsink calls new_sample.             *)
NewSample(p) ==
  /\ pipe[p] = "playing"
  /\ p \in wired
  /\ p \notin inCallback
  /\ made[p] < Chunks
  /\ made' = [made EXCEPT ![p] = @ + 1]
  /\ inCallback' = inCallback \cup {p}
  /\ UNCHANGED <<startVars, encoder, pipe, wired, queue, eos, readVars>>

(* new_sample sends the chunk: the channel takes any number of them, and   *)
(* its receiver lives as long as the capture.                              *)
SendSample(p) ==
  /\ p \in inCallback
  /\ queue' = [queue EXCEPT ![p] = Append(@, made[p])]
  /\ inCallback' = inCallback \ {p}
  /\ UNCHANGED <<startVars, encoder, pipe, wired, made, eos, readVars>>

(* The pipeline comes to an end by itself: with an end of stream, which    *)
(* sets the eos flag, or with an error, of which nobody is told.           *)
EndByItself(p) ==
  /\ pipe[p] = "playing"
  /\ p \notin inCallback
  /\ pipe' = [pipe EXCEPT ![p] = "over"]
  /\ eos' \in {eos, eos \cup ({p} \cap wired)}
  /\ UNCHANGED <<startVars, encoder, wired, inCallback, made, queue, readVars>>

-----------------------------------------------------------------------------
(***************************************************************************)
(* The capture in use.                                                     *)
(***************************************************************************)

Reading == pc = "running" /\ reader = "reading"

(* The sender lives in the callbacks, and for as long as one is running.   *)
SenderGone(p) == p \notin wired \cup inCallback

(* read returns a piece of what is left over...                            *)
ReadLeftover ==
  /\ Reading
  /\ left > 0
  /\ got' = Append(got, <<Current, chunk>>)
  /\ left' = left - 1
  /\ UNCHANGED <<startVars, pipeVars, chunk, reader, stop>>

(* ...or, when nothing is, the first piece of the next chunk...            *)
ReadChunk ==
  /\ Reading
  /\ left = 0
  /\ queue[Current] # <<>>
  /\ queue' = [queue EXCEPT ![Current] = Tail(@)]
  /\ chunk' = Head(queue[Current])
  /\ left' = Parts - 1
  /\ got' = Append(got, <<Current, chunk'>>)
  /\ UNCHANGED <<startVars, encoder, pipe, wired, inCallback, made, eos, reader,
                 stop>>

(* ...or that the channel is closed, as the end of the stream or an error. *)
ReadEnd ==
  /\ Reading
  /\ left = 0
  /\ queue[Current] = <<>>
  /\ SenderGone(Current)
  /\ reader' = IF Current \in eos THEN "eof" ELSE "error"
  /\ UNCHANGED <<startVars, pipeVars, chunk, left, got, stop>>

(* The loop that reads is left for another reason (stream_frames in        *)
(* mirror.rs: its stop flag is set, or a frame could not be sent).         *)
Leave ==
  /\ Reading
  /\ reader' = "left"
  /\ UNCHANGED <<startVars, pipeVars, chunk, left, got, stop>>

StopOnlyNull ==
  /\ pc = "running"
  /\ stop = "no"
  /\ stop' = "cleared"
  /\ UNCHANGED <<startVars, pipeVars, chunk, left, got, reader>>

(* CaptureStopHandle::stop replaces the callbacks of the appsink...        *)
StopClears ==
  /\ pc = "running"
  /\ stop = "no"
  /\ stop' = "cleared"
  /\ wired' = wired \ {Current}
  /\ UNCHANGED <<startVars, encoder, pipe, inCallback, made, queue, eos, chunk,
                 left, got, reader>>

(* ...and sets the pipeline to Null.                                       *)
StopNull ==
  /\ pc = "running"
  /\ stop = "cleared"
  /\ Current \notin inCallback
  /\ stop' = "done"
  /\ pipe' = [pipe EXCEPT ![Current] = "null"]
  /\ UNCHANGED <<startVars, encoder, wired, inCallback, made, queue, eos, chunk,
                 left, got, reader>>

(* The CaptureSource is dropped: stop first, then its fields, the portal's *)
(* grant the last but two of them.                                         *)
Drop ==
  /\ pc = "running"
  /\ reader # "reading"
  /\ Current \notin inCallback
  /\ pc' = "dropped"
  /\ pipe' = [pipe EXCEPT ![Current] = "null"]
  /\ wired' = wired \ {Current}
  /\ portal' = IF portal = "open" THEN "closed" ELSE portal
  /\ UNCHANGED <<display, mode, soft, encoder, inCallback, made, queue, eos,
                 readVars>>

Read == ReadLeftover \/ ReadChunk \/ ReadEnd

Next ==
  \/ StartStep
  \/ \E p \in Pipes : NewSample(p) \/ SendSample(p) \/ EndByItself(p)
  \/ Read
  \/ Leave
  \/ StopClears
  \/ StopNull
  \/ Drop

Spec == Init /\ [][Next]_vars

(* A callback sends without waiting, the reader of a capture reads on, and *)
(* a stop that has begun goes on as soon as no callback runs.  A start, an *)
(* encoder, and whoever stops are free.                                    *)
Fairness ==
  /\ \A p \in Pipes : WF_vars(SendSample(p))
  /\ WF_vars(Read)
  /\ WF_vars(StopNull)

FairSpec == Spec /\ Fairness

-----------------------------------------------------------------------------
(***************************************************************************)
(* Properties.                                                             *)
(***************************************************************************)

(* What is read is the stream of one pipeline, the one that start settled  *)
(* on, from its first byte, with nothing missing, doubled or out of order: *)
(* the chunk that the probe took comes first, and nothing comes from a     *)
(* pipeline that was given up.                                             *)
FromTheFirstByte ==
  \A i \in DOMAIN got : got[i] = <<Current, ((i - 1) \div Parts) + 1>>

(* The capture as who reads it sees it.                                    *)
Started == pc \in {"running", "dropped"}

StreamState ==
  IF ~Started THEN "none" ELSE IF Current \in wired THEN "running" ELSE "stopped"

Encoded == IF Started THEN made[Current] ELSE 0

(* A piece of another pipeline would be of no chunk of the stream.         *)
Taken == [i \in DOMAIN got |-> IF got[i][1] = Current THEN got[i][2] ELSE 0]

Abstract == INSTANCE ScreenStream WITH
  state <- StreamState, over <- Started /\ Current \in eos, encoded <- Encoded,
  taken <- Taken

(* Read gives the stream of one encoder from its first byte, whatever the  *)
(* probe, the retry, the callbacks and a stop on another thread do at the  *)
(* time: its end, and whether that is an error, comes after every byte.    *)
IsScreenStream == Abstract!Spec

(* A pipeline that plays is the one in use or under way to it: one that    *)
(* was given up for the retry, or whose capture was dropped, does not go   *)
(* on capturing the screen for nobody.                                     *)
NothingRunsUnowned ==
  \A p \in Pipes : pipe[p] \in {"playing", "over"} =>
    /\ p = Current
    /\ pc \in {"probe", "abandon", "running"}

(* The portal's grant outlives the pipeline that reads the screen by it,   *)
(* from one pipeline to the retry and to the end of the capture.           *)
PortalOutlivesPipeline ==
  display = "wayland" =>
    \A p \in Pipes : pipe[p] \in {"playing", "over"} => portal = "open"

(* A start returns a pipeline with a hardware encoder only after that has  *)
(* encoded something: no display is left black by an encoder that is there *)
(* and does not work.                                                      *)
HardwareHasProved ==
  pc = "running" /\ encoder[Current] \in Hardware => made[Current] > 0

(* The rest is about the picture, a function of what a start finds: it is  *)
(* enough to look at it there.                                             *)

(* A picture whose underscan is changed while it runs is the one of a      *)
(* capture that starts with it.                                            *)
RetuneIsRestart == Init => RetunedIsRestarted

(* The picture and its border fill an even frame.                          *)
FramesFit == Init => PictureFillsFrame

(* An X11 capture shows one whole monitor, of the size that it expects.    *)
CropIsMonitor == Init => MonitorIsWhole

(* Who reads a capture that is being stopped gets to its end.              *)
StopEndsRead == stop # "no" ~> reader # "reading"
=============================================================================
