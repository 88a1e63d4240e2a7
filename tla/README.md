# A TLA+ model of airfry

airfry mirrors a Linux desktop to AirPlay receivers. A background daemon (or
the tray application) keeps one connection per receiver; all of them share one
screen capture. This directory models that program in TLA+, checks the model
with TLC on small instances and proves the most important properties with TLAPS
for instances of any size. Paths below are under `src/rust/airfry/src/`.

## The system

| Component | Source | State | Operations |
|---|---|---|---|
| Control daemon | `daemon.rs` | `Inner`: streams by target, `pending_target`, shared broadcast and its stop handle | connect, pin, disconnect, mute, status, devices, discover; a worker thread per connect; a pump thread per capture |
| Capture fan-out | `broadcast.rs` | `Shared.sinks`, one bounded channel and a leftover per sink | run/pump, add_sink, remove_sink, sink read and drop |
| Screen capture | `capture.rs` | GStreamer pipeline, appsink channel, leftover, eos flag, portal grant, underscan stage | start (portal, encoder, probe, retry), read, stop handle, drop, retune |
| Mirror session | `mirror.rs` | sockets, stop flag, mute flag, media clocks, background threads | RTSP setup, NTP and event threads, heartbeat and feedback threads, teardown |
| Video stream | `mirror.rs` | NAL parser, congestion level, cipher pads, frame counters | parse, drop, packetise, encrypt, send |
| Audio stream | `audio.rs` | capture channel, sequence numbers, RTP time, nonce counter, resend buffer | capture, drain, encode, encrypt, send, resend, sync packets |
| Transport | `rtsp.rs` | socket, HAP nonces, CSeq | request/response, encrypted framing |
| Pairing | `pairing.rs`, `fairplay.rs`, `playfair.rs`, `tlv8.rs` | keys | pair-setup, pair-verify, FairPlay |
| Stores | `credentials.rs`, `config.rs` | two JSON files | load, lookup, save |
| Tray | `tray.rs` | menu state, generation counter, current stop | connect, disconnect, mute, settings, quit |
| Discovery | `discovery.rs` | none kept | one mDNS browse |
| Clients | `daemonclient.rs`, `protocol.rs`, `bin/airfry-ctl.rs`, `main.rs` | none kept | one request, one reply |
| x86 emulator | `../../fpemu` | memory and registers | runs the FairPlay binary |
| Tray library | `src/third_party/ksni` | vendored | StatusNotifierItem over D-Bus |

How they interact: a client's request is handled on a thread of its own, under
the mutex around `Inner`. A connect inserts an entry and starts a worker thread;
the worker talks RTSP to the receiver, may park waiting for a PIN on a channel
that `pin` and `disconnect` write to, joins or starts the shared capture, and
mirrors until its sink ends, the network fails or its stop flag is set. The pump
thread copies what the capture yields to every sink. The last stream to go stops
the capture, and a capture that goes stops the streams.

What is hard: the worker, the pump and the requests take the mutex many times in
the life of a stream and act in between on what they saw; entries are looked up
by target and a target can be connected again while an older worker is still
around; the pump blocks on the slowest mirror; a capture can end in three ways.
`PROJECT.json` lists the hazards line by line.

What makes each part correct:

* Daemon: the registry tells the truth about the threads (no dead entries, real
  `streaming` and `pin_required`), every mirror can be stopped, no capture leaks
  or idles, a parked worker gets one answer.
* Fan-out: each mirror sees a gapless stretch of the capture and its true end,
  and nobody waits for ever because somebody else went away.
* Video stream: after a dropped frame nothing that depends on it is sent; the
  first picture can be decoded; cipher pads are never used twice.
* Session: a stop reaches every thread, teardown is last, mute and volume agree.
* Transport: responses match requests, nonces stay in step.
* Stores: concurrent saves lose nothing, a crash leaves a readable file.
* Screen capture: read gives one stream from its first byte, whatever start had
  to try; no pipeline captures for nobody; a stop from another thread ends both
  the pipeline and the read; the picture fills its frame.
* Audio: one timeline without gaps, resent in time, with true sync packets.
* Tray: the menu agrees with the mirror that runs, and there is at most one.

## Modules

| Module | Models | |
|---|---|---|
| `SharedCapture` | what the daemon promises about the capture that mirrors share | abstract |
| `Daemon` | `daemon.rs` with its worker and pump threads; implements `SharedCapture` | `MCDaemon` for TLC, `DaemonProofs` |
| `Tee` | what the fan-out promises a mirror | abstract |
| `Broadcast` | `broadcast.rs`; implements `Tee` | `MCBroadcast` for TLC, `BroadcastProofs` |
| `DecoderFeed` | what a receiver's decoder must be fed | abstract |
| `StreamFrames` | `stream_frames` of `mirror.rs`; implements `DecoderFeed` | `MCStreamFrames` for TLC, `StreamFramesProofs` |
| `PairedChannel` | what a connect promises about its channel and the pairings that are saved | abstract |
| `Connect` | `connect_host_full` of `rtsp.rs`, with `pairing.rs`, `fairplay.rs` and the file of `credentials.rs`; implements `PairedChannel` | `MCConnect` for TLC, `ConnectProofs` |
| `Tray` | the mirror, its workers and the menu of `tray.rs` | `MCTray` for TLC, `TrayProofs` |
| `ScreenStream` | what a screen capture promises its reader | abstract |
| `Capture` | `CaptureSource` and its stop handle, of `capture.rs`; implements `ScreenStream` | `MCCapture` for TLC, `CaptureProofs` |
| `Picture` | monitor crop, scale and underscan of `capture.rs`, as functions | in `Capture` |
| `Audio` | `stream_audio`, `AudioCapture`, `AudioStream` of `audio.rs` | `AudioProofs` |
| `Alac` | `encode_alac_verbatim` and its bit writer, as functions | in `Audio` |
| `MirrorSession` | `run_mirror_with_source` of `mirror.rs`, its threads and `MirrorControl` | `MCMirrorSession` for TLC, `MirrorSessionProofs` |

### Daemon and SharedCapture

One action is one critical section of the mutex around `Inner`, or one step a
thread takes between two. `control`, `streaming` and `pinTx` are the map
`Inner.streams`, as three functions of the target: `control[t]` is the entry's
`MirrorControl` (named by the connect that created it), `None` where there is no
entry. `pc[w]` is where the worker of connect `w` stands in
`connect_and_stream`; `mail[w]` is what was sent over its PIN channel; `sink[w]`
the capture it mirrors from. `capture[c]` is the pipeline that worker `c`
built: `live`, `silent` when it ended by itself, `stopped` when the daemon
stopped it. Only a stop wakes the pump (`pump[c]`): the sender its read waits on
lives in a callback that nothing else drops. A worker's mirror is `mirroring`
until its stream is over (`ended`, the sink dropped), then sets the stop flag of
its control and waits for its audio thread (`winding`) before it returns
(`leaving`); an error of its setup skips these two.

Several code paths end in the same critical section and are one operator:
`RemoveStream` is both `remove_stream` and the body of `handle_disconnect`.
`Connect` is `handle_connect` beyond its early returns; a connect with a PIN for
a parked target is `Resume`. Left out: ports, names, reply texts and mute.

`SharedCapture` knows no targets, entries or pumps: a mirror starts a capture of
its own and shares it, unless another one is shared by then, or joins the one
that is; only a mirror that was told to stop may find itself with a capture that
is not, and the shared one is not stopped before every mirror has been told. In
the daemon three things bring this about together: the check under the lock in
`get_or_start_broadcast`, the controls in the entries, and that the last entry to
go takes the capture with it.

### Broadcast and Tee

A chunk is what one read of the capture returns. `todo` is what is left of the
pump's snapshot of the sinks, `queue[s]` the bounded channel of sink `s`,
`leftover[s]` how many more reads the chunk in hand is good for. Checking the
closed flag (`Check`) and sending (`Send`, which waits while the channel is
full) are separate steps, as other threads may act in between. `ReadEof` follows
the channel's rule: 0 only when the channel is empty and no handle holds the
sender any more, neither a registered one nor the pump's snapshot.

`Tee` promises each reader a stretch of one log without gap, repetition or
reordering, and the end of it only when nothing more is to come, or the reader
was cut off by `remove_sink`.

### StreamFrames and DecoderFeed

One action is one pass of the loop in `stream_frames` over a NAL unit, named
for the kind of unit; `Flush` is the macro `flush_vcl`. The locals keep their
names in camel case. A frame is a set of slices, a slice a picture's number with
a place in it, and a parameter set the number of the keyframe it precedes, so
that the properties can tell which pictures a frame holds and which parameter
sets a receiver has. The encoder's side (`au`, `keys`, `stage`, `slice`) is
external: h264parse puts both parameter sets before every keyframe
(`config-interval=-1`) and may or may not put a delimiter before each picture.
A mirror may join the stream anywhere, also inside a picture. The congestion
controller's average is a number of the network's choosing, of which only the
level matters: any send may raise it to any level, but lower it by one at a time
only, as 0.7 of the old average remains and the thresholds (10, 20, 50
microseconds per byte) are at most a factor of 2.5 apart, so that one cannot
fall past two of them (from above 50 to at least 35; from above 20 to at least
14). The first sample is taken as it is. A frame that fails to be written in
part ends the loop (`Leave`); what the receiver makes of it is not modelled.

`DecoderFeed` lets a keyframe follow anything, and any other picture only the
one it refers to. It matters because `should_drop` looks at the level and at the
number of frames sent, not at what was dropped: that both stay as they are until
something is sent is what keeps the rest of a broken group from going out.

### Capture, ScreenStream and Picture

`Daemon` and `Broadcast` take a capture as something that starts, yields chunks
and stops; `Capture` is what is inside. `pc` is where `CaptureSource::start`
stands; it builds pipeline 1 and, as a retry in software, pipeline 2, with one
action per step of `start_wayland`, `start_x11` and `start_test_enc` that can
fail: the portal's answer, elements, linking, Playing, the probe. Which encoders
can be made is any set, and `Encoder` is what `build_encoder` takes of it. Three
threads act on a pipeline: GStreamer's (`NewSample`, `SendSample`,
`EndByItself`), the reader (`ReadLeftover`, `ReadChunk`, `ReadEnd`), and whoever
calls the stop handle (`StopClears`, `StopNull`). The sender of the channel lives
in the appsink's callbacks, `wired`, and for as long as one runs, `inCallback`:
this, not the state of the pipeline, is what ends a read. Setting a pipeline to
Null waits for its callback. A chunk is read in `Parts` pieces (`leftover`).

`PlayFails` shows a difference between the sources: with X11 a pipeline that
does not start is set to Null, otherwise it is dropped as it is.

`ScreenStream` promises who reads the stream of one encoder, piece by piece from
its first byte, and an end only after a stop and only behind the last piece;
what is left says whether the stream had ended (`eof`) or was cut off. It begins
when `start` hands a pipeline over: whatever start tried before is not to be
seen, but for the chunks that the probe waited for, which are part of the stream.

`Picture` has the numbers: `PrimaryMonitor` is what `detect_primary_monitor`
makes of the outputs, `Crop` what ximagesrc is told, `Compute` is
`OutputScale::compute`, and `Retune` is `LiveFit::apply` with `fit_geometry`,
which computes the border a second time. Sizes keep their roundings. Left out:
bitrates and other properties of elements, and whether videobox or the
compositor draws the border.

### Audio and Alac

Time is counted in samples; a sample is named by its place in what the capture
delivers, and a chunk of the capture is any number of them. `chan` and `pcm` are
the channel and the buffer between capture and audio thread, `pc` where
`stream_audio` stands: the gate, the first sync packets, the drain of the
backlog (`DrainChunk`, `DrainEnds`), and the loop (`Check`, `ReadFrame`,
`Resend`, `NewFrame`). Without ChaCha the loop sends each frame a second time
from `buf`, a ring of `Depth` frames, once the first `Depth` have gone out.
`syncPc` is the sync thread, which reads `rtpTime` under the lock that the audio
thread takes for each packet, hence also between an old frame and a new one.
Sequence numbers and RTP times wrap at `SeqMod` and `RtpMod`; `sent` and `sync`
are what the receiver was sent.

`Alac` writes the frame of `encode_alac_verbatim` bit by bit, as `BitWriter`
does. `IsVerbatim` says what a receiver reads out of such a frame: which bits are
the header's, which are each sample's, and that nothing else is in it.

Left out: an error of the sound source, after which `read_frame` waits for ever
as nothing drops its sender; the nonce and AAD modes that nothing selects; the
ciphers; the receiver's resend requests, which are read and logged; and the wrap
of the 64 bit nonce counter.

### MirrorSession

`pc` is where the session's own thread stands, from the first line of
`run_mirror_with_source` over the setup requests, each of which may fail and end
it (`failed`), the streaming loop (`stream`, `read`, `codec`, `open`) and the
winding down to `done`. `thread[t]` is where background thread `t` stands;
they differ in what they wait for, but each looks at the stop flag (`Wake`,
`Quit`) before, and not at the moment, it acts. A tick that looks at the flag,
sleeps and looks again is one look. `call[c]` is a thread in `set_muted`, which
stores the flag, locks the channel, and keeps it locked while it asks the
receiver; `bound` says whether there is a channel. `volume`, `codec`, `torn` and
`late` are what the receiver was sent: its volume (`unknown` after a request it
left unanswered), the codec packet, TEARDOWN, and who sent something after that.
A request holds the mutex of the transport until its answer or timeout, hence is
one step. Two readers answer what they read: the NTP responder each probe
(`TellTime`), the event thread every request that one read completes
(`ReadEvents`), on a socket without a write timeout.

`agreed` is no state of the code but what the callers of `set_muted` may count
on: the volume that the last call asked for, if every call under way then, and a
mute that the setup is about to send, ask for the same; else `clash`, until the
next call. A wish from before the session began, which `Seed` overwrites, is a
clash as well. `MutedMeansMuted` compares it with `volume`. It would be refuted
without any one of the three exceptions, so these are the cases in which the code
leaves the receiver against the user's last wish (below).

`Threads` are the background threads, `Together` the sets of them that one
behaviour looks at: the threads do not look at each other's state, so that some
of them can be checked at a time, and the proofs are for all of them.
`CallerStops` tells the daemon (`remove_stream` sets the flag of the session
that returned) from the tray (it drops its handle). With the latter, the threads
of a session that failed half way go on for as long as the tray runs.

### Connect and PairedChannel

One action is what a connect does with one answer, up to the request that it
sends next; `pc[c]` is the request whose answer it waits for. `line[c]` holds
the requests on its socket that it has not read the answer of, in order, and
what has become of each. A read may give up (after 30 s) with the answer still
to come or half read (`torn`), and GET /info and /pair-pin-start are put up
with when they fail; so the next reader may find the answer to an earlier
request, or the rest of one (`Hears`), and CSeq, which would tell, is not looked
at. What saves the pairing is that M2 has a salt that nothing before it has
(`Accepts`).

`mode[c]` is how the connect was called: plainly, with -pair, or with a code.
`snap[c]` is the map that `CredentialStore` reads at the start and writes back,
whole, after pairing, in two steps (`Truncate`, `Write`); the process may be
killed at any point (`Die`). `share`, `key` and `rxKey` are the two sides' keys,
of which only matters whether they are the same. The receiver is external: it
answers the requests of a socket in order, when it likes or not at all, refuses
any of them, wants the right code and a pairing it knows, and may forget its
pairings (`Forget`). `accepted`, `backoff` and `mistyped` record what happened,
for the properties.

`PairedChannel` knows no requests, answers or codes: a channel becomes secret
only when the receiver has verified an identity that it has paired with, only a
secret one comes into use, and only over a secret one are saved pairings touched:
they are lost, or replaced by the verified one and others that receivers have
accepted. `State` looks at both ends: when their keys differ the channel is
`garbled`, which no state of a paired channel is. So the refinement says that
both sides have one key, and that what a late answer, a second dial or another
connect does never counts as a verification.

Left out: raw and transient pairing, which only `cascade_transient_then_pin`
reaches, and nothing calls that; the keyring; restore tokens, which nothing
saves; a file named by -creds, with its fall back on the default one; the sizes
of frames and the nonces.

### Tray

A selection in the menu starts a worker thread, and `pc[w]` is where it stands in
`start_mirror`, from the wait for the mirror before it (`wait`) over the two
checks of the generation (`check`, `recheck`) to `finish_mirror` (`finish`,
`drop`, `white`). Workers ask of `mirror_gen` only whether it is still theirs; so
`mirrorGen` names the worker it belongs to. `currentStop` names the worker whose
stop flag `current_stop` holds. Loads and stores of different atomics are
different steps.

Callbacks run one at a time under the tray library's lock, which also draws the
menu after each (`busy`, `DrawAfterClick`); threads ask for a redraw, which comes
when it comes (`redraw`, `Redraw`). `menu` is the menu as drawn last, and only
what it shows can be clicked. Several redraws under way are like one, since the
icon can be clicked, and the menu be drawn, at any time (`Look`). A session may
end whenever it likes: whether a stop ends it is a matter of `MirrorSession`. The
ten seconds that a selection waits at most are a choice (`GiveUp`).

Left out: mute (see `MirrorSession`), underscan and `config.json`, the status
line, and a click in the moment between registering the tray and storing its
handle.

## Runs

| Run | Bounds | Shows |
|---|---|---|
| `daemon` | 2 targets, 2 connects, fair | `SharedCapture`; the registry and the PIN parking are true to the threads; a stopped capture ends the streams of its workers, and frees those that do not wait for sound |
| `broadcast` | 2 sinks, capacity 2, 4 chunks of 2 reads, fair | no gaps, `Tee`, every mirror reaches its end, the pump comes back |
| `stream_frames` | 7 pictures of 2 slices | whole frames, matching parameter sets, `DecoderFeed` |
| `capture` | every display and mode, 3 chunks of 2 reads, fair; sizes of `MCCapture` | `ScreenStream`, nothing captures for nobody, the portal outlives its pipeline, a hardware encoder has proved itself, a stop frees the reader; whole monitors, full frames, retuned as if restarted |
| `audio` | 15 samples, frames of 2, 3 resent frames, RTP times modulo 15 | one timeline, every frame twice or with a nonce of its own, in time; true sync packets; frames bit by bit |
| `session` | 7 of 10 threads, two or three at a time, 2 callers of `set_muted`, fair | the receiver has the volume the callers agreed on, TEARDOWN is last but for what threads were about to send, a stopped or failed session ends with its threads |
| `connect` | 2 connects, 1 receiver, every mode, symmetry | `PairedChannel`; no late answer passes for another, only accepted pairings are saved, only typos arm the back-off |
| `connect_lost_pairing` | 2 connects with a code, 2 receivers | a pairing that was saved meanwhile is wiped |
| `tray` | 2 selections, 1 device, fair | nothing outlives its worker, only the user stops a mirror, the menu tells the truth, no selection waits for ever |
| `tray_lost_handle` | 2 selections, 1 device | a worker that finishes late takes the newer one's handles |
| `daemon_stale_pump` | 2 targets, 3 connects, symmetry | a statement of the source that the code does not keep (below) |
| `daemon_silent_capture` | 1 target, 2 connects, fair | another |

The runs check no type invariants: every module with state has one, which
`TypeCorrect` of its proofs shows for all values of the constants.
`EveryKeyframeIsSent`, `FirstFrameFirst`, `FromTheFirstByte`, `NoLeakedCapture` and
`KeysAgree`, too, are proved and not checked.

Why the bounds suffice: what goes wrong between connects goes wrong between two
of them, for one target (the second finds what the first left) or for two that
share the capture; hence two of each. The proofs are for any number. In the fan-out one
sink can block the pump while the other starves, leaves or is added; capacity 2
is the least that is neither empty nor full, and four chunks fill a channel,
block the pump on it and leave one to come. A connect's worker is never reused,
so the number of connects bounds the length of a behaviour. Two slices are the
least with a first and a last one that differ; seven pictures hold a keyframe, a
first frame, enough frames for either period of `should_drop` (2 and 3), a loss
and the keyframe that ends it.

A capture builds two pipelines at the most. Three chunks of two reads are one for
the probe, one in the channel and one in the callback, each with a leftover. The
sizes of `MCCapture` are a usual screen, odd ones, one where a height rounds to
nothing, and a monitor that is too small; one monitor lies off the origin. Two
outputs (`MaxOutputs`) are a primary one and one before or after it.
Fifteen samples are seven frames: an initial burst of three, each of them sent
again, and numbers that wrap, both the sequence numbers (modulo 4) and the RTP
times. The latencies lie on both sides of the floor and of the frames between a
frame and its resend. Bits are checked for frames of up to two samples and bytes
on both sides of the sign, with 24 bits for the size instead of 32, as TLC's
numbers end before 2^32.

Of the session's threads the run has every kind: one that ticks from the start
and one that waits for the first frame, one that reads, both that answer, one that
counts failures, the audio thread, and one that it starts. `Together` keeps with
the audio thread the one it starts and the other that may hang. Each caller calls
without end, with either wish; two of them can store in one order and send in the
other, as the clicks of the tray's menu can, which are a thread each. The run has
`CallerStops`, that is the daemon.

Connects share the credentials file, and what one overwrites another one wrote,
so two of them do; their sockets are separate. Late answers need no second
receiver, wiped pairings do. The line of a connect is never longer than three
(/info, /pair-pin-start, M1), so it needs no bound.

Between two selections everything can happen that one worker does to another:
overtake it while it waits, supersede it while it connects, finish late. A list
of one device differs from an empty one, and that is what the menu shows.

A definition that is named like another with a flaw (`DropEntriesUnstopped`) is
a wrong variant of it, kept to show that a property does depend on the code: each
property of a passing run fails when one such variant takes the original's place.

### What the source says and the code does not do

* `PumpStopsItsOwn`: after the last stream "a later `connect` starts a fresh one"
  (`daemon.rs:27`). The pump thread of the old capture may tear the fresh one down.
* `EndedCaptureStopsStreams`: "When the capture ends [...] stop every active
  stream" (`daemon.rs:912`). A capture that ends by itself tells nobody.
* `PairingsAreKept`: "a full (PIN) pairing only has to happen once"
  (`credentials.rs:19`). Of two connects that pair at a time the later one to
  finish wipes what the earlier one saved.
* `HandleOfTheRunning`: "Stop flag + control handle of the running mirror"
  (`tray.rs:60`). A worker that finishes late clears those of the one after it.

More are plain from the models and have no run of their own. A cancelled
worker can adopt the entry of a newer connect to its target, whose control then
does not stop it (`Daemon`, `Record`). And three calls of `set_muted` do not do
what they are asked, which `MutedMeansMuted` excepts as clashes: a mute while the
receiver is paired is not "applied at setup" (`mirror.rs:171`, `mirror.rs:231`),
since the session overwrites the flag when it begins (`mirror.rs:1023`, `Seed`);
an unmute that sends between the setup's look at the flag and its mute is undone
by the latter (`mirror.rs:1512`, `LoadMute` and `ApplyMute`); and of two opposite
calls on two threads the first may send last (`mirror.rs:233`, one thread per
click at `tray.rs:368`). Taking an exception out of `OthersMean` or `Seed` makes
TLC show it.

## Fairness

`Daemon`: a thread that can run does (the scheduler), and pairing ends, because
its sockets have timeouts. A stream is only assumed to end once its sink was
closed: it reads the stop flag between frames, and a still screen sends none. The
mirror then sets its stop flag and waits for its audio thread, which may wait for
sound for ever (`mirror.rs:1725`, `audio.rs:486`); nothing is assumed of that wait
(`MirrorReturns`), so that `StoppedCaptureFreesWorkers` says: the worker ends, or
it stays there for ever with its stop flag set. A
worker parked for a PIN may wait for ever, as may the start of a capture (on the
portal's dialog). The pump of a stopped capture returns, since the mirrors that
could block it read on or give up after their socket timeouts.
`Broadcast`: the pump runs when it can, but the capture need not yield data; a
mirror reads on or drops its sink.
`Capture`: a callback of the appsink sends without waiting, the reader reads on,
and setting a pipeline to Null ends once no callback runs. A start, the encoder
and whoever calls stop are free.
`MirrorSession`: requests have timeouts, threads run, and the mute channel's
lock is free again and again (strong fairness of `Unbind`: nobody calls
`set_muted` without a pause). Nothing is assumed of the portal's dialog, of reads
of captures, of the receiver's connection to the event port, and of its reading
the answers to its events, so that `StoppedSessionEnds` says: from some point on
the session has ended or waits for the user, a picture or the audio thread, and
each of its threads has ended, waits for sound or in such an answer, or was never
connected to.
`Tray`: threads run, and the library draws and ends the process. A connect may
wait for a code and a mirror last for ever; nobody need click.
`Audio` has no liveness property: the audio thread may wait for sound for ever.
`Connect` has none either: each of its waits has a timeout of its own,
but that for the code, which may last.

## Proofs

`DaemonProofs` proves, for any sets of targets and workers, every safety
property of run `daemon`. The only assumption is that `None` is neither target
nor worker. The properties are not inductive one by one: that no entry is dead
needs to know that a control stays in its target's entry until it is told to
stop (`ControlsReachable`); that `pin_required` is real needs that every channel
in an entry belongs to a worker that still waits (`ChannelsOpen`); that no
capture leaks needs that the stop handle is always that of the shared capture.
The invariant comes in layers (types, capture, controls, PIN channels, sinks), each
preserved under those before it, with one step per action.

It also proves that `Daemon` implements `SharedCapture`, for which `SinkInv` is
needed: a worker that has joined a capture and was not told to stop reads the
shared one. When that is released, no entry is left; a control that is in no
entry has been told to stop (`ControlsReachable`), and a mirror runs with one
that was in an entry (`HoldsControl`); so every mirror has been told
(`ReleaseTellsAll`), even one whose entry a newer connect has taken over.

`BroadcastProofs` proves `TypeOK` (the channel bound), `Gapless` and the
refinement of `Tee` for any set of sinks, any capacity and any number of chunks.
The invariant adds what the pump holds at each step, which sinks still have a
handle and that no reader is ahead. Under it each step of `Broadcast` is a step
of `Tee` or leaves its variables alone.

`StreamFramesProofs` proves the properties of run `stream_frames`, the types and
`EveryKeyframeIsSent`, the refinement of `DecoderFeed` among them, for any number of slices and pictures.
None is inductive. The invariant follows the loop from the parameter sets of the
first keyframe it sees: from there on `vclBuf` is exactly the upcoming picture
from its first slice on (`JoinedInv`), nothing is sent before that picture is a
keyframe with both sets (`UnprimedInv`), and afterwards either the picture
before the upcoming one was sent or congestion control would drop the upcoming
one too (`SentBefore`), unless it is a keyframe. Assumed of the encoder is what
`StreamFrames` says of it, and that both constants are positive.

`MirrorSessionProofs` proves the safety properties of run `session`, the types and
`FirstFrameFirst` for any sets of threads and callers. That TEARDOWN is last needs
that by then stop is set, the audio thread has ended and no caller holds the
channel (`EndInv`). That the callers are heard needs that, where they agree, the
flag and every call under way are what they agree on, and that a volume that is
not comes with a call under way, or a setup about to look at the flag, that will
send it (`MuteInv`).

`ConnectProofs` proves the types, `KeysAgree` and the properties of run `connect`, that
`Connect` implements `PairedChannel` among them, for any sets of
connects and receivers, from the four assumptions on the constants. The
invariant is local to a connect (`LocalInv`) but for what the file and the
receivers hold (`SharedInv`), so that each action's proof looks at one connect
and `OthersKeep` carries the rest. `MayCome` says which answers can be under way
at each place: late ones only up to M1 or V1, where they fail to pass for the
awaited one (`OwnAnswer`), hence none from M3 on. From it follow the keys: V3 is
only answered well by a receiver that has switched to the shared key
(`AnswerInv`, `KeyInv`); and the back-off: an M3 is under way only on a socket
whose M1 was answered. For the refinement, `StateIsPhase` reads the state of the
channel off `pc`; a step that encrypts then finds the receiver's key changed, which
only its answer to V3 does, and one that writes the file needs that the map in
hand has the new pairing (`PairInv`).

`TrayProofs` proves the types and the safety properties of run `tray` for any
number of selections and devices. That only the user stops a mirror needs that
`currentStop` is that of a worker past its start, so that a selection never finds
its own, and that flags are new (`FreshInv`); the others are inductive as they
stand once types are known.

`CaptureProofs` proves the four safety properties of `Capture` for any displays
and modes, any `Parts` and any number of chunks. A pipeline that was given up is
quiet before the other one is built (`RetryInv`), so whatever plays is the
current one, at a place of `start` that owns it (`PhaseInv`). What the current
pipeline has encoded is then what was read, what waits in the channel and what
its callback holds, numbered in this order (`StreamInv`), from which the place of
every piece in `got` follows by division (`Quotient`). The refinement of `ScreenStream`
needs in addition that a pipeline which was set to Null encodes nothing more,
and that a reader which saw an end had read everything by then (`EndInv`).

`RetuneRestarts`, `PictureFills` and `MonitorIsShownWhole` are about `Picture`: for
every size of the source, height of the frame, percentage and any number of
outputs. The clamp to two pixels in `fit_geometry` is never needed above four, so
the two computations of the border agree; and the chosen output is the least of a
set that is finite and not empty, so there is one.

`AudioProofs` proves the five properties of `Audio` in run `audio` for any frame
size, depth, moduli, latencies and numbers of samples, from the assumptions on
the constants. The invariant follows the samples through channel, buffer and
frame as one run of numbers, and says of the ring that slot `n % Depth` holds the
packet of the frame that went out `Depth` frames before the next, so that what
is sent again is what was sent.

`FramesVerbatim` is about `Alac`: for every frame size that fits in the header, one
channel or two, any bytes and any width of the size up to the 32 bits of the
code, the frame says bit by bit what `IsVerbatim` wants. The argument follows the
writer: a state of it has as many bits as `Pos` says, of which `BitAt` is one. A
pass of the loop (`PassProgress`) keeps every bit before its place, adds the upper
ones of the value and leaves the lower ones for the next; five passes are enough
for 32 bits, wherever in a byte they begin (`WriteAppends`). The frame is a run of
such writes (`FieldsAreWritten`), each at the sum of the widths before it
(`StartPlaces`), and flushing adds nothing but zeros (`FlushFacts`). Then the two
bytes of a sample are where the receiver looks for them (`SampleBytes`). The
library's induction theorems take an operator as a parameter, which these provers
cannot instantiate; the induction over the fields is one over a set of numbers
(`SetInduction`: a set that holds 0 and with each number the next one), which
follows from the well-foundedness of `<`.

Model-checked only: the liveness properties, which are beyond this prover, and
the violations.

## Not modelled

* The vendored tray library, the x86 emulator and the FairPlay tables, key
  derivation and other cryptography, icon drawing, logging and command line
  parsing: pure computation or pure I/O with no state of airfry's own.
* Discovery and the clients: one browse, one request and one reply.
* `config.json` and the underscan slider. Reading them shows three ways to lose a
  setting, which are listed as a hazard: a change by the slider between the
  worker's `Config::load` (`tray.rs:320`) and `bind_fit` (`mirror.rs:1710`) or
  before the watcher's first tick (`tray.rs:422`) is stored and not applied to
  the mirror that runs; a scan that misses a receiver drops its entry, though
  "discovery never wipes it" (`tray.rs:193`); and two processes that read,
  change and write the file lose one of the changes.
* The byte-level NAL parser, the pads of the mirror cipher and the nonces of the
  encrypted framing.
* `Connect` and `MirrorSession` put together (late answers to fp-setup in a
  session): each alone has as many states as a run can take.

## How the project grew, and what could follow

The daemon with its fan-out and the video stream came first, as the core; then
the session, the connect and the tray, which all threads of the program go
through; then what they share, the capture and the sound. What could follow, in
this order:

1. `Settings`: `config.json` between the scroll wheel, the scan, the slider's
   process and the watcher, and what gets to the pipeline.
2. `NalParser`: whatever the sizes of the reads, the NAL units handed over are
   those of the stream, in order. `MirrorCipher`: pads are contiguous in a frame
   and never used twice.
3. Late answers in a session, with `PairedChannel` in place of `Connect`.
4. `SharedCapture` and `ScreenStream` put together: the pump between the two.
