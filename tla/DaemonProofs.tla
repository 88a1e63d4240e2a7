---------------------------- MODULE DaemonProofs ----------------------------
(***************************************************************************)
(* Proofs about Daemon, for any number of receivers and of connects.  The  *)
(* inductive invariant comes in layers, each preserved under the first:    *)
(* types, the shared capture, the controls in the registry, and the PIN    *)
(* channels.  Every preservation lemma has one step per action of Next.    *)
(***************************************************************************)
EXTENDS Daemon, TLAPS

-----------------------------------------------------------------------------
(***************************************************************************)
(* The inductive invariant.                                                *)
(***************************************************************************)

HasTarget == \A w \in Workers : pc[w] # "unborn" => target[w] \in Targets

HasControl ==
  \A w \in Workers : pc[w] \notin {"unborn", "spawned", "done"} => held[w] \in Workers

TypeInv == TypeOK /\ HasTarget /\ HasControl

CaptureInv == /\ broadcast = captureStop
              /\ NoLeakedCapture
              /\ NoIdleCapture

(* A control is in the entry of its target until it is told to stop.       *)
ControlsReachable ==
  /\ \A c \in Workers : pc[c] # "unborn" /\ c \notin stopped => control[target[c]] = c
  /\ \A c \in stopped : pc[c] # "unborn"

(* A worker holds the control of a connect that was made.                  *)
HoldsControl ==
  \A w \in Workers : pc[w] \notin {"unborn", "spawned", "done"} =>
                       held[w] \in Workers /\ pc[held[w]] # "unborn"

ControlInv == NoDeadEntry /\ ControlsReachable /\ HoldsControl

(* A channel in an entry is that of a worker that waits for its answer.    *)
ChannelsOpen ==
  /\ \A w \in Workers : pc[w] \in {"unborn", "spawned", "pairing"} => mail[w] = "none"
  /\ \A t \in Targets : \A w \in Workers : pinTx[t] = w => target[w] = t /\ Parked(w)

PinInv == ChannelsOpen /\ PinRequiredIsReal

Early == {"unborn", "spawned", "pairing", "parked", "resumed", "paired", "building"}
Late  == {"attached", "mirroring", "ended", "winding", "leaving", "done"}

(* The capture that the daemon shares runs, and a worker that was not told *)
(* to stop reads that one.  A worker takes its control once, when it       *)
(* begins.  It has a sink from when it has built or joined a capture until *)
(* it has mirrored, and it reads none that another has still to install.   *)
SharedRuns ==
  broadcast # None => capture[broadcast] \in {"live", "silent"} /\ pc[broadcast] \in Late

SinkAt(w) ==
  /\ pc[w] \in {"unborn", "spawned"} => held[w] = None
  /\ pc[w] \in Early => capture[w] = "none"
  /\ pc[w] = "built" => sink[w] = w /\ capture[w] \in {"live", "silent"}
  /\ pc[w] \in {"attached", "mirroring"} =>
       /\ sink[w] \in Workers /\ pc[sink[w]] \in Late
       /\ held[w] \in stopped \/ sink[w] = broadcast
  /\ pc[w] \notin {"built", "attached", "mirroring"} => sink[w] = None

SinkInv == SharedRuns /\ (\A w \in Workers : SinkAt(w))

IInv == TypeInv /\ CaptureInv /\ ControlInv /\ PinInv /\ StreamingIsReal /\ SinkInv

-----------------------------------------------------------------------------
(***************************************************************************)
(* Types.                                                                  *)
(***************************************************************************)

(* Releasing or keeping the capture keeps its variables in their types.    *)
LEMMA CaptureTypes ==
  ASSUME TypeOK, ReleaseCapture \/ KeepCapture
  PROVE  /\ broadcast' \in Workers \cup {None}
         /\ captureStop' \in Workers \cup {None}
         /\ capture' \in [Workers -> {"none", "live", "silent", "stopped"}]
BY DEF TypeOK, ReleaseCapture, KeepCapture

(* Dropping entries keeps the registry and the channels in their types.    *)
LEMMA DropTypes ==
  ASSUME TypeOK, NEW gone, DropEntries(gone)
  PROVE  /\ control' \in [Targets -> Workers \cup {None}]
         /\ streaming' \in SUBSET Registered'
         /\ pinTx' \in [Targets -> Workers \cup {None}]
         /\ mail' \in [Workers -> {"none", "code", "abort"}]
         /\ stopped' \in SUBSET Workers
BY DEF TypeOK, DropEntries, Registered

LEMMA TypeInvInit == Init => TypeInv
BY DEF Init, TypeInv, TypeOK, HasTarget, HasControl, Registered, Steps

LEMMA TypeInvNext == TypeInv /\ [Next]_vars => TypeInv'
<1> SUFFICES ASSUME TypeInv, [Next]_vars
             PROVE  TypeInv'
  OBVIOUS
<1> USE DEF TypeInv
<1>1. ASSUME NEW w \in Workers, NEW t \in Targets, Connect(w, t)
      PROVE  TypeInv'
  BY <1>1, NoneAssumption DEF Connect, Goto, TypeOK, HasTarget, HasControl, Registered, Steps
<1>2. CASE Resume
  BY <1>2 DEF Resume, TypeOK, HasTarget, HasControl, Registered, Steps
<1>3. ASSUME NEW t \in Targets, Disconnect(t)
      PROVE  TypeInv'
  BY <1>3, DropTypes, CaptureTypes
     DEF Disconnect, RemoveStream, ForgetPending, MaybeStopBroadcast, TypeOK, HasTarget, HasControl
<1>4. CASE DisconnectAll
  BY <1>4, DropTypes, CaptureTypes DEF DisconnectAll, StopAll, TypeOK, HasTarget, HasControl
<1>5. ASSUME NEW w \in Workers, Begin(w)
      PROVE  TypeInv'
  BY <1>5 DEF Begin, Goto, inner, registry, TypeOK, HasTarget, HasControl, Registered, Steps
<1>6. ASSUME NEW w \in Workers, Pair(w)
      PROVE  TypeInv'
  BY <1>6 DEF Pair, Goto, inner, registry, TypeOK, HasTarget, HasControl, Registered, Steps
<1>7. ASSUME NEW w \in Workers, Park(w)
      PROVE  TypeInv'
  BY <1>7 DEF Park, Goto, TypeOK, HasTarget, HasControl, Registered, Steps
<1>8. ASSUME NEW w \in Workers, Wake(w)
      PROVE  TypeInv'
  BY <1>8 DEF Wake, Goto, inner, registry, TypeOK, HasTarget, HasControl, Registered, Steps
<1>9. ASSUME NEW w \in Workers, GetBroadcast(w)
      PROVE  TypeInv'
  BY <1>9 DEF GetBroadcast, Goto, inner, registry, TypeOK, HasTarget, HasControl, Registered, Steps
<1>10. ASSUME NEW w \in Workers, Build(w)
       PROVE  TypeInv'
  BY <1>10 DEF Build, Goto, inner, registry, TypeOK, HasTarget, HasControl, Registered, Steps
<1>11. ASSUME NEW w \in Workers, Install(w)
       PROVE  TypeInv'
  BY <1>11 DEF Install, Goto, registry, TypeOK, HasTarget, HasControl, Registered, Steps
<1>12. ASSUME NEW w \in Workers, Record(w)
       PROVE  TypeInv'
  BY <1>12, CaptureTypes
     DEF Record, ForgetPending, MaybeStopBroadcast, Goto, TypeOK, HasTarget, HasControl, Registered, Steps
<1>13. ASSUME NEW w \in Workers, MirrorEnds(w)
       PROVE  TypeInv'
  BY <1>13 DEF MirrorEnds, Goto, inner, registry, TypeOK, HasTarget, HasControl, Registered, Steps
<1>14. ASSUME NEW w \in Workers, MirrorWinds(w)
       PROVE  TypeInv'
  BY <1>14 DEF MirrorWinds, Goto, inner, registry, TypeOK, HasTarget, HasControl,
               Registered, Steps
<1>15. ASSUME NEW w \in Workers, MirrorReturns(w)
       PROVE  TypeInv'
  BY <1>15 DEF MirrorReturns, Goto, inner, registry, TypeOK, HasTarget, HasControl,
               Registered, Steps
<1>16. ASSUME NEW w \in Workers, Leave(w)
       PROVE  TypeInv'
  BY <1>16, DropTypes, CaptureTypes
     DEF Leave, RemoveStream, ForgetPending, MaybeStopBroadcast, Goto, TypeOK, HasTarget, HasControl, Steps
<1>17. ASSUME NEW c \in Workers, Capture(c)
       PROVE  TypeInv'
  <2>1. CASE CaptureEnds(c)
    BY <2>1 DEF CaptureEnds, inner, registry, TypeOK, HasTarget, HasControl, Registered
  <2>2. CASE PumpReturns(c)
    BY <2>2 DEF PumpReturns, inner, registry, TypeOK, HasTarget, HasControl, Registered
  <2>3. CASE PumpStopsAll(c)
    BY <2>3, DropTypes, CaptureTypes DEF PumpStopsAll, StopAll, TypeOK, HasTarget, HasControl
  <2> QED
    BY <1>17, <2>1, <2>2, <2>3 DEF Capture
<1>18. CASE UNCHANGED vars
  BY <1>18 DEF vars, inner, registry, TypeOK, HasTarget, HasControl, Registered
<1> QED
  BY <1>1, <1>2, <1>3, <1>4, <1>5, <1>6, <1>7, <1>8, <1>9, <1>10, <1>11, <1>12, <1>13,
     <1>14, <1>15, <1>16, <1>17, <1>18
     DEF Next, Request, Worker

-----------------------------------------------------------------------------
(***************************************************************************)
(* The shared capture.                                                     *)
(***************************************************************************)

(* What is registered after some entries are dropped.                      *)
LEMMA DropRegistered ==
  ASSUME TypeOK, NEW gone \in SUBSET Targets, DropEntries(gone)
  PROVE  Registered' = Registered \ gone
BY DEF TypeOK, DropEntries, Registered

(* Dropping entries and then looking whether any is left keeps the         *)
(* capture's invariant, whatever step the worker w goes to from a step     *)
(* that is neither "built" nor "attached".                                 *)
LEMMA CaptureInvDrop ==
  ASSUME TypeInv, CaptureInv, NEW gone \in SUBSET Targets,
         DropEntries(gone), MaybeStopBroadcast(gone),
         \A w \in Workers : pc[w] \in {"built", "attached"} => pc'[w] = pc[w]
  PROVE  CaptureInv'
<1>1. Registered' = Registered \ gone
  BY DropRegistered DEF TypeInv
<1>2. CASE Registered \subseteq gone /\ ReleaseCapture
  BY <1>2 DEF TypeInv, TypeOK, CaptureInv, NoLeakedCapture, NoIdleCapture, ReleaseCapture
<1>3. CASE ~(Registered \subseteq gone) /\ KeepCapture
  BY <1>1, <1>3
     DEF TypeInv, TypeOK, CaptureInv, NoLeakedCapture, NoIdleCapture, KeepCapture
<1> QED
  BY <1>2, <1>3 DEF MaybeStopBroadcast

(* Stopping everything keeps it too.                                       *)
LEMMA CaptureInvStopAll ==
  ASSUME TypeInv, CaptureInv, StopAll, UNCHANGED pc
  PROVE  CaptureInv'
BY DEF TypeInv, TypeOK, CaptureInv, NoLeakedCapture, NoIdleCapture, StopAll, ReleaseCapture

(* And so does a step of a worker that leaves the capture alone and the    *)
(* entries in place, from any step but "built" and "attached".             *)
LEMMA CaptureInvGoto ==
  ASSUME TypeInv, CaptureInv, NEW w \in Workers, NEW step, Goto(w, step),
         pc[w] \notin {"built", "attached"},
         UNCHANGED <<control, broadcast, captureStop, capture>>
  PROVE  CaptureInv'
BY DEF TypeInv, TypeOK, CaptureInv, NoLeakedCapture, NoIdleCapture, Registered, Goto

LEMMA CaptureInvInit == Init => CaptureInv
BY NoneAssumption DEF Init, CaptureInv, NoLeakedCapture, NoIdleCapture

LEMMA CaptureInvNext == TypeInv /\ CaptureInv /\ [Next]_vars => CaptureInv'
<1> SUFFICES ASSUME TypeInv, CaptureInv, [Next]_vars
             PROVE  CaptureInv'
  OBVIOUS
<1> USE DEF CaptureInv, NoLeakedCapture, NoIdleCapture, Registered
<1>1. ASSUME NEW w \in Workers, NEW t \in Targets, Connect(w, t)
      PROVE  CaptureInv'
  BY <1>1, NoneAssumption DEF Connect, Goto, TypeInv, TypeOK
<1>2. CASE Resume
  BY <1>2 DEF Resume
<1>3. ASSUME NEW t \in Targets, Disconnect(t)
      PROVE  CaptureInv'
  BY <1>3, CaptureInvDrop DEF Disconnect, RemoveStream
<1>4. CASE DisconnectAll
  BY <1>4, CaptureInvStopAll DEF DisconnectAll
<1>5. ASSUME NEW w \in Workers, Begin(w)
      PROVE  CaptureInv'
  BY <1>5, CaptureInvGoto DEF Begin, inner, registry
<1>6. ASSUME NEW w \in Workers, Pair(w)
      PROVE  CaptureInv'
  BY <1>6, CaptureInvGoto DEF Pair, inner, registry
<1>7. ASSUME NEW w \in Workers, Park(w)
      PROVE  CaptureInv'
  BY <1>7, CaptureInvGoto DEF Park
<1>8. ASSUME NEW w \in Workers, Wake(w)
      PROVE  CaptureInv'
  BY <1>8, CaptureInvGoto DEF Wake, inner, registry
<1>9. ASSUME NEW w \in Workers, GetBroadcast(w)
      PROVE  CaptureInv'
  BY <1>9, CaptureInvGoto DEF GetBroadcast, inner, registry
<1>10. ASSUME NEW w \in Workers, Build(w)
       PROVE  CaptureInv'
  BY <1>10 DEF Build, Goto, inner, registry, TypeInv, TypeOK
<1>11. ASSUME NEW w \in Workers, Install(w)
       PROVE  CaptureInv'
  BY <1>11, NoneAssumption DEF Install, Goto, registry, TypeInv, TypeOK
<1>12. ASSUME NEW w \in Workers, Record(w)
       PROVE  CaptureInv'
  <2>1. CASE control[target[w]] # None /\ KeepCapture
    <3>1. target[w] \in Targets /\ UNCHANGED control
      BY <1>12 DEF Record, TypeInv, HasTarget
    <3> QED
      BY <1>12, <2>1, <3>1 DEF Record, KeepCapture, Goto, TypeInv, TypeOK
  <2>2. CASE control[target[w]] = None /\ MaybeStopBroadcast({})
    BY <1>12, <2>2, NoneAssumption
       DEF Record, MaybeStopBroadcast, KeepCapture, ReleaseCapture, Goto, TypeInv, TypeOK
  <2> QED
    BY <1>12, <2>1, <2>2 DEF Record
<1>13. ASSUME NEW w \in Workers, MirrorEnds(w)
       PROVE  CaptureInv'
  BY <1>13, CaptureInvGoto DEF MirrorEnds, inner, registry
<1>14. ASSUME NEW w \in Workers, MirrorWinds(w)
       PROVE  CaptureInv'
  BY <1>14, CaptureInvGoto DEF MirrorWinds, inner, registry
<1>15. ASSUME NEW w \in Workers, MirrorReturns(w)
       PROVE  CaptureInv'
  BY <1>15, CaptureInvGoto DEF MirrorReturns, inner, registry
<1>16. ASSUME NEW w \in Workers, Leave(w)
       PROVE  CaptureInv'
  <2>1. target[w] \in Targets
    BY <1>16 DEF Leave, TypeInv, HasTarget
  <2>2. \A v \in Workers : pc[v] \in {"built", "attached"} => pc'[v] = pc[v]
    BY <1>16 DEF Leave, Goto, TypeInv, TypeOK
  <2> QED
    BY <1>16, <2>1, <2>2, CaptureInvDrop DEF Leave, RemoveStream
<1>17. ASSUME NEW c \in Workers, Capture(c)
       PROVE  CaptureInv'
  <2>1. CASE CaptureEnds(c)
    BY <2>1 DEF CaptureEnds, inner, registry, TypeInv, TypeOK
  <2>2. CASE PumpReturns(c)
    BY <2>2 DEF PumpReturns, inner, registry
  <2>3. CASE PumpStopsAll(c)
    BY <2>3, CaptureInvStopAll DEF PumpStopsAll
  <2> QED
    BY <1>17, <2>1, <2>2, <2>3 DEF Capture
<1>18. CASE UNCHANGED vars
  BY <1>18 DEF vars, inner, registry
<1> QED
  BY <1>1, <1>2, <1>3, <1>4, <1>5, <1>6, <1>7, <1>8, <1>9, <1>10, <1>11, <1>12, <1>13,
     <1>14, <1>15, <1>16, <1>17, <1>18
     DEF Next, Request, Worker

-----------------------------------------------------------------------------
(***************************************************************************)
(* The controls in the registry.                                           *)
(***************************************************************************)

(* Dropping entries stops the controls they held, so whatever control is   *)
(* not stopped stays in its entry.  A worker may leave at the same time if *)
(* its own entry is among those dropped.                                   *)
LEMMA ControlInvDrop ==
  ASSUME TypeInv, ControlInv, NEW gone \in SUBSET Targets, DropEntries(gone),
         UNCHANGED <<target, held>>,
         \/ UNCHANGED pc
         \/ \E w \in Workers : /\ pc[w] # "unborn" /\ Goto(w, "done")
                               /\ target[w] \in gone
  PROVE  ControlInv'
<1> USE DEF ControlInv
<1>1. /\ \A w \in Workers : pc'[w] = "unborn" <=> pc[w] = "unborn"
      /\ \A w \in Workers : pc'[w] # "done" => pc'[w] = pc[w]
      /\ \A w \in Workers : pc'[w] = "done" => pc[w] = "done" \/ target[w] \in gone
  BY DEF TypeInv, TypeOK, Goto
<1>2. NoDeadEntry'
  BY <1>1 DEF NoDeadEntry, DropEntries, TypeInv, TypeOK
<1>3. ControlsReachable'
  BY <1>1, NoneAssumption
     DEF ControlsReachable, NoDeadEntry, DropEntries, TypeInv, TypeOK, HasTarget
<1>4. HoldsControl'
  BY <1>1 DEF HoldsControl, TypeInv, TypeOK
<1> QED
  BY <1>2, <1>3, <1>4

(* A worker may take any step but the last if the entries stay; it may     *)
(* stop controls of connects that were made.                               *)
LEMMA ControlInvGoto ==
  ASSUME TypeInv, ControlInv, NEW w \in Workers, NEW step \in Steps, Goto(w, step),
         pc[w] \notin {"unborn", "spawned", "done"}, step # "unborn",
         step = "done" => control[target[w]] = None,
         stopped \subseteq stopped', \A c \in stopped' \ stopped : pc[c] # "unborn",
         UNCHANGED <<control, target, held>>
  PROVE  ControlInv'
<1>1. NoDeadEntry'
  <2> SUFFICES ASSUME NEW t \in Targets, control[t] # None
               PROVE  target[control[t]] = t /\ pc'[control[t]] \notin {"unborn", "done"}
    BY DEF NoDeadEntry
  <2>1. /\ control[t] \in Workers
        /\ target[control[t]] = t /\ pc[control[t]] \notin {"unborn", "done"}
    BY DEF ControlInv, NoDeadEntry, TypeInv, TypeOK
  <2>2. CASE control[t] = w
    BY <2>1, <2>2 DEF Goto, TypeInv, TypeOK
  <2>3. CASE control[t] # w
    BY <2>1, <2>3 DEF Goto, TypeInv, TypeOK
  <2> QED
    BY <2>1, <2>2, <2>3
<1>2. ControlsReachable'
  BY DEF ControlInv, ControlsReachable, Goto, TypeInv, TypeOK
<1>3. HoldsControl'
  BY DEF ControlInv, HoldsControl, Goto, TypeInv, TypeOK
<1> QED
  BY <1>1, <1>2, <1>3 DEF ControlInv

(* Steps that touch neither workers nor controls.                          *)
LEMMA ControlInvSame ==
  ASSUME ControlInv, UNCHANGED <<control, stopped, pc, target, held>>
  PROVE  ControlInv'
BY DEF ControlInv, NoDeadEntry, ControlsReachable, HoldsControl

LEMMA ControlInvInit == Init => ControlInv
BY DEF Init, ControlInv, NoDeadEntry, ControlsReachable, HoldsControl

LEMMA ControlInvNext == TypeInv /\ ControlInv /\ [Next]_vars => ControlInv'
<1> SUFFICES ASSUME TypeInv, ControlInv, [Next]_vars
             PROVE  ControlInv'
  OBVIOUS
<1> USE DEF Steps
<1>1. ASSUME NEW w \in Workers, NEW t \in Targets, Connect(w, t)
      PROVE  ControlInv'
  <2>1. NoDeadEntry'
    BY <1>1, NoneAssumption DEF Connect, Goto, ControlInv, NoDeadEntry, TypeInv, TypeOK
  <2>2. ControlsReachable'
    BY <1>1, NoneAssumption
       DEF Connect, Goto, ControlInv, ControlsReachable, TypeInv, TypeOK, HasTarget
  <2>3. HoldsControl'
    BY <1>1 DEF Connect, Goto, ControlInv, HoldsControl, TypeInv, TypeOK
  <2> QED
    BY <2>1, <2>2, <2>3 DEF ControlInv
<1>2. CASE Resume
  BY <1>2, ControlInvSame DEF Resume
<1>3. ASSUME NEW t \in Targets, Disconnect(t)
      PROVE  ControlInv'
  BY <1>3, ControlInvDrop DEF Disconnect, RemoveStream
<1>4. CASE DisconnectAll
  BY <1>4, ControlInvDrop DEF DisconnectAll, StopAll
<1>5. ASSUME NEW w \in Workers, Begin(w)
      PROVE  ControlInv'
  BY <1>5, NoneAssumption
     DEF Begin, Goto, inner, registry, ControlInv, NoDeadEntry, ControlsReachable,
         HoldsControl, TypeInv, TypeOK, HasTarget
<1>6. ASSUME NEW w \in Workers, Pair(w)
      PROVE  ControlInv'
  BY <1>6, ControlInvGoto DEF Pair, inner, registry
<1>7. ASSUME NEW w \in Workers, Park(w)
      PROVE  ControlInv'
  BY <1>7, ControlInvGoto DEF Park
<1>8. ASSUME NEW w \in Workers, Wake(w)
      PROVE  ControlInv'
  BY <1>8, ControlInvGoto DEF Wake, inner, registry
<1>9. ASSUME NEW w \in Workers, GetBroadcast(w)
      PROVE  ControlInv'
  BY <1>9, ControlInvGoto DEF GetBroadcast, inner, registry
<1>10. ASSUME NEW w \in Workers, Build(w)
       PROVE  ControlInv'
  BY <1>10, ControlInvGoto DEF Build, inner, registry
<1>11. ASSUME NEW w \in Workers, Install(w)
       PROVE  ControlInv'
  BY <1>11, ControlInvGoto DEF Install, registry
<1>12. ASSUME NEW w \in Workers, Record(w)
       PROVE  ControlInv'
  BY <1>12, ControlInvGoto DEF Record
<1>13. ASSUME NEW w \in Workers, MirrorEnds(w)
       PROVE  ControlInv'
  BY <1>13, ControlInvGoto DEF MirrorEnds, inner, registry
<1>14. ASSUME NEW w \in Workers, MirrorWinds(w)
       PROVE  ControlInv'
  <2>1. held[w] \in Workers /\ pc[held[w]] # "unborn"
    BY <1>14 DEF MirrorWinds, ControlInv, HoldsControl
  <2> QED
    BY <1>14, <2>1, ControlInvGoto DEF MirrorWinds, inner, registry
<1>15. ASSUME NEW w \in Workers, MirrorReturns(w)
       PROVE  ControlInv'
  BY <1>15, ControlInvGoto DEF MirrorReturns, inner, registry
<1>16. ASSUME NEW w \in Workers, Leave(w)
       PROVE  ControlInv'
  <2>1. target[w] \in Targets
    BY <1>16 DEF Leave, TypeInv, HasTarget
  <2> QED
    BY <1>16, <2>1, ControlInvDrop DEF Leave, RemoveStream
<1>17. ASSUME NEW c \in Workers, Capture(c)
       PROVE  ControlInv'
  <2>1. CASE CaptureEnds(c)
    BY <2>1, ControlInvSame DEF CaptureEnds, inner, registry
  <2>2. CASE PumpReturns(c)
    BY <2>2, ControlInvSame DEF PumpReturns, inner, registry
  <2>3. CASE PumpStopsAll(c)
    BY <2>3, ControlInvDrop DEF PumpStopsAll, StopAll
  <2> QED
    BY <1>17, <2>1, <2>2, <2>3 DEF Capture
<1>18. CASE UNCHANGED vars
  BY <1>18, ControlInvSame DEF vars, inner, registry
<1> QED
  BY <1>1, <1>2, <1>3, <1>4, <1>5, <1>6, <1>7, <1>8, <1>9, <1>10, <1>11, <1>12, <1>13,
     <1>14, <1>15, <1>16, <1>17, <1>18
     DEF Next, Request, Worker

-----------------------------------------------------------------------------
(***************************************************************************)
(* The PIN channels.                                                       *)
(***************************************************************************)

(* Dropping entries aborts only workers of the targets dropped; the parked *)
(* target is forgotten if it is one of them.                               *)
LEMMA PinInvDrop ==
  ASSUME TypeInv, PinInv, NEW gone \in SUBSET Targets, DropEntries(gone),
         UNCHANGED target,
         pending' = IF pending \in gone THEN None ELSE pending,
         \/ UNCHANGED pc
         \/ \E w \in Workers : pc[w] = "leaving" /\ Goto(w, "done")
  PROVE  PinInv'
<1> USE DEF PinInv
<1>1. \A w \in Workers : \/ pc'[w] = pc[w]
                         \/ pc[w] = "leaving" /\ pc'[w] = "done"
  BY DEF TypeInv, TypeOK, Goto
<1>2. \A t \in Targets : \A w \in Workers : pinTx[t] = w => target[w] = t /\ Parked(w)
  BY DEF ChannelsOpen
<1>3. \A w \in Workers : target[w] \notin gone => mail'[w] = mail[w]
  BY <1>2 DEF DropEntries, TypeInv, TypeOK
<1>4. \A w \in Workers : pc[w] # "parked" => mail'[w] = mail[w]
  BY <1>2 DEF DropEntries, TypeInv, TypeOK, Parked
<1>5. ChannelsOpen'
  <2>1. \A w \in Workers : pc'[w] \in {"unborn", "spawned", "pairing"} => mail'[w] = "none"
    BY <1>1, <1>4 DEF ChannelsOpen
  <2>2. ASSUME NEW t \in Targets, NEW w \in Workers, pinTx'[t] = w
        PROVE  target[w] = t /\ Parked(w)'
    <3>1. t \notin gone /\ pinTx[t] = w
      BY <2>2, NoneAssumption DEF DropEntries
    <3> QED
      BY <1>1, <1>2, <1>3, <3>1 DEF Parked
  <2> QED
    BY <2>1, <2>2 DEF ChannelsOpen
<1>6. PinRequiredIsReal'
  BY <1>1, <1>3 DEF PinRequiredIsReal, Parked
<1> QED
  BY <1>5, <1>6

(* A worker may take a step that neither is nor leads to waiting, as long  *)
(* as it was not itself waiting without an answer.                         *)
LEMMA PinInvGoto ==
  ASSUME TypeInv, PinInv, NEW w \in Workers, NEW step, Goto(w, step),
         ~Parked(w), step \notin {"unborn", "spawned"},
         step = "pairing" => pc[w] = "spawned",
         UNCHANGED <<pinTx, pending, target, mail>>
  PROVE  PinInv'
<1>1. ChannelsOpen'
  BY DEF PinInv, ChannelsOpen, Parked, Goto, TypeInv, TypeOK
<1>2. PinRequiredIsReal'
  BY DEF PinInv, PinRequiredIsReal, Parked, Goto, TypeInv, TypeOK
<1> QED
  BY <1>1, <1>2 DEF PinInv

LEMMA PinInvInit == Init => PinInv
BY NoneAssumption DEF Init, PinInv, ChannelsOpen, PinRequiredIsReal

LEMMA PinInvNext == TypeInv /\ PinInv /\ [Next]_vars => PinInv'
<1> SUFFICES ASSUME TypeInv, PinInv, [Next]_vars
             PROVE  PinInv'
  OBVIOUS
<1>1. ASSUME NEW w \in Workers, NEW t \in Targets, Connect(w, t)
      PROVE  PinInv'
  <2>1. ChannelsOpen'
    BY <1>1 DEF Connect, PinInv, ChannelsOpen, Parked, Goto, TypeInv, TypeOK
  <2>2. PinRequiredIsReal'
    BY <1>1 DEF Connect, PinInv, PinRequiredIsReal, Parked, Goto, TypeInv, TypeOK
  <2> QED
    BY <2>1, <2>2 DEF PinInv
<1>2. CASE Resume
  <2>1. \A t \in Targets : \A w \in Workers :
          pinTx'[t] = w => mail'[w] = mail[w] /\ pinTx[t] = w
    BY <1>2, NoneAssumption DEF Resume, PinInv, ChannelsOpen, TypeInv, TypeOK
  <2>2. \A w \in Workers : pc[w] # "parked" => mail'[w] = mail[w]
    BY <1>2 DEF Resume, PinInv, ChannelsOpen, Parked, TypeInv, TypeOK
  <2>3. ChannelsOpen'
    BY <1>2, <2>1, <2>2 DEF Resume, PinInv, ChannelsOpen, Parked
  <2>4. PinRequiredIsReal'
    BY <1>2 DEF Resume, PinRequiredIsReal
  <2> QED
    BY <2>3, <2>4 DEF PinInv
<1>3. ASSUME NEW t \in Targets, Disconnect(t)
      PROVE  PinInv'
  BY <1>3, PinInvDrop DEF Disconnect, RemoveStream, ForgetPending
<1>4. ASSUME StopAll, UNCHANGED <<pc, target>>
      PROVE  PinInv'
  BY <1>4, PinInvDrop DEF StopAll, TypeInv, TypeOK
<1>5. ASSUME NEW w \in Workers, Begin(w)
      PROVE  PinInv'
  BY <1>5, PinInvGoto DEF Begin, inner, registry, Parked
<1>6. ASSUME NEW w \in Workers, Pair(w)
      PROVE  PinInv'
  BY <1>6, PinInvGoto DEF Pair, inner, registry, Parked
<1>7. ASSUME NEW w \in Workers, Park(w)
      PROVE  PinInv'
  <2>1. target[w] \in Targets /\ mail[w] = "none" /\ pc'[w] = "parked"
    BY <1>7 DEF Park, Goto, PinInv, ChannelsOpen, TypeInv, TypeOK, HasTarget
  <2>2. ChannelsOpen'
    BY <1>7, <2>1 DEF Park, PinInv, ChannelsOpen, Parked, Goto, TypeInv, TypeOK
  <2>3. PinRequiredIsReal'
    BY <1>7, <2>1 DEF Park, PinRequiredIsReal, Parked
  <2> QED
    BY <2>2, <2>3 DEF PinInv
<1>8. ASSUME NEW w \in Workers, Wake(w)
      PROVE  PinInv'
  BY <1>8, PinInvGoto DEF Wake, inner, registry, Parked
<1>9. ASSUME NEW w \in Workers, GetBroadcast(w)
      PROVE  PinInv'
  BY <1>9, PinInvGoto DEF GetBroadcast, inner, registry, Parked
<1>10. ASSUME NEW w \in Workers, Build(w)
       PROVE  PinInv'
  BY <1>10, PinInvGoto DEF Build, inner, registry, Parked
<1>11. ASSUME NEW w \in Workers, Install(w)
       PROVE  PinInv'
  BY <1>11, PinInvGoto DEF Install, registry, Parked
<1>12. ASSUME NEW w \in Workers, Record(w)
       PROVE  PinInv'
  <2>1. ChannelsOpen'
    BY <1>12, NoneAssumption
       DEF Record, PinInv, ChannelsOpen, Parked, Goto, TypeInv, TypeOK
  <2>2. PinRequiredIsReal'
    BY <1>12 DEF Record, ForgetPending, PinInv, PinRequiredIsReal, Parked, Goto,
                 TypeInv, TypeOK
  <2> QED
    BY <2>1, <2>2 DEF PinInv
<1>13. ASSUME NEW w \in Workers, MirrorEnds(w)
       PROVE  PinInv'
  BY <1>13, PinInvGoto DEF MirrorEnds, inner, registry, Parked
<1>14. ASSUME NEW w \in Workers, MirrorWinds(w)
       PROVE  PinInv'
  BY <1>14, PinInvGoto DEF MirrorWinds, inner, registry, Parked
<1>15. ASSUME NEW w \in Workers, MirrorReturns(w)
       PROVE  PinInv'
  BY <1>15, PinInvGoto DEF MirrorReturns, inner, registry, Parked
<1>16. ASSUME NEW w \in Workers, Leave(w)
       PROVE  PinInv'
  <2>1. target[w] \in Targets
    BY <1>16 DEF Leave, TypeInv, HasTarget
  <2> QED
    BY <1>16, <2>1, PinInvDrop DEF Leave, RemoveStream, ForgetPending
<1>17. ASSUME NEW c \in Workers, CaptureEnds(c) \/ PumpReturns(c)
       PROVE  PinInv'
  BY <1>17 DEF CaptureEnds, PumpReturns, inner, registry, PinInv, ChannelsOpen,
               PinRequiredIsReal, Parked
<1>18. CASE UNCHANGED vars
  BY <1>18 DEF vars, inner, registry, PinInv, ChannelsOpen, PinRequiredIsReal, Parked
<1> QED
  BY <1>1, <1>2, <1>3, <1>4, <1>5, <1>6, <1>7, <1>8, <1>9, <1>10, <1>11, <1>12, <1>13,
     <1>14, <1>15, <1>16, <1>17, <1>18
     DEF Next, Request, Worker, Capture, DisconnectAll, PumpStopsAll

-----------------------------------------------------------------------------
(***************************************************************************)
(* The streaming entries.                                                  *)
(***************************************************************************)

(* A worker in its mirror, or past it, stays there while others move.      *)
LEMMA StreamingGoto ==
  ASSUME TypeInv, StreamingIsReal, NEW w \in Workers, NEW step, Goto(w, step),
         \/ pc[w] \notin {"mirroring", "ended", "winding", "leaving"}
         \/ step \in {"ended", "winding", "leaving"},
         streaming' \subseteq streaming, UNCHANGED target
  PROVE  StreamingIsReal'
BY DEF StreamingIsReal, Goto, TypeInv, TypeOK, Registered

(* No entry becomes streaming and no worker moves.                         *)
LEMMA StreamingSame ==
  ASSUME StreamingIsReal, streaming' \subseteq streaming, UNCHANGED <<pc, target>>
  PROVE  StreamingIsReal'
BY DEF StreamingIsReal

LEMMA StreamingNext == TypeInv /\ StreamingIsReal /\ [Next]_vars => StreamingIsReal'
<1> SUFFICES ASSUME TypeInv, StreamingIsReal, [Next]_vars
             PROVE  StreamingIsReal'
  OBVIOUS
<1>1. ASSUME NEW w \in Workers, NEW t \in Targets, Connect(w, t)
      PROVE  StreamingIsReal'
  BY <1>1 DEF Connect, Goto, StreamingIsReal, TypeInv, TypeOK, Registered
<1>2. CASE Resume
  BY <1>2, StreamingSame DEF Resume
<1>3. ASSUME NEW t \in Targets, Disconnect(t)
      PROVE  StreamingIsReal'
  BY <1>3, StreamingSame DEF Disconnect, RemoveStream, DropEntries
<1>4. ASSUME StopAll, UNCHANGED <<pc, target>>
      PROVE  StreamingIsReal'
  BY <1>4, StreamingSame DEF StopAll, DropEntries
<1>5. ASSUME NEW w \in Workers, Begin(w)
      PROVE  StreamingIsReal'
  BY <1>5, StreamingGoto DEF Begin, inner, registry
<1>6. ASSUME NEW w \in Workers, Pair(w)
      PROVE  StreamingIsReal'
  BY <1>6, StreamingGoto DEF Pair, inner, registry
<1>7. ASSUME NEW w \in Workers, Park(w)
      PROVE  StreamingIsReal'
  BY <1>7, StreamingGoto DEF Park
<1>8. ASSUME NEW w \in Workers, Wake(w)
      PROVE  StreamingIsReal'
  BY <1>8, StreamingGoto DEF Wake, inner, registry
<1>9. ASSUME NEW w \in Workers, GetBroadcast(w)
      PROVE  StreamingIsReal'
  BY <1>9, StreamingGoto DEF GetBroadcast, inner, registry
<1>10. ASSUME NEW w \in Workers, Build(w)
       PROVE  StreamingIsReal'
  BY <1>10, StreamingGoto DEF Build, inner, registry
<1>11. ASSUME NEW w \in Workers, Install(w)
       PROVE  StreamingIsReal'
  BY <1>11, StreamingGoto DEF Install, registry
<1>12. ASSUME NEW w \in Workers, Record(w)
       PROVE  StreamingIsReal'
  <2>1. CASE control[target[w]] # None
    <3>1. pc'[w] = "mirroring" /\ streaming' = streaming \cup {target[w]}
      BY <1>12, <2>1 DEF Record, Goto, TypeInv, TypeOK
    <3>2. \A v \in Workers :
            pc[v] \in {"mirroring", "ended", "winding", "leaving"} => pc'[v] = pc[v]
      BY <1>12, <2>1 DEF Record, Goto, TypeInv, TypeOK
    <3> QED
      BY <1>12, <3>1, <3>2 DEF Record, StreamingIsReal
  <2>2. CASE control[target[w]] = None
    BY <1>12, <2>2, StreamingGoto DEF Record
  <2> QED
    BY <2>1, <2>2
<1>13. ASSUME NEW w \in Workers, MirrorEnds(w)
       PROVE  StreamingIsReal'
  BY <1>13, StreamingGoto DEF MirrorEnds, inner, registry
<1>14. ASSUME NEW w \in Workers, MirrorWinds(w)
       PROVE  StreamingIsReal'
  BY <1>14, StreamingGoto DEF MirrorWinds, inner, registry
<1>15. ASSUME NEW w \in Workers, MirrorReturns(w)
       PROVE  StreamingIsReal'
  BY <1>15, StreamingGoto DEF MirrorReturns, inner, registry
<1>16. ASSUME NEW w \in Workers, Leave(w)
       PROVE  StreamingIsReal'
  BY <1>16 DEF Leave, RemoveStream, DropEntries, Goto, StreamingIsReal, TypeInv, TypeOK,
               Registered
<1>17. ASSUME NEW c \in Workers, CaptureEnds(c) \/ PumpReturns(c)
       PROVE  StreamingIsReal'
  BY <1>17, StreamingSame DEF CaptureEnds, PumpReturns, inner, registry
<1>18. CASE UNCHANGED vars
  BY <1>18, StreamingSame DEF vars, inner, registry
<1> QED
  BY <1>1, <1>2, <1>3, <1>4, <1>5, <1>6, <1>7, <1>8, <1>9, <1>10, <1>11, <1>12, <1>13,
     <1>14, <1>15, <1>16, <1>17, <1>18
     DEF Next, Request, Worker, Capture, DisconnectAll, PumpStopsAll

-----------------------------------------------------------------------------
(***************************************************************************)
(* The sinks, and who reads what.                                          *)
(***************************************************************************)

(* Dropping the entries that are left before the capture is released tells *)
(* every worker that reads from it.                                        *)
LEMMA ReleaseTellsAll ==
  ASSUME TypeInv, ControlInv, NEW gone \in SUBSET Targets, DropEntries(gone),
         Registered \subseteq gone, UNCHANGED held,
         NEW w \in Workers, pc[w] \notin {"unborn", "spawned", "done"}
  PROVE  held'[w] \in stopped'
<1>1. held[w] \in Workers /\ pc[held[w]] # "unborn"
  BY DEF ControlInv, HoldsControl
<1>2. CASE held[w] \in stopped
  BY <1>2 DEF DropEntries
<1>3. CASE held[w] \notin stopped
  <2>1. target[held[w]] \in Targets
    BY <1>1 DEF TypeInv, HasTarget
  <2>2. control[target[held[w]]] = held[w]
    BY <1>1, <1>3 DEF ControlInv, ControlsReachable
  <2>3. target[held[w]] \in gone
    BY <1>1, <2>1, <2>2, NoneAssumption DEF Registered
  <2> QED
    BY <1>1, <2>2, <2>3 DEF DropEntries
<1> QED
  BY <1>2, <1>3

(* The captures of who has none yet, or has still to install it, are not   *)
(* the one that is released.                                               *)
LEMMA ReleaseSparesOthers ==
  ASSUME TypeInv, CaptureInv, SinkInv, ReleaseCapture,
         NEW w \in Workers, pc[w] \in Early \cup {"built"}
  PROVE  capture'[w] = capture[w]
<1>1. w # captureStop
  BY NoneAssumption DEF CaptureInv, SinkInv, SharedRuns, Early, Late
<1> QED
  BY <1>1 DEF ReleaseCapture

(* Removing a stream, or all of them, keeps the sinks' invariant.          *)
LEMMA SinkInvDrop ==
  ASSUME TypeInv, CaptureInv, ControlInv, SinkInv, NEW gone \in SUBSET Targets,
         DropEntries(gone), MaybeStopBroadcast(gone), UNCHANGED <<held, sink>>,
         \/ UNCHANGED pc
         \/ \E w \in Workers : pc[w] = "leaving" /\ Goto(w, "done")
  PROVE  SinkInv'
<1>1. \A w \in Workers :
        \/ pc'[w] = pc[w]
        \/ pc[w] = "leaving" /\ pc'[w] = "done"
  BY DEF TypeInv, TypeOK, Goto
<1>2. stopped \subseteq stopped'
  BY DEF DropEntries
<1>3. CASE Registered \subseteq gone /\ ReleaseCapture
  <2>1. \A w \in Workers : pc[w] \in {"attached", "mirroring"} => held'[w] \in stopped'
    BY <1>3, ReleaseTellsAll
  <2>2. \A w \in Workers : pc[w] \in Early \cup {"built"} => capture'[w] = capture[w]
    BY <1>3, ReleaseSparesOthers
  <2>3. SharedRuns'
    BY <1>3 DEF ReleaseCapture, SharedRuns
  <2>4. ASSUME NEW w \in Workers
        PROVE  SinkAt(w)'
    BY <1>1, <2>1, <2>2 DEF SinkInv, SinkAt, Early, Late, TypeInv, TypeOK
  <2> QED
    BY <2>3, <2>4 DEF SinkInv
<1>4. CASE KeepCapture
  <2>1. SharedRuns'
    BY <1>1, <1>4 DEF KeepCapture, SinkInv, SharedRuns, Late, TypeInv, TypeOK
  <2>2. ASSUME NEW w \in Workers
        PROVE  SinkAt(w)'
    BY <1>1, <1>2, <1>4 DEF KeepCapture, SinkInv, SinkAt, Early, Late, TypeInv, TypeOK
  <2> QED
    BY <2>1, <2>2 DEF SinkInv
<1> QED
  BY <1>3, <1>4 DEF MaybeStopBroadcast

(* So does a worker's step between two places at which it has no sink.     *)
LEMMA SinkInvGoto ==
  ASSUME TypeInv, SinkInv, NEW w \in Workers, NEW step, Goto(w, step),
         pc[w] \in Early, step \in Early \cup {"leaving", "done"},
         \A v \in Workers \ {w} : held'[v] = held[v],
         step \in {"unborn", "spawned"} => pc[w] = "unborn" /\ held'[w] = held[w],
         UNCHANGED <<stopped, sink, broadcast, capture>>
  PROVE  SinkInv'
<1>1. \A v \in Workers : v # w => pc'[v] = pc[v]
  BY DEF Goto, TypeInv, TypeOK
<1>2. pc'[w] = step
  BY DEF Goto, TypeInv, TypeOK
<1>3. SharedRuns'
  BY <1>1 DEF SinkInv, SharedRuns, Early, Late, TypeInv, TypeOK
<1>4. ASSUME NEW v \in Workers
      PROVE  SinkAt(v)'
  BY <1>1, <1>2 DEF SinkInv, SinkAt, Early, Late
<1> QED
  BY <1>3, <1>4 DEF SinkInv

(* And past the end of the stream.                                         *)
LEMMA SinkInvPast ==
  ASSUME TypeInv, SinkInv, NEW w \in Workers, NEW step, Goto(w, step),
         pc[w] \in {"ended", "winding"}, step \in {"winding", "leaving"},
         stopped \subseteq stopped', UNCHANGED <<held, sink, broadcast, capture>>
  PROVE  SinkInv'
<1>1. /\ pc'[w] = step
      /\ \A v \in Workers : v # w => pc'[v] = pc[v]
  BY DEF Goto, TypeInv, TypeOK
<1>2. SharedRuns'
  BY <1>1 DEF SinkInv, SharedRuns, Late, TypeInv, TypeOK
<1>3. ASSUME NEW v \in Workers
      PROVE  SinkAt(v)'
  BY <1>1 DEF SinkInv, SinkAt, Early, Late
<1> QED
  BY <1>2, <1>3 DEF SinkInv

LEMMA SinkInvSame ==
  ASSUME SinkInv, UNCHANGED <<stopped, pc, held, sink, broadcast, capture>>
  PROVE  SinkInv'
BY DEF SinkInv, SharedRuns, SinkAt

LEMMA SinkInvInit == Init => SinkInv
BY DEF Init, SinkInv, SharedRuns, SinkAt, Early, Late

LEMMA SinkInvNext ==
  TypeInv /\ CaptureInv /\ ControlInv /\ SinkInv /\ [Next]_vars => SinkInv'
<1> SUFFICES ASSUME TypeInv, CaptureInv, ControlInv, SinkInv, [Next]_vars
             PROVE  SinkInv'
  OBVIOUS
<1>1. ASSUME NEW w \in Workers, NEW t \in Targets, Connect(w, t)
      PROVE  SinkInv'
  BY <1>1, SinkInvGoto DEF Connect, Early
<1>2. CASE Resume
  BY <1>2, SinkInvSame DEF Resume
<1>3. ASSUME NEW t \in Targets, Disconnect(t)
      PROVE  SinkInv'
  BY <1>3, SinkInvDrop DEF Disconnect, RemoveStream
<1>4. CASE DisconnectAll
  BY <1>4, SinkInvDrop DEF DisconnectAll, StopAll, MaybeStopBroadcast, Registered
<1>5. ASSUME NEW w \in Workers, Begin(w)
      PROVE  SinkInv'
  <2>1. \A v \in Workers \ {w} : held'[v] = held[v]
    BY <1>5 DEF Begin, TypeInv, TypeOK
  <2> QED
    BY <1>5, <2>1, SinkInvGoto DEF Begin, Early, inner, registry
<1>6. ASSUME NEW w \in Workers, Pair(w)
      PROVE  SinkInv'
  BY <1>6, SinkInvGoto DEF Pair, Early, inner, registry
<1>7. ASSUME NEW w \in Workers, Park(w)
      PROVE  SinkInv'
  BY <1>7, SinkInvGoto DEF Park, Early
<1>8. ASSUME NEW w \in Workers, Wake(w)
      PROVE  SinkInv'
  BY <1>8, SinkInvGoto DEF Wake, Early, inner, registry
<1>9. ASSUME NEW w \in Workers, GetBroadcast(w)
      PROVE  SinkInv'
  <2>1. CASE broadcast = None /\ Goto(w, "building") /\ UNCHANGED sink
    BY <1>9, <2>1, SinkInvGoto DEF GetBroadcast, Early, inner, registry
  <2>2. CASE /\ broadcast # None
             /\ sink' = [sink EXCEPT ![w] = broadcast]
             /\ Goto(w, "attached")
    <3>1. /\ pc'[w] = "attached" /\ sink'[w] = broadcast
          /\ \A v \in Workers : v # w => pc'[v] = pc[v] /\ sink'[v] = sink[v]
      BY <2>2 DEF Goto, TypeInv, TypeOK
    <3>2. UNCHANGED <<stopped, held, capture, broadcast>>
      BY <1>9 DEF GetBroadcast, inner
    <3>3. broadcast \in Workers /\ pc[w] = "paired"
      BY <1>9, <2>2 DEF GetBroadcast, TypeInv, TypeOK
    <3>4. SharedRuns'
      BY <3>1, <3>2, <3>3 DEF SinkInv, SharedRuns, Late
    <3>5. ASSUME NEW v \in Workers
          PROVE  SinkAt(v)'
      BY <2>2, <3>1, <3>2, <3>3 DEF SinkInv, SharedRuns, SinkAt, Early, Late
    <3> QED
      BY <3>4, <3>5 DEF SinkInv
  <2> QED
    BY <1>9, <2>1, <2>2 DEF GetBroadcast
<1>10. ASSUME NEW w \in Workers, Build(w)
       PROVE  SinkInv'
  <2>1. CASE Goto(w, "leaving") /\ UNCHANGED <<capture, sink>>
    BY <1>10, <2>1, SinkInvGoto DEF Build, Early, inner, registry
  <2>2. CASE /\ capture' = [capture EXCEPT ![w] = "live"]
             /\ sink' = [sink EXCEPT ![w] = w]
             /\ Goto(w, "built")
    <3>1. /\ pc'[w] = "built" /\ sink'[w] = w /\ capture'[w] = "live"
          /\ \A v \in Workers : v # w => /\ pc'[v] = pc[v] /\ sink'[v] = sink[v]
                                         /\ capture'[v] = capture[v]
      BY <2>2 DEF Goto, TypeInv, TypeOK
    <3>2. UNCHANGED <<stopped, held, broadcast>> /\ pc[w] = "building"
      BY <1>10 DEF Build, inner
    <3>3. SharedRuns'
      BY <3>1, <3>2 DEF SinkInv, SharedRuns, Late, TypeInv, TypeOK
    <3>4. ASSUME NEW v \in Workers
          PROVE  SinkAt(v)'
      BY <3>1, <3>2 DEF SinkInv, SinkAt, Early, Late
    <3> QED
      BY <3>3, <3>4 DEF SinkInv
  <2> QED
    BY <1>10, <2>1, <2>2 DEF Build
<1>11. ASSUME NEW w \in Workers, Install(w)
       PROVE  SinkInv'
  <2>1. /\ pc[w] = "built" /\ pc'[w] = "attached"
        /\ \A v \in Workers : v # w => pc'[v] = pc[v]
        /\ UNCHANGED <<stopped, held>>
    BY <1>11 DEF Install, Goto, TypeInv, TypeOK
  <2>2. CASE /\ broadcast # None
             /\ sink' = [sink EXCEPT ![w] = broadcast]
             /\ capture' = [capture EXCEPT ![w] = "stopped"]
             /\ UNCHANGED broadcast
    <3>1. /\ sink'[w] = broadcast
          /\ \A v \in Workers : v # w => sink'[v] = sink[v] /\ capture'[v] = capture[v]
      BY <2>2 DEF TypeInv, TypeOK
    <3>2. broadcast \in Workers /\ broadcast # w
      BY <2>1, <2>2 DEF SinkInv, SharedRuns, Late, TypeInv, TypeOK
    <3>3. SharedRuns'
      BY <2>1, <2>2, <3>1, <3>2 DEF SinkInv, SharedRuns
    <3>4. ASSUME NEW v \in Workers
          PROVE  SinkAt(v)'
      BY <2>1, <2>2, <3>1, <3>2 DEF SinkInv, SharedRuns, SinkAt, Early, Late
    <3> QED
      BY <3>3, <3>4 DEF SinkInv
  <2>3. CASE broadcast = None /\ broadcast' = w /\ UNCHANGED <<sink, capture>>
    <3>1. SharedRuns'
      BY <2>1, <2>3 DEF SinkInv, SharedRuns, SinkAt, Late
    <3>2. ASSUME NEW v \in Workers
          PROVE  SinkAt(v)'
      BY <2>1, <2>3, NoneAssumption DEF SinkInv, SinkAt, Early, Late
    <3> QED
      BY <3>1, <3>2 DEF SinkInv
  <2> QED
    BY <1>11, <2>2, <2>3 DEF Install
<1>12. ASSUME NEW w \in Workers, Record(w)
       PROVE  SinkInv'
  <2>1. pc[w] = "attached" /\ UNCHANGED <<stopped, held>> /\ target[w] \in Targets
    BY <1>12 DEF Record, TypeInv, HasTarget
  <2>2. CASE Goto(w, "mirroring") /\ UNCHANGED sink /\ KeepCapture
    <3>1. pc'[w] = "mirroring" /\ \A v \in Workers : v # w => pc'[v] = pc[v]
      BY <2>2 DEF Goto, TypeInv, TypeOK
    <3>2. SharedRuns'
      BY <2>1, <2>2, <3>1 DEF KeepCapture, SinkInv, SharedRuns, Late, TypeInv, TypeOK
    <3>3. ASSUME NEW v \in Workers
          PROVE  SinkAt(v)'
      BY <2>1, <2>2, <3>1 DEF KeepCapture, SinkInv, SinkAt, Early, Late
    <3> QED
      BY <3>2, <3>3 DEF SinkInv
  <2>3. CASE /\ sink' = [sink EXCEPT ![w] = None]
             /\ Goto(w, "done")
             /\ MaybeStopBroadcast({})
    <3>1. /\ pc'[w] = "done" /\ sink'[w] = None
          /\ \A v \in Workers : v # w => pc'[v] = pc[v] /\ sink'[v] = sink[v]
      BY <2>3 DEF Goto, TypeInv, TypeOK
    <3>2. CASE KeepCapture
      <4>1. SharedRuns'
        BY <2>1, <3>1, <3>2 DEF KeepCapture, SinkInv, SharedRuns, Late, TypeInv, TypeOK
      <4>2. ASSUME NEW v \in Workers
            PROVE  SinkAt(v)'
        BY <2>1, <3>1, <3>2 DEF KeepCapture, SinkInv, SinkAt, Early, Late
      <4> QED
        BY <4>1, <4>2 DEF SinkInv
    <3>3. CASE Registered = {} /\ ReleaseCapture
      <4>1. \A v \in Workers : pc[v] \in {"attached", "mirroring"} => held[v] \in stopped
        BY <3>3, NoneAssumption
           DEF Registered, ControlInv, HoldsControl, ControlsReachable, TypeInv, HasTarget
      <4>2. \A v \in Workers : pc[v] \in Early \cup {"built"} => capture'[v] = capture[v]
        BY <3>3, ReleaseSparesOthers
      <4>3. SharedRuns'
        BY <3>3 DEF ReleaseCapture, SharedRuns
      <4>4. ASSUME NEW v \in Workers
            PROVE  SinkAt(v)'
        BY <2>1, <3>1, <4>1, <4>2 DEF SinkInv, SinkAt, Early, Late
      <4> QED
        BY <4>3, <4>4 DEF SinkInv
    <3> QED
      BY <2>3, <3>2, <3>3 DEF MaybeStopBroadcast
  <2> QED
    BY <1>12, <2>2, <2>3 DEF Record
<1>13. ASSUME NEW w \in Workers, MirrorEnds(w)
       PROVE  SinkInv'
  <2>1. /\ pc[w] = "mirroring" /\ pc'[w] \in {"ended", "leaving"} /\ sink'[w] = None
        /\ \A v \in Workers : v # w => pc'[v] = pc[v] /\ sink'[v] = sink[v]
        /\ UNCHANGED <<stopped, held, broadcast, capture>>
    BY <1>13 DEF MirrorEnds, Goto, inner, TypeInv, TypeOK
  <2>2. SharedRuns'
    BY <2>1 DEF SinkInv, SharedRuns, Late, TypeInv, TypeOK
  <2>3. ASSUME NEW v \in Workers
        PROVE  SinkAt(v)'
    BY <2>1 DEF SinkInv, SinkAt, Early, Late
  <2> QED
    BY <2>2, <2>3 DEF SinkInv
<1>14. ASSUME NEW w \in Workers, MirrorWinds(w)
       PROVE  SinkInv'
  BY <1>14, SinkInvPast DEF MirrorWinds, inner, registry
<1>15. ASSUME NEW w \in Workers, MirrorReturns(w)
       PROVE  SinkInv'
  BY <1>15, SinkInvPast DEF MirrorReturns, inner, registry
<1>16. ASSUME NEW w \in Workers, Leave(w)
       PROVE  SinkInv'
  <2>1. target[w] \in Targets
    BY <1>16 DEF Leave, TypeInv, HasTarget
  <2> QED
    BY <1>16, <2>1, SinkInvDrop DEF Leave, RemoveStream
<1>17. ASSUME NEW c \in Workers, Capture(c)
       PROVE  SinkInv'
  <2>1. CASE CaptureEnds(c)
    <3>1. /\ capture[c] = "live" /\ capture'[c] = "silent"
          /\ \A v \in Workers : v # c => capture'[v] = capture[v]
          /\ UNCHANGED <<stopped, held, broadcast, pc, sink>>
      BY <2>1 DEF CaptureEnds, inner, TypeInv, TypeOK
    <3>2. SharedRuns'
      BY <3>1 DEF SinkInv, SharedRuns, TypeInv, TypeOK
    <3>3. ASSUME NEW v \in Workers
          PROVE  SinkAt(v)'
      BY <3>1 DEF SinkInv, SinkAt
    <3> QED
      BY <3>2, <3>3 DEF SinkInv
  <2>2. CASE PumpReturns(c)
    BY <2>2, SinkInvSame DEF PumpReturns, inner, registry
  <2>3. CASE PumpStopsAll(c)
    BY <2>3, SinkInvDrop DEF PumpStopsAll, StopAll, MaybeStopBroadcast, Registered
  <2> QED
    BY <1>17, <2>1, <2>2, <2>3 DEF Capture
<1>18. CASE UNCHANGED vars
  BY <1>18, SinkInvSame DEF vars, inner, registry
<1> QED
  BY <1>1, <1>2, <1>3, <1>4, <1>5, <1>6, <1>7, <1>8, <1>9, <1>10, <1>11, <1>12, <1>13,
     <1>14, <1>15, <1>16, <1>17, <1>18
     DEF Next, Request, Worker

-----------------------------------------------------------------------------
(***************************************************************************)
(* The theorems.                                                           *)
(***************************************************************************)

(* The inductive invariant holds of every reachable state.                 *)
THEOREM Invariance == Spec => []IInv
<1>1. Init => IInv
  BY TypeInvInit, CaptureInvInit, ControlInvInit, PinInvInit, SinkInvInit
     DEF IInv, Init, StreamingIsReal
<1>2. IInv /\ [Next]_vars => IInv'
  BY TypeInvNext, CaptureInvNext, ControlInvNext, PinInvNext, StreamingNext, SinkInvNext
     DEF IInv
<1> QED
  BY <1>1, <1>2, PTL DEF Spec

(* Every variable of the daemon keeps its type; in particular only entries *)
(* of the registry are ever in STATE_STREAMING.                            *)
THEOREM TypeCorrect == Spec => []TypeOK
<1>1. IInv => TypeOK
  BY DEF IInv, TypeInv
<1> QED
  BY <1>1, Invariance, PTL

(* However connects, disconnects and endings of captures interleave, no    *)
(* screen capture keeps running that the daemon has lost track of.         *)
THEOREM CaptureNeverLeaks == Spec => []NoLeakedCapture
<1>1. IInv => NoLeakedCapture
  BY DEF IInv, CaptureInv
<1> QED
  BY <1>1, Invariance, PTL

(* The daemon keeps a shared capture only for a registered stream or for a *)
(* worker about to look for one.                                           *)
THEOREM CaptureNeverIdle == Spec => []NoIdleCapture
<1>1. IInv => NoIdleCapture
  BY DEF IInv, CaptureInv
<1> QED
  BY <1>1, Invariance, PTL

(* Whatever control a running mirror works with, it is told to stop or can *)
(* be reached through the registry.                                        *)
THEOREM MirrorsCanBeStopped == Spec => []EveryMirrorCanBeStopped
<1>1. IInv => EveryMirrorCanBeStopped
  BY DEF IInv, TypeInv, HasTarget, ControlInv, ControlsReachable, HoldsControl,
         EveryMirrorCanBeStopped
<1> QED
  BY <1>1, Invariance, PTL

(* pin_required is reported only of a target a worker of which waits.      *)
THEOREM PinRequiredReal == Spec => []PinRequiredIsReal
<1>1. IInv => PinRequiredIsReal
  BY DEF IInv, PinInv
<1> QED
  BY <1>1, Invariance, PTL

(* A streaming entry belongs to a target that some worker streams to, or   *)
(* has stopped streaming to and not yet left.                              *)
THEOREM StreamingReal == Spec => []StreamingIsReal
<1>1. IInv => StreamingIsReal
  BY DEF IInv
<1> QED
  BY <1>1, Invariance, PTL

(* No entry survives the worker it was made for.                           *)
THEOREM EntriesDie == Spec => []NoDeadEntry
<1>1. IInv => NoDeadEntry
  BY DEF IInv, ControlInv
<1> QED
  BY <1>1, Invariance, PTL

(* A PIN channel carries one answer: a step that writes to a channel finds *)
(* its worker waiting, and one that finds an answer in it leaves it.       *)
THEOREM ChannelsAnsweredOnce == Spec => AnsweredOnce
<1>1. IInv /\ [Next]_vars
        => [\A w \in Workers : mail[w] # "none" => mail'[w] = mail[w]]_vars
  <2> SUFFICES ASSUME IInv, Next, NEW w \in Workers, mail[w] # "none"
               PROVE  mail'[w] = mail[w]
    OBVIOUS
  <2>1. \A t \in Targets : pinTx[t] # w
    BY DEF IInv, PinInv, ChannelsOpen, Parked
  <2>2. ASSUME NEW gone \in SUBSET Targets, DropEntries(gone)
        PROVE  mail'[w] = mail[w]
    BY <2>1, <2>2 DEF DropEntries
  <2>3. CASE Resume
    BY <2>1, <2>3 DEF Resume, IInv, TypeInv, TypeOK
  <2>4. ASSUME NEW v \in Workers, Leave(v)
        PROVE  mail'[w] = mail[w]
    BY <2>2, <2>4 DEF Leave, RemoveStream, IInv, TypeInv, HasTarget
  <2>5. CASE Request
    BY <2>2, <2>3, <2>5
       DEF Request, Connect, Disconnect, DisconnectAll, RemoveStream, StopAll
  <2>6. ASSUME NEW v \in Workers, Worker(v)
        PROVE  mail'[w] = mail[w]
    BY <2>4, <2>6
       DEF Worker, Begin, Pair, Park, Wake, GetBroadcast, Build, Install, Record,
           MirrorEnds, MirrorWinds, MirrorReturns
  <2>7. ASSUME NEW c \in Workers, Capture(c)
        PROVE  mail'[w] = mail[w]
    BY <2>2, <2>7 DEF Capture, CaptureEnds, PumpReturns, PumpStopsAll, StopAll
  <2> QED
    BY <2>5, <2>6, <2>7 DEF Next
<1> QED
  BY <1>1, Invariance, PTL DEF Spec, AnsweredOnce

-----------------------------------------------------------------------------
(***************************************************************************)
(* Daemon implements SharedCapture.                                        *)
(***************************************************************************)

SharedStep == [Abstract!Next]_(Abstract!vars)

(* The capture's state, by what it depends on.                             *)
LEMMA StatesType ==
  ASSUME TypeInv, NEW c \in Workers
  PROVE  CaptureStates[c] = CaptureState(c) /\ CaptureState(c) \in {"none", "private", "shared", "stopped"}
BY DEF CaptureStates, CaptureState, TypeInv, TypeOK

LEMMA StatesSame ==
  ASSUME UNCHANGED <<capture, broadcast>>
  PROVE  CaptureStates' = CaptureStates
BY DEF CaptureStates, CaptureState

(* Only a shared capture is called shared, and only it.                    *)
LEMMA SharedIs ==
  ASSUME TypeInv, SinkInv, NEW c \in Workers
  PROVE  CaptureStates[c] = "shared" <=> broadcast = c
BY StatesType, NoneAssumption DEF CaptureState, SinkInv, SharedRuns

(* A step at which no picture starts or ends to be sent, and no capture    *)
(* changes hands, may have told some mirrors to stop.                      *)
LEMMA TellStep ==
  ASSUME UNCHANGED <<CaptureStates, sink, Mirroring>>, Told \subseteq Told'
  PROVE  SharedStep
<1>1. Abstract!Tell(Told')
  BY DEF Abstract!Tell
<1>2. Told' \in SUBSET Workers
  BY DEF Told
<1> QED
  BY <1>1, <1>2 DEF SharedStep, Abstract!Next

(* A worker that neither begins nor ends to mirror leaves those who do.    *)
LEMMA MirroringSame ==
  ASSUME TypeInv, NEW w \in Workers, NEW step, Goto(w, step),
         pc[w] # "mirroring", step # "mirroring"
  PROVE  Mirroring' = Mirroring
BY DEF Mirroring, Goto, TypeInv, TypeOK

(* When the capture is released, it is stopped, and no other is.           *)
LEMMA ReleaseStates ==
  ASSUME TypeInv, CaptureInv, SinkInv, ReleaseCapture
  PROVE  \/ broadcast = None /\ CaptureStates' = CaptureStates
         \/ /\ broadcast \in Workers
            /\ CaptureStates' = [CaptureStates EXCEPT ![broadcast] = "stopped"]
<1>1. CASE broadcast = None
  BY <1>1, NoneAssumption
     DEF ReleaseCapture, CaptureInv, CaptureStates, CaptureState, TypeInv, TypeOK
<1>2. CASE broadcast # None
  <2>1. broadcast \in Workers
    BY <1>2 DEF TypeInv, TypeOK
  <2> DEFINE after == [CaptureStates EXCEPT ![broadcast] = "stopped"]
  <2>2. ASSUME NEW c \in Workers
        PROVE  CaptureState(c)' = after[c]
    <3>1. CASE c = broadcast
      BY <2>1, <3>1 DEF ReleaseCapture, CaptureInv, CaptureState, CaptureStates
    <3>2. CASE c # broadcast
      BY <2>1, <3>2, NoneAssumption
         DEF ReleaseCapture, CaptureInv, CaptureState, CaptureStates, TypeInv, TypeOK
    <3> QED
      BY <3>1, <3>2
  <2>3. after = [c \in Workers |-> after[c]]
    BY DEF CaptureStates
  <2>4. CaptureStates' = after
    BY <2>2, <2>3 DEF CaptureStates
  <2> QED
    BY <2>1, <2>4
<1> QED
  BY <1>1, <1>2

(* Removing streams tells their mirrors, and may stop the capture: then    *)
(* every mirror has been told.                                             *)
LEMMA DropStep ==
  ASSUME IInv, NEW gone \in SUBSET Targets,
         DropEntries(gone), MaybeStopBroadcast(gone), UNCHANGED <<held, sink>>,
         \/ UNCHANGED pc
         \/ \E w \in Workers : pc[w] = "leaving" /\ Goto(w, "done")
  PROVE  SharedStep
<1> USE DEF IInv
<1>1. Told \subseteq Told'
  BY DEF Told, DropEntries
<1>2. Mirroring' = Mirroring
  <2>1. CASE UNCHANGED pc
    BY <2>1 DEF Mirroring
  <2>2. CASE \E w \in Workers : pc[w] = "leaving" /\ Goto(w, "done")
    BY <2>2, MirroringSame
  <2> QED
    BY <2>1, <2>2
<1>3. CASE KeepCapture
  <2>1. CaptureStates' = CaptureStates
    BY <1>3, StatesSame DEF KeepCapture
  <2> QED
    BY <1>1, <1>2, <2>1, TellStep
<1>4. CASE Registered \subseteq gone /\ ReleaseCapture
  <2>1. CASE broadcast = None /\ CaptureStates' = CaptureStates
    BY <1>1, <1>2, <2>1, TellStep
  <2>2. CASE /\ broadcast \in Workers
             /\ CaptureStates' = [CaptureStates EXCEPT ![broadcast] = "stopped"]
    <3>1. Mirroring \subseteq Told'
      BY <1>4, ReleaseTellsAll DEF Mirroring, Told
    <3>2. CaptureStates[broadcast] = "shared"
      BY <2>2, SharedIs
    <3>3. Abstract!Stop(broadcast, Told')
      BY <1>1, <1>2, <2>2, <3>1, <3>2 DEF Abstract!Stop, Abstract!Stopped
    <3>4. Told' \in SUBSET Workers
      BY DEF Told
    <3> QED
      BY <2>2, <3>3, <3>4 DEF SharedStep, Abstract!Next
  <2> QED
    BY <1>4, <2>1, <2>2, ReleaseStates
<1> QED
  BY <1>3, <1>4 DEF MaybeStopBroadcast

(* A worker's step that leaves the sinks and the captures alone.           *)
LEMMA QuietStep ==
  ASSUME TypeInv, NEW w \in Workers, NEW step, Goto(w, step),
         pc[w] # "mirroring", step # "mirroring",
         \A v \in Workers : held'[v] = held[v] \/ held[v] = None,
         stopped \subseteq stopped', UNCHANGED <<sink, broadcast, capture>>
  PROVE  SharedStep
<1>1. Told \subseteq Told'
  BY NoneAssumption DEF Told, TypeInv, TypeOK
<1> QED
  BY <1>1, MirroringSame, StatesSame, TellStep

(* Building a capture starts one that is nobody else's.                    *)
LEMMA BuildStep ==
  ASSUME IInv, NEW w \in Workers, Build(w)
  PROVE  SharedStep
<1> USE DEF IInv
<1>1. CASE Goto(w, "leaving") /\ UNCHANGED <<capture, sink>>
  BY <1>1, QuietStep DEF Build, inner
<1>2. CASE /\ capture' = [capture EXCEPT ![w] = "live"]
           /\ sink' = [sink EXCEPT ![w] = w]
           /\ Goto(w, "built")
  <2>1. pc[w] = "building" /\ UNCHANGED <<stopped, held, broadcast>>
    BY <1>2 DEF Build, inner
  <2>2. capture[w] = "none" /\ sink[w] = None
    BY <2>1 DEF SinkInv, SinkAt, Early
  <2>3. broadcast # w
    BY <2>1, NoneAssumption DEF SinkInv, SharedRuns, Late
  <2>4. CaptureStates' = [CaptureStates EXCEPT ![w] = "private"]
    BY <1>2, <2>1, <2>3 DEF CaptureStates, CaptureState, TypeInv, TypeOK
  <2>5. CaptureStates[w] = "none"
    BY <2>2, StatesType DEF CaptureState
  <2>6. UNCHANGED <<Mirroring, Told>>
    BY <1>2, <2>1, MirroringSame DEF Told
  <2>7. Abstract!Start(w)
    BY <1>2, <2>2, <2>4, <2>5, <2>6 DEF Abstract!Start
  <2> QED
    BY <2>7 DEF SharedStep, Abstract!Next
<1> QED
  BY <1>1, <1>2 DEF Build

(* Joining the shared capture.                                             *)
LEMMA GetStep ==
  ASSUME IInv, NEW w \in Workers, GetBroadcast(w)
  PROVE  SharedStep
<1> USE DEF IInv
<1>1. pc[w] = "paired" /\ UNCHANGED <<stopped, held, broadcast, capture>>
  BY DEF GetBroadcast, inner
<1>2. CASE Goto(w, "building") /\ UNCHANGED sink
  BY <1>1, <1>2, QuietStep
<1>3. CASE /\ broadcast # None
           /\ sink' = [sink EXCEPT ![w] = broadcast]
           /\ Goto(w, "attached")
  <2>1. broadcast \in Workers
    BY <1>3 DEF TypeInv, TypeOK
  <2>2. sink[w] = None
    BY <1>1 DEF SinkInv, SinkAt
  <2>3. UNCHANGED <<Mirroring, Told, CaptureStates>>
    BY <1>1, <1>3, MirroringSame, StatesSame DEF Told
  <2>4. Abstract!Join(w, broadcast)
    BY <1>3, <2>1, <2>2, <2>3, SharedIs DEF Abstract!Join
  <2> QED
    BY <2>1, <2>4 DEF SharedStep, Abstract!Next
<1> QED
  BY <1>2, <1>3 DEF GetBroadcast

(* Installing the capture that was built, or giving it up for another.     *)
LEMMA InstallStep ==
  ASSUME IInv, NEW w \in Workers, Install(w)
  PROVE  SharedStep
<1> USE DEF IInv
<1>1. pc[w] = "built" /\ Goto(w, "attached") /\ UNCHANGED <<stopped, held>>
  BY DEF Install
<1>2. sink[w] = w /\ capture[w] \in {"live", "silent"}
  BY <1>1 DEF SinkInv, SinkAt
<1>3. broadcast # w
  BY <1>1, NoneAssumption DEF SinkInv, SharedRuns, Late
<1>4. CaptureStates[w] = "private"
  BY <1>2, <1>3, StatesType DEF CaptureState
<1>5. UNCHANGED <<Mirroring, Told>>
  BY <1>1, MirroringSame DEF Told
<1>6. CASE /\ broadcast # None
           /\ sink' = [sink EXCEPT ![w] = broadcast]
           /\ capture' = [capture EXCEPT ![w] = "stopped"]
           /\ UNCHANGED broadcast
  <2>1. broadcast \in Workers /\ CaptureStates[broadcast] = "shared"
    BY <1>6, SharedIs DEF TypeInv, TypeOK
  <2>2. CaptureStates' = [CaptureStates EXCEPT ![w] = "stopped"]
    BY <1>6 DEF CaptureStates, CaptureState, TypeInv, TypeOK
  <2>3. Abstract!GiveUp(w, broadcast)
    BY <1>4, <1>5, <1>6, <2>1, <2>2 DEF Abstract!GiveUp
  <2> QED
    BY <2>1, <2>3 DEF SharedStep, Abstract!Next
<1>7. CASE broadcast = None /\ broadcast' = w /\ UNCHANGED <<sink, capture>>
  <2>1. \A d \in Workers : CaptureStates[d] # "shared"
    BY <1>7, SharedIs, NoneAssumption
  <2>2. CaptureStates' = [CaptureStates EXCEPT ![w] = "shared"]
    <3> DEFINE after == [CaptureStates EXCEPT ![w] = "shared"]
    <3>1. ASSUME NEW c \in Workers
          PROVE  CaptureState(c)' = after[c]
      <4>1. CASE c = w
        BY <1>2, <1>7, <4>1 DEF CaptureState, CaptureStates
      <4>2. CASE c # w
        BY <1>7, <4>2, NoneAssumption DEF CaptureState, CaptureStates
      <4> QED
        BY <4>1, <4>2
    <3>2. after = [c \in Workers |-> after[c]]
      BY DEF CaptureStates
    <3> QED
      BY <3>1, <3>2 DEF CaptureStates
  <2>3. Abstract!Share(w)
    BY <1>4, <1>5, <1>7, <2>1, <2>2 DEF Abstract!Share
  <2> QED
    BY <2>3 DEF SharedStep, Abstract!Next
<1> QED
  BY <1>6, <1>7 DEF Install

(* A worker that has a sink may leave: nobody else's capture is in it that *)
(* has still to be installed.                                              *)
LEMMA MayLeave ==
  ASSUME IInv, NEW w \in Workers, pc[w] \in {"attached", "mirroring"}
  PROVE  sink[w] \in Workers /\ sink[w] # None /\ CaptureStates[sink[w]] # "private"
<1> USE DEF IInv
<1>1. sink[w] \in Workers /\ pc[sink[w]] \in Late
  BY DEF SinkInv, SinkAt
<1>2. capture[sink[w]] \in {"live", "silent"} => broadcast = sink[w]
  BY <1>1 DEF CaptureInv, NoLeakedCapture, Late
<1>3. CaptureStates[sink[w]] # "private"
  BY <1>1, <1>2, StatesType DEF CaptureState, TypeInv, TypeOK
<1> QED
  BY <1>1, <1>3, NoneAssumption

(* The step to STATE_STREAMING, or out of it, if there is no entry.        *)
LEMMA RecordStep ==
  ASSUME IInv, NEW w \in Workers, Record(w)
  PROVE  SharedStep
<1> USE DEF IInv
<1>1. pc[w] = "attached" /\ UNCHANGED <<stopped, held>>
  BY DEF Record
<1>2. CASE Goto(w, "mirroring") /\ UNCHANGED sink /\ KeepCapture
  <2>1. CaptureStates[sink[w]] = "shared" \/ w \in Told
    BY <1>1, MayLeave, SharedIs DEF SinkInv, SinkAt, Told
  <2>2. Mirroring' = Mirroring \cup {w}
    BY <1>2 DEF Mirroring, Goto, TypeInv, TypeOK
  <2>3. UNCHANGED <<CaptureStates, Told>>
    BY <1>1, <1>2, StatesSame DEF KeepCapture, Told
  <2>4. Abstract!Watch(w)
    BY <1>1, <1>2, <2>1, <2>2, <2>3, MayLeave DEF Abstract!Watch
  <2> QED
    BY <2>4 DEF SharedStep, Abstract!Next
<1>3. CASE /\ sink' = [sink EXCEPT ![w] = None]
           /\ Goto(w, "done")
           /\ MaybeStopBroadcast({})
  <2>1. w \notin Mirroring /\ Mirroring' = Mirroring
    BY <1>1, <1>3, MirroringSame DEF Mirroring
  <2>2. Abstract!Left(w)
    BY <1>1, <1>3, <2>1, MayLeave DEF Abstract!Left
  <2>3. Told' = Told
    BY <1>1 DEF Told
  <2>4. CASE CaptureStates' = CaptureStates
    <3>1. Abstract!Leave(w)
      BY <2>2, <2>3, <2>4 DEF Abstract!Leave
    <3> QED
      BY <3>1 DEF SharedStep, Abstract!Next
  <2>5. CASE /\ Registered = {}
             /\ broadcast \in Workers
             /\ CaptureStates' = [CaptureStates EXCEPT ![broadcast] = "stopped"]
    <3>1. Mirroring \subseteq Told
      BY <2>5, NoneAssumption
         DEF Mirroring, Told, Registered, ControlInv, HoldsControl, ControlsReachable,
             TypeInv, HasTarget
    <3>2. CaptureStates[broadcast] = "shared"
      BY <2>5, SharedIs
    <3>3. Abstract!Stopped(broadcast)
      BY <2>3, <2>5, <3>1, <3>2 DEF Abstract!Stopped
    <3>4. Abstract!LeaveLast(w, broadcast)
      BY <2>2, <2>3, <3>3 DEF Abstract!LeaveLast
    <3> QED
      BY <2>5, <3>4 DEF SharedStep, Abstract!Next
  <2> QED
    BY <1>3, <2>4, <2>5, ReleaseStates, StatesSame DEF MaybeStopBroadcast, KeepCapture
<1> QED
  BY <1>2, <1>3 DEF Record

LEMMA EndStep ==
  ASSUME IInv, NEW w \in Workers, MirrorEnds(w)
  PROVE  SharedStep
<1> USE DEF IInv
<1>1. pc[w] = "mirroring" /\ sink' = [sink EXCEPT ![w] = None]
  BY DEF MirrorEnds
<1>2. Mirroring' = Mirroring \ {w}
  BY DEF MirrorEnds, Mirroring, Goto, TypeInv, TypeOK
<1>3. UNCHANGED <<CaptureStates, Told>>
  BY StatesSame DEF MirrorEnds, Told, inner
<1>4. Abstract!Leave(w)
  BY <1>1, <1>2, <1>3, MayLeave DEF Abstract!Leave, Abstract!Left
<1> QED
  BY <1>4 DEF SharedStep, Abstract!Next

(* Every step of the daemon is a step of the shared capture, or none.      *)
LEMMA EveryStepShares == IInv /\ [Next]_vars => SharedStep
<1> SUFFICES ASSUME IInv, [Next]_vars
             PROVE  SharedStep
  OBVIOUS
<1> USE DEF IInv
<1>1. ASSUME NEW w \in Workers, NEW t \in Targets, Connect(w, t)
      PROVE  SharedStep
  BY <1>1, QuietStep DEF Connect
<1>2. CASE Resume
  BY <1>2, StatesSame, TellStep DEF Resume, Mirroring, Told
<1>3. ASSUME NEW t \in Targets, Disconnect(t)
      PROVE  SharedStep
  BY <1>3, DropStep DEF Disconnect, RemoveStream
<1>4. CASE DisconnectAll
  BY <1>4, DropStep DEF DisconnectAll, StopAll, MaybeStopBroadcast, Registered
<1>5. ASSUME NEW w \in Workers, Begin(w)
      PROVE  SharedStep
  <2>1. held[w] = None
    BY <1>5 DEF Begin, SinkInv, SinkAt
  <2> QED
    BY <1>5, <2>1, QuietStep DEF Begin, inner, TypeInv, TypeOK
<1>6. ASSUME NEW w \in Workers, Pair(w) \/ Park(w) \/ Wake(w)
      PROVE  SharedStep
  BY <1>6, QuietStep DEF Pair, Park, Wake, inner
<1>7. ASSUME NEW w \in Workers, MirrorWinds(w) \/ MirrorReturns(w)
      PROVE  SharedStep
  BY <1>7, QuietStep DEF MirrorWinds, MirrorReturns, inner
<1>8. ASSUME NEW w \in Workers, Leave(w)
      PROVE  SharedStep
  <2>1. target[w] \in Targets
    BY <1>8 DEF Leave, TypeInv, HasTarget
  <2> QED
    BY <1>8, <2>1, DropStep DEF Leave, RemoveStream
<1>9. ASSUME NEW c \in Workers, Capture(c)
      PROVE  SharedStep
  <2>1. CASE CaptureEnds(c)
    <3>1. CaptureStates' = CaptureStates
      BY <2>1 DEF CaptureEnds, inner, CaptureStates, CaptureState, TypeInv, TypeOK
    <3> QED
      BY <2>1, <3>1, TellStep DEF CaptureEnds, Mirroring, Told
  <2>2. CASE PumpReturns(c)
    BY <2>2, StatesSame, TellStep DEF PumpReturns, inner, Mirroring, Told
  <2>3. CASE PumpStopsAll(c)
    BY <2>3, DropStep DEF PumpStopsAll, StopAll, MaybeStopBroadcast, Registered
  <2> QED
    BY <1>9, <2>1, <2>2, <2>3 DEF Capture
<1>10. CASE UNCHANGED vars
  BY <1>10, StatesSame, TellStep DEF vars, inner, Mirroring, Told
<1> QED
  BY <1>1, <1>2, <1>3, <1>4, <1>5, <1>6, <1>7, <1>8, <1>9, <1>10,
     GetStep, BuildStep, InstallStep, RecordStep, EndStep
     DEF Next, Request, Worker

LEMMA StartsShared == Init => Abstract!Init
BY DEF Init, Abstract!Init, CaptureStates, CaptureState, Mirroring, Told

(* However threads and requests interleave, the mirrors share one capture  *)
(* as SharedCapture says: none that was not told to stop loses it.         *)
THEOREM SharesOneCapture == Spec => IsSharedCapture
<1>1. Init => Abstract!Init
  BY StartsShared
<1>2. IInv /\ [Next]_vars => [Abstract!Next]_(Abstract!vars)
  BY EveryStepShares DEF SharedStep
<1> QED
  BY <1>1, <1>2, Invariance, PTL DEF Spec, IsSharedCapture, Abstract!Spec
=============================================================================
