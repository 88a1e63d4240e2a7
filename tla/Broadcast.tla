------------------------------ MODULE Broadcast ------------------------------
(***************************************************************************)
(* The fan-out of one screen capture to the mirrors of several receivers   *)
(* (src/rust/airfry/src/broadcast.rs): the pump thread in                  *)
(* BroadcastCapture::run, the bounded channel of each sink, the mirrors    *)
(* that read the sinks, and the daemon that shares the BroadcastCapture.   *)
(*                                                                         *)
(* A chunk is what one read of the capture returns, named by its place in  *)
(* the capture.  A sink's read returns part of a chunk: Parts is how many  *)
(* reads a chunk may take.  The order of the sinks in the vector is left   *)
(* out, so the pump serves those of a snapshot in any order.               *)
(*                                                                         *)
(* TrySend and the like are wrong variants of the operator that they stand *)
(* before: put in its place, they make a property fail.                    *)
(***************************************************************************)
EXTENDS Naturals, Sequences, FiniteSets

CONSTANTS
  Sinks,   \* the sinks that may be added
  None,    \* no sink
  Cap,     \* SINK_CHANNEL_CAP
  Parts,   \* the most reads that a chunk takes
  Chunks   \* the most chunks the capture yields

ASSUME SinksAssumption == None \notin Sinks
ASSUME CapAssumption == Cap \in Nat \ {0}
ASSUME PartsAssumption == Parts \in Nat \ {0}
ASSUME ChunksAssumption == Chunks \in Nat

VARIABLES
  \* the pump thread
  pc,          \* where it stands
  todo,        \* the handles of its snapshot that it still has to write to
  at,          \* the handle it is writing to
  \* the BroadcastCapture
  ended,       \* the daemon has stopped the capture, and forgotten it
  produced,    \* the chunks that were handed to a snapshot of the sinks
  registered,  \* Shared.sinks
  \* the sinks
  added,       \* those that add_sink has returned
  removed,     \* those given to remove_sink
  dropped,     \* those whose reader has dropped them
  closed,      \* those whose closed flag is set
  queue,       \* queue[s]: the chunks in the sink's channel
  last,        \* last[s]: the last chunk its reader took from there
  leftover,    \* leftover[s]: the reads that this chunk is still good for
  eof          \* those whose read has returned 0

pumpVars == <<pc, todo, at>>
sinkVars == <<added, removed, dropped, closed, queue, last, leftover, eof>>
vars == <<pumpVars, ended, produced, registered, sinkVars>>

TypeOK ==
  /\ pc \in {"reading", "read", "writing", "sending", "closing", "finished"}
  /\ todo \in SUBSET Sinks
  /\ at \in Sinks \cup {None}
  /\ ended \in BOOLEAN
  /\ produced \in 0..Chunks
  /\ registered \in SUBSET added
  /\ added \in SUBSET Sinks
  /\ removed \in SUBSET added
  /\ dropped \in SUBSET added
  /\ closed \in SUBSET added
  /\ queue \in [Sinks -> Seq(1..Chunks)]
  /\ \A s \in Sinks : Len(queue[s]) <= Cap
  /\ last \in [Sinks -> 0..Chunks]
  /\ leftover \in [Sinks -> 0..Parts]
  /\ eof \in SUBSET added

Init ==
  /\ pc = "reading"
  /\ todo = {}
  /\ at = None
  /\ ended = FALSE
  /\ produced = 0
  /\ registered = {}
  /\ added = {}
  /\ removed = {}
  /\ dropped = {}
  /\ closed = {}
  /\ queue = [s \in Sinks |-> <<>>]
  /\ last = [s \in Sinks |-> 0]
  /\ leftover = [s \in Sinks |-> 0]
  /\ eof = {}

-----------------------------------------------------------------------------
(***************************************************************************)
(* The pump.                                                               *)
(***************************************************************************)

(* A read of the capture returns data; once the capture was stopped it may *)
(* still return what had been queued.                                      *)
ReadCapture ==
  /\ pc = "reading"
  /\ produced < Chunks
  /\ pc' = "read"
  /\ UNCHANGED <<todo, at, ended, produced, registered, sinkVars>>

(* Snapshot the registered sinks; with none, the chunk is thrown away.     *)
Snapshot ==
  /\ pc = "read"
  /\ produced' = produced + 1
  /\ todo' = registered
  /\ pc' = IF registered = {} THEN "reading" ELSE "writing"
  /\ UNCHANGED <<at, ended, registered, sinkVars>>

(* The pump is through with sink s: on to the next, or the next chunk.     *)
Served(s) ==
  /\ todo' = todo \ {s}
  /\ at' = None
  /\ pc' = IF todo = {s} THEN "reading" ELSE "writing"

SkipKeepsHandle(s) ==
  /\ pc = "writing"
  /\ s \in todo
  /\ s \in closed
  /\ UNCHANGED vars

(* SinkHandle::write finds the closed flag set: the sink is unregistered.  *)
Skip(s) ==
  /\ pc = "writing"
  /\ s \in todo
  /\ s \in closed
  /\ Served(s)
  /\ registered' = registered \ {s}
  /\ UNCHANGED <<ended, produced, sinkVars>>

(* SinkHandle::write finds the flag clear, and goes on to send.            *)
Check(s) ==
  /\ pc = "writing"
  /\ s \in todo
  /\ s \notin closed
  /\ at' = s
  /\ pc' = "sending"
  /\ UNCHANGED <<todo, ended, produced, registered, sinkVars>>

TrySend ==
  /\ pc = "sending"
  /\ at \notin dropped
  /\ queue' = IF Len(queue[at]) < Cap
                THEN [queue EXCEPT ![at] = Append(queue[at], produced)]
                ELSE queue
  /\ Served(at)
  /\ UNCHANGED <<ended, produced, registered, added, removed, dropped,
                 closed, last, leftover, eof>>

(* SyncSender::send: it blocks while the channel is full.                  *)
Send ==
  /\ pc = "sending"
  /\ at \notin dropped
  /\ Len(queue[at]) < Cap
  /\ queue' = [queue EXCEPT ![at] = Append(queue[at], produced)]
  /\ Served(at)
  /\ UNCHANGED <<ended, produced, registered, added, removed, dropped,
                 closed, last, leftover, eof>>

SendIgnoresReader ==
  /\ pc = "sending"
  /\ at \in dropped
  /\ UNCHANGED vars

(* It fails, blocked or not, once the receiving end is dropped.            *)
SendFails ==
  /\ pc = "sending"
  /\ at \in dropped
  /\ registered' = registered \ {at}
  /\ Served(at)
  /\ UNCHANGED <<ended, produced, sinkVars>>

(* A read of the capture returns 0 or an error.                            *)
ReadEnds ==
  /\ pc = "reading"
  /\ ended
  /\ pc' = "closing"
  /\ UNCHANGED <<todo, at, ended, produced, registered, sinkVars>>

(* run closes and forgets every sink, and is done.                         *)
Finish ==
  /\ pc = "closing"
  /\ closed' = closed \cup registered
  /\ registered' = {}
  /\ pc' = "finished"
  /\ UNCHANGED <<todo, at, ended, produced, added, removed, dropped,
                 queue, last, leftover, eof>>

-----------------------------------------------------------------------------
(***************************************************************************)
(* The daemon.                                                             *)
(***************************************************************************)

(* stop_all_locked or maybe_stop_broadcast_locked: the capture is stopped, *)
(* and forgotten at once, in one critical section of the daemon.           *)
StopCapture ==
  /\ ~ended
  /\ ended' = TRUE
  /\ UNCHANGED <<pumpVars, produced, registered, sinkVars>>

(* By the worker that built the capture, or under the daemon's lock by one *)
(* that finds it there, so never once it was stopped.                      *)
AddSink(s) ==
  /\ ~ended
  /\ s \notin added
  /\ added' = added \cup {s}
  /\ registered' = registered \cup {s}
  /\ last' = [last EXCEPT ![s] = produced]
  /\ UNCHANGED <<pumpVars, ended, produced, removed, dropped, closed,
                 queue, leftover, eof>>

(* The sink's owner unregisters it, and may go on reading it.              *)
RemoveSink(s) ==
  /\ s \in added \ dropped
  /\ removed' = removed \cup {s}
  /\ closed' = closed \cup {s}
  /\ registered' = registered \ {s}
  /\ UNCHANGED <<pumpVars, ended, produced, added, dropped, queue, last,
                 leftover, eof>>

-----------------------------------------------------------------------------
(***************************************************************************)
(* The mirrors: BroadcastSink::read and drop.                              *)
(***************************************************************************)

Reading(s) == s \in added \ dropped

ReadLeftover(s) ==
  /\ Reading(s)
  /\ leftover[s] > 0
  /\ \E k \in 0..Parts : k < leftover[s] /\ leftover' = [leftover EXCEPT ![s] = k]
  /\ UNCHANGED <<pumpVars, ended, produced, registered, added, removed,
                 dropped, closed, queue, last, eof>>

(* The next chunk; what the caller's buffer has no room for is left over.  *)
ReadChunk(s) ==
  /\ Reading(s)
  /\ leftover[s] = 0
  /\ queue[s] # <<>>
  /\ last' = [last EXCEPT ![s] = Head(queue[s])]
  /\ queue' = [queue EXCEPT ![s] = Tail(queue[s])]
  /\ \E k \in 0..(Parts - 1) : leftover' = [leftover EXCEPT ![s] = k]
  /\ UNCHANGED <<pumpVars, ended, produced, registered, added, removed,
                 dropped, closed, eof>>

ReadEofEarly(s) ==
  /\ Reading(s)
  /\ s \notin eof
  /\ queue[s] = <<>>
  /\ s \in closed
  /\ eof' = eof \cup {s}
  /\ UNCHANGED <<pumpVars, ended, produced, registered, added, removed,
                 dropped, closed, queue, last, leftover>>

(* The channel is empty and its senders are gone: the one that is          *)
(* registered, and the clone of it in the pump's snapshot.                 *)
ReadEof(s) ==
  /\ Reading(s)
  /\ s \notin eof
  /\ leftover[s] = 0
  /\ queue[s] = <<>>
  /\ s \notin registered \cup todo
  /\ eof' = eof \cup {s}
  /\ UNCHANGED <<pumpVars, ended, produced, registered, added, removed,
                 dropped, closed, queue, last, leftover>>

DropSink(s) ==
  /\ Reading(s)
  /\ dropped' = dropped \cup {s}
  /\ closed' = closed \cup {s}
  /\ queue' = [queue EXCEPT ![s] = <<>>]
  /\ leftover' = [leftover EXCEPT ![s] = 0]
  /\ UNCHANGED <<pumpVars, ended, produced, registered, added, removed,
                 last, eof>>

-----------------------------------------------------------------------------
PumpWrites == Send \/ SendFails \/ \E s \in Sinks : Skip(s) \/ Check(s)

Read(s) == ReadLeftover(s) \/ ReadChunk(s) \/ ReadEof(s)

Next ==
  \/ ReadCapture \/ Snapshot \/ PumpWrites \/ ReadEnds \/ Finish
  \/ StopCapture
  \/ \E s \in Sinks : AddSink(s) \/ RemoveSink(s) \/ Read(s) \/ DropSink(s)

Spec == Init /\ [][Next]_vars

(* The pump runs whenever it can, but need not be given data.  A mirror    *)
(* reads on, or drops its sink, once it is set up, which timeouts bound.   *)
Fairness ==
  /\ WF_vars(Snapshot \/ PumpWrites \/ ReadEnds \/ Finish)
  /\ \A s \in Sinks : WF_vars(Read(s))

FairSpec == Spec /\ Fairness

-----------------------------------------------------------------------------
(***************************************************************************)
(* Safety.                                                                 *)
(***************************************************************************)

(* What is in a sink's channel follows on what its reader took from it,    *)
(* chunk by chunk, up to the newest chunk that the pump has brought it: no *)
(* sink misses a chunk, or sees one twice, because another is slow, goes   *)
(* away or is added while the pump is at work.                             *)
Gapless ==
  \A s \in added \ dropped :
    /\ \A i \in 1..Len(queue[s]) : queue[s][i] = last[s] + i
    /\ s \in todo => last[s] + Len(queue[s]) = produced - 1
    /\ s \notin todo \cup removed => last[s] + Len(queue[s]) = produced

(* The abstract reader's view: a removed sink is cut off the log, and one  *)
(* whose read returned 0 has been told the end.                            *)
ReaderState ==
  [s \in Sinks |-> CASE s \notin added -> "new"
                     [] s \in dropped -> "gone"
                     [] s \in eof \ dropped -> "ended"
                     [] s \in removed \ (eof \cup dropped) -> "cut"
                     [] OTHER -> "live"]

Abstract == INSTANCE Tee WITH
  log <- produced, over <- pc = "finished", pos <- last, state <- ReaderState

(* The fan-out gives each mirror what Tee promises; in particular a read   *)
(* returns 0 only after everything the capture produced, or a removal.     *)
IsTee == Abstract!Spec

-----------------------------------------------------------------------------
(***************************************************************************)
(* Liveness, under FairSpec.                                               *)
(***************************************************************************)

(* When the capture is stopped, the mirror of every sink, the ones added   *)
(* at the last moment included, gets to the end of its byte stream.        *)
EndReachesEveryReader ==
  \A s \in Sinks : ended /\ s \in added ~> s \in eof \cup dropped

(* However a mirror goes away, the pump gets round to the next chunk.      *)
PumpComesBack == pc \in {"writing", "sending"} ~> pc = "reading"

=============================================================================
