-------------------------- MODULE BroadcastProofs ---------------------------
(***************************************************************************)
(* Proofs about Broadcast, for any number of sinks, any channel capacity   *)
(* and any number of chunks: its types, that no sink misses a chunk, and   *)
(* that it implements Tee.                                                 *)
(***************************************************************************)
EXTENDS Broadcast, TLAPS

-----------------------------------------------------------------------------
(***************************************************************************)
(* The inductive invariant.                                                *)
(***************************************************************************)

(* What the pump has in hand at each of its steps.                         *)
PumpInv ==
  /\ todo \subseteq added
  /\ pc \notin {"writing", "sending"} => todo = {}
  /\ pc \in {"writing", "sending"} => produced > 0
  /\ pc = "sending" => at \in todo
  /\ pc = "read" => produced < Chunks

(* A sink loses its handle by removal, by its reader's drop, or when the   *)
(* pump is done.                                                           *)
HandleInv ==
  /\ registered \cap removed = {}
  /\ pc # "finished" => closed \subseteq removed \cup dropped
  /\ \A s \in added : s \notin registered \cup removed \cup dropped => pc = "finished"

(* Nothing is in the channel of a sink not added, or read to its end, and  *)
(* the latter gets nothing more.                                           *)
EmptyInv ==
  /\ \A s \in Sinks \ added : queue[s] = <<>>
  /\ \A s \in eof \ dropped : queue[s] = <<>> /\ s \notin registered \cup todo

(* No reader is ahead of the pump.                                         *)
NotAhead == \A s \in added \ dropped : last[s] + Len(queue[s]) <= produced

IInv == TypeOK /\ PumpInv /\ HandleInv /\ EmptyInv /\ NotAhead /\ Gapless

-----------------------------------------------------------------------------
LEMMA InvInit == Init => IInv
<1> SUFFICES ASSUME Init
             PROVE  IInv
  OBVIOUS
<1>1. \A s \in Sinks : queue[s] = <<>> /\ queue[s] \in Seq(1..Chunks) /\ Len(queue[s]) = 0
  BY DEF Init
<1>2. queue \in [Sinks -> Seq(1..Chunks)]
  BY <1>1 DEF Init
<1>3. last \in [Sinks -> 0..Chunks] /\ leftover \in [Sinks -> 0..Parts]
  BY PartsAssumption, ChunksAssumption DEF Init
<1>4. /\ pc = "reading" /\ at = None /\ produced = 0
      /\ todo = {} /\ registered = {} /\ added = {} /\ removed = {}
      /\ dropped = {} /\ closed = {} /\ eof = {}
  BY DEF Init
<1>5. ended \in BOOLEAN
  BY DEF Init
<1>6. TypeOK
  BY <1>1, <1>2, <1>3, <1>4, <1>5, CapAssumption, ChunksAssumption DEF TypeOK
<1> QED
  BY <1>1, <1>4, <1>6 DEF IInv, PumpInv, HandleInv, EmptyInv, NotAhead, Gapless

(* The variables of the pump and of its handles keep their types.          *)
LEMMA PumpNext == TypeOK /\ PumpInv /\ [Next]_vars => TypeOK' /\ PumpInv'
<1> SUFFICES ASSUME TypeOK, PumpInv, [Next]_vars
             PROVE  TypeOK' /\ PumpInv'
  OBVIOUS
<1> USE CapAssumption, ChunksAssumption, PartsAssumption DEF TypeOK, PumpInv
<1>1. CASE ReadCapture
  BY <1>1 DEF ReadCapture, sinkVars
<1>2. CASE Snapshot
  BY <1>2 DEF Snapshot, sinkVars
<1>3. CASE Send
  <2>1. at \in Sinks /\ produced \in 1..Chunks
    BY <1>3 DEF Send
  <2>2. /\ Append(queue[at], produced) \in Seq(1..Chunks)
        /\ Len(Append(queue[at], produced)) = Len(queue[at]) + 1
    BY <2>1
  <2>3. queue' \in [Sinks -> Seq(1..Chunks)] /\ \A s \in Sinks : Len(queue'[s]) <= Cap
    BY <1>3, <2>1, <2>2 DEF Send
  <2> QED
    BY <1>3, <2>3 DEF Send, Served
<1>4. CASE SendFails
  BY <1>4 DEF SendFails, Served, sinkVars
<1>5. ASSUME NEW s \in Sinks, Skip(s)
      PROVE  TypeOK' /\ PumpInv'
  BY <1>5 DEF Skip, Served, sinkVars
<1>6. ASSUME NEW s \in Sinks, Check(s)
      PROVE  TypeOK' /\ PumpInv'
  BY <1>6 DEF Check, sinkVars
<1>7. CASE ReadEnds
  BY <1>7 DEF ReadEnds, sinkVars
<1>8. CASE Finish
  BY <1>8 DEF Finish
<1>9. CASE StopCapture
  BY <1>9 DEF StopCapture, pumpVars, sinkVars
<1>10. ASSUME NEW s \in Sinks, AddSink(s)
       PROVE  TypeOK' /\ PumpInv'
  BY <1>10 DEF AddSink, pumpVars
<1>11. ASSUME NEW s \in Sinks, RemoveSink(s)
       PROVE  TypeOK' /\ PumpInv'
  BY <1>11 DEF RemoveSink, pumpVars
<1>12. ASSUME NEW s \in Sinks, ReadLeftover(s)
       PROVE  TypeOK' /\ PumpInv'
  BY <1>12 DEF ReadLeftover, pumpVars
<1>13. ASSUME NEW s \in Sinks, ReadChunk(s)
       PROVE  TypeOK' /\ PumpInv'
  <2>1. /\ Head(queue[s]) \in 1..Chunks
        /\ Tail(queue[s]) \in Seq(1..Chunks)
        /\ Len(Tail(queue[s])) = Len(queue[s]) - 1
    BY <1>13 DEF ReadChunk
  <2>2. queue' \in [Sinks -> Seq(1..Chunks)] /\ \A r \in Sinks : Len(queue'[r]) <= Cap
    BY <1>13, <2>1 DEF ReadChunk
  <2> QED
    BY <1>13, <2>1, <2>2 DEF ReadChunk, pumpVars
<1>14. ASSUME NEW s \in Sinks, ReadEof(s)
       PROVE  TypeOK' /\ PumpInv'
  BY <1>14 DEF ReadEof, Reading, pumpVars
<1>15. ASSUME NEW s \in Sinks, DropSink(s)
       PROVE  TypeOK' /\ PumpInv'
  BY <1>15 DEF DropSink, Reading, pumpVars
<1>16. CASE UNCHANGED vars
  BY <1>16 DEF vars, pumpVars, sinkVars
<1> QED
  BY <1>1, <1>2, <1>3, <1>4, <1>5, <1>6, <1>7, <1>8, <1>9, <1>10, <1>11, <1>12, <1>13,
     <1>14, <1>15, <1>16
     DEF Next, PumpWrites, Read

-----------------------------------------------------------------------------
(***************************************************************************)
(* Handles, and the ends of streams.                                       *)
(***************************************************************************)

LEMMA HandleNext == TypeOK /\ PumpInv /\ HandleInv /\ [Next]_vars => HandleInv'
<1> SUFFICES ASSUME TypeOK, PumpInv, HandleInv, [Next]_vars
             PROVE  HandleInv'
  OBVIOUS
<1> USE DEF HandleInv
<1>1. CASE ReadCapture \/ Snapshot \/ ReadEnds
  BY <1>1 DEF ReadCapture, Snapshot, ReadEnds, sinkVars
<1>2. CASE Send \/ SendFails
  BY <1>2 DEF Send, SendFails, Served, sinkVars
<1>3. ASSUME NEW s \in Sinks, Skip(s) \/ Check(s)
      PROVE  HandleInv'
  BY <1>3 DEF Skip, Check, Served, sinkVars
<1>4. CASE Finish
  BY <1>4 DEF Finish
<1>5. CASE StopCapture
  BY <1>5 DEF StopCapture, pumpVars, sinkVars
<1>6. ASSUME NEW s \in Sinks, AddSink(s)
      PROVE  HandleInv'
  BY <1>6 DEF AddSink, pumpVars, TypeOK
<1>7. ASSUME NEW s \in Sinks, RemoveSink(s)
      PROVE  HandleInv'
  BY <1>7 DEF RemoveSink, pumpVars
<1>8. ASSUME NEW s \in Sinks, Read(s)
      PROVE  HandleInv'
  BY <1>8 DEF Read, ReadLeftover, ReadChunk, ReadEof, pumpVars
<1>9. ASSUME NEW s \in Sinks, DropSink(s)
      PROVE  HandleInv'
  BY <1>9 DEF DropSink, pumpVars
<1>10. CASE UNCHANGED vars
  BY <1>10 DEF vars, pumpVars, sinkVars
<1> QED
  BY <1>1, <1>2, <1>3, <1>4, <1>5, <1>6, <1>7, <1>8, <1>9, <1>10 DEF Next, PumpWrites

LEMMA EmptyNext == TypeOK /\ PumpInv /\ EmptyInv /\ [Next]_vars => EmptyInv'
<1> SUFFICES ASSUME TypeOK, PumpInv, EmptyInv, [Next]_vars
             PROVE  EmptyInv'
  OBVIOUS
<1> USE DEF EmptyInv
<1>1. CASE ReadCapture \/ Snapshot \/ ReadEnds
  BY <1>1 DEF ReadCapture, Snapshot, ReadEnds, sinkVars
<1>2. CASE Send \/ SendFails
  BY <1>2 DEF Send, SendFails, Served, sinkVars, TypeOK, PumpInv
<1>3. ASSUME NEW s \in Sinks, Skip(s) \/ Check(s)
      PROVE  EmptyInv'
  BY <1>3 DEF Skip, Check, Served, sinkVars
<1>4. CASE Finish
  BY <1>4 DEF Finish
<1>5. CASE StopCapture
  BY <1>5 DEF StopCapture, pumpVars, sinkVars
<1>6. ASSUME NEW s \in Sinks, AddSink(s)
      PROVE  EmptyInv'
  BY <1>6 DEF AddSink, pumpVars, TypeOK
<1>7. ASSUME NEW s \in Sinks, RemoveSink(s)
      PROVE  EmptyInv'
  BY <1>7 DEF RemoveSink, pumpVars
<1>8. ASSUME NEW s \in Sinks, ReadLeftover(s) \/ ReadEof(s)
      PROVE  EmptyInv'
  BY <1>8 DEF ReadLeftover, ReadEof, pumpVars
<1>9. ASSUME NEW s \in Sinks, ReadChunk(s)
      PROVE  EmptyInv'
  BY <1>9 DEF ReadChunk, Reading, pumpVars, TypeOK
<1>10. ASSUME NEW s \in Sinks, DropSink(s)
       PROVE  EmptyInv'
  BY <1>10 DEF DropSink, Reading, pumpVars, TypeOK
<1>11. CASE UNCHANGED vars
  BY <1>11 DEF vars, pumpVars, sinkVars
<1> QED
  BY <1>1, <1>2, <1>3, <1>4, <1>5, <1>6, <1>7, <1>8, <1>9, <1>10, <1>11
     DEF Next, PumpWrites, Read

-----------------------------------------------------------------------------
(***************************************************************************)
(* No gaps.                                                                *)
(***************************************************************************)

(* Gapless and NotAhead, of one sink.                                      *)
InStep(s) ==
  /\ \A i \in 1..Len(queue[s]) : queue[s][i] = last[s] + i
  /\ s \in todo => last[s] + Len(queue[s]) = produced - 1
  /\ s \notin todo \cup removed => last[s] + Len(queue[s]) = produced
  /\ last[s] + Len(queue[s]) <= produced

LEMMA InStepIsGapless ==
  NotAhead /\ Gapless <=> \A s \in added \ dropped : InStep(s)
BY DEF NotAhead, Gapless, InStep

(* A sink stays in step while nothing is produced or moved through its     *)
(* channel and it leaves the pump's hands only by being removed.           *)
LEMMA InStepSame ==
  ASSUME NEW s \in Sinks, InStep(s), UNCHANGED produced,
         queue'[s] = queue[s], last'[s] = last[s],
         s \in removed => s \in removed', s \in todo' => s \in todo,
         s \in todo => s \in todo' \cup removed'
  PROVE  InStep(s)'
BY DEF InStep

(* The same for all sinks.                                                 *)
LEMMA AllSame ==
  ASSUME TypeOK, \A s \in added \ dropped : InStep(s),
         UNCHANGED <<produced, added, queue, last>>,
         dropped \subseteq dropped', removed \subseteq removed', todo' \subseteq todo,
         todo \ todo' \subseteq removed' \cup dropped'
  PROVE  \A s \in added' \ dropped' : InStep(s)'
BY InStepSame DEF TypeOK

LEMMA InStepNext ==
  ASSUME TypeOK, PumpInv, HandleInv, EmptyInv, [Next]_vars,
         \A s \in added \ dropped : InStep(s)
  PROVE  \A s \in added' \ dropped' : InStep(s)'
<1> DEFINE Goal == \A s \in added' \ dropped' : InStep(s)'
<1>0. \A s \in Sinks : /\ queue[s] \in Seq(1..Chunks) /\ Len(queue[s]) \in Nat
                       /\ last[s] \in Nat /\ produced \in Nat
  BY ChunksAssumption DEF TypeOK
<1>1. CASE ReadCapture \/ ReadEnds
  BY <1>1, AllSame DEF ReadCapture, ReadEnds, sinkVars
<1>2. CASE Snapshot
  <2> SUFFICES ASSUME NEW s \in added' \ dropped'
               PROVE  InStep(s)'
    OBVIOUS
  <2>1. s \in Sinks /\ s \in added \ dropped /\ InStep(s) /\ s \notin todo
    BY <1>2 DEF Snapshot, sinkVars, PumpInv, TypeOK
  <2>2. s \in registered \/ s \in removed
    BY <1>2, <2>1 DEF Snapshot, HandleInv
  <2>3. s \in registered => s \notin removed
    BY DEF HandleInv
  <2>4. /\ produced' = produced + 1 /\ todo' = registered
        /\ UNCHANGED <<removed, queue, last>>
    BY <1>2 DEF Snapshot, sinkVars
  <2> QED
    BY <1>0, <2>1, <2>2, <2>3, <2>4 DEF InStep
<1>3. CASE Send
  <2> SUFFICES ASSUME NEW s \in added' \ dropped'
               PROVE  InStep(s)'
    OBVIOUS
  <2>1. s \in Sinks /\ s \in added \ dropped /\ InStep(s)
    BY <1>3 DEF Send, TypeOK
  <2>2. at \in todo /\ at \in added \ dropped /\ at \in Sinks /\ produced \in 1..Chunks
    BY <1>3, <1>0 DEF Send, PumpInv, TypeOK
  <2>3. todo' = todo \ {at} /\ UNCHANGED <<produced, removed, last>>
    BY <1>3 DEF Send, Served
  <2>4. CASE s # at
    BY <1>3, <2>1, <2>3, <2>4, InStepSame DEF Send, TypeOK
  <2>5. CASE s = at
    <3>1. Len(queue[s]) \in Nat /\ last[s] \in Nat /\ produced \in Nat
      BY <1>0, <2>1
    <3>2. Len(queue'[s]) = Len(queue[s]) + 1
      BY <1>0, <1>3, <2>1, <2>2, <2>5 DEF Send, TypeOK
    <3>3. /\ queue'[s][Len(queue[s]) + 1] = produced
          /\ \A i \in 1..Len(queue[s]) : queue'[s][i] = queue[s][i]
      BY <1>0, <1>3, <2>1, <2>2, <2>5 DEF Send, TypeOK
    <3>4. last[s] + Len(queue[s]) = produced - 1
      BY <2>1, <2>2, <2>5 DEF InStep
    <3>5. last[s] + (Len(queue[s]) + 1) = produced
      BY <3>1, <3>4
    <3>6. last[s] + Len(queue'[s]) = produced
      BY <3>2, <3>5
    <3>7. ASSUME NEW i \in 1..Len(queue'[s])
          PROVE  queue'[s][i] = last[s] + i
      <4>1. i = Len(queue[s]) + 1 \/ i \in 1..Len(queue[s])
        BY <3>1, <3>2
      <4>2. CASE i = Len(queue[s]) + 1
        BY <3>3, <3>5, <4>2
      <4>3. CASE i \in 1..Len(queue[s])
        BY <2>1, <3>3, <4>3 DEF InStep
      <4> QED
        BY <4>1, <4>2, <4>3
    <3> QED
      BY <2>3, <2>5, <3>1, <3>6, <3>7 DEF InStep
  <2> QED
    BY <2>4, <2>5
<1>4. CASE SendFails
  BY <1>4, AllSame DEF SendFails, Served, sinkVars
<1>5. ASSUME NEW s \in Sinks, Skip(s)
      PROVE  Goal
  BY <1>5, AllSame DEF Skip, Served, sinkVars, HandleInv
<1>6. ASSUME NEW s \in Sinks, Check(s)
      PROVE  Goal
  BY <1>6, AllSame DEF Check, sinkVars
<1>7. CASE Finish
  BY <1>7, AllSame DEF Finish
<1>8. CASE StopCapture
  BY <1>8, AllSame DEF StopCapture, pumpVars, sinkVars
<1>9. ASSUME NEW a \in Sinks, AddSink(a)
      PROVE  Goal
  <2> SUFFICES ASSUME NEW s \in added' \ dropped'
               PROVE  InStep(s)'
    OBVIOUS
  <2>1. CASE s = a
    <3>1. queue'[s] = <<>> /\ s \notin todo' /\ last'[s] = produced /\ UNCHANGED produced
      BY <1>9, <2>1 DEF AddSink, pumpVars, EmptyInv, PumpInv, TypeOK
    <3>2. Len(queue'[s]) = 0
      BY <3>1
    <3> QED
      BY <1>0, <1>9, <3>1, <3>2 DEF InStep
  <2>2. CASE s # a
    BY <1>9, <2>2, InStepSame DEF AddSink, pumpVars, TypeOK
  <2> QED
    BY <2>1, <2>2
<1>10. ASSUME NEW s \in Sinks, RemoveSink(s)
       PROVE  Goal
  BY <1>10, AllSame DEF RemoveSink, pumpVars
<1>11. ASSUME NEW s \in Sinks, ReadLeftover(s) \/ ReadEof(s)
       PROVE  Goal
  BY <1>11, AllSame DEF ReadLeftover, ReadEof, pumpVars
<1>12. ASSUME NEW a \in Sinks, ReadChunk(a)
       PROVE  Goal
  <2> SUFFICES ASSUME NEW s \in added' \ dropped'
               PROVE  InStep(s)'
    OBVIOUS
  <2>1. s \in Sinks /\ s \in added \ dropped /\ InStep(s)
    BY <1>12 DEF ReadChunk, TypeOK
  <2>2. UNCHANGED <<produced, todo, removed>>
    BY <1>12 DEF ReadChunk, pumpVars
  <2>3. CASE s = a
    <3>1. queue[s] # <<>> /\ queue'[s] = Tail(queue[s]) /\ last'[s] = Head(queue[s])
      BY <1>12, <2>1, <2>3 DEF ReadChunk, TypeOK
    <3>2. Len(queue[s]) \in Nat /\ last[s] \in Nat
      BY <1>0, <2>1
    <3>3. Len(queue[s]) > 0 /\ Len(queue'[s]) = Len(queue[s]) - 1
      BY <1>0, <2>1, <3>1
    <3>4. /\ Head(queue[s]) = queue[s][1]
          /\ \A i \in 1..Len(queue'[s]) : queue'[s][i] = queue[s][i + 1]
      BY <1>0, <2>1, <3>1
    <3>5. queue[s][1] = last[s] + 1
      BY <2>1, <3>2, <3>3 DEF InStep
    <3>6. last'[s] = last[s] + 1
      BY <3>1, <3>4, <3>5
    <3>7. ASSUME NEW i \in 1..Len(queue'[s])
          PROVE  queue'[s][i] = last'[s] + i
      <4>1. i \in Nat /\ i + 1 \in 1..Len(queue[s])
        BY <3>2, <3>3
      <4>2. queue[s][i + 1] = last[s] + (i + 1)
        BY <2>1, <4>1 DEF InStep
      <4>3. last[s] + (i + 1) = last'[s] + i
        BY <3>2, <3>6, <4>1
      <4> QED
        BY <3>4, <4>2, <4>3
    <3>8. last'[s] + Len(queue'[s]) = last[s] + Len(queue[s])
      BY <3>2, <3>3, <3>6
    <3> QED
      BY <2>1, <2>2, <3>7, <3>8 DEF InStep
  <2>4. CASE s # a
    BY <1>12, <2>1, <2>2, <2>4, InStepSame DEF ReadChunk, TypeOK
  <2> QED
    BY <2>3, <2>4
<1>13. ASSUME NEW a \in Sinks, DropSink(a)
       PROVE  Goal
  <2> SUFFICES ASSUME NEW s \in added' \ dropped'
               PROVE  InStep(s)'
    OBVIOUS
  <2>1. s \in Sinks /\ s # a /\ s \in added \ dropped /\ InStep(s)
    BY <1>13 DEF DropSink, TypeOK
  <2> QED
    BY <1>13, <2>1, InStepSame DEF DropSink, pumpVars, TypeOK
<1>14. CASE UNCHANGED vars
  BY <1>14, AllSame DEF vars, pumpVars, sinkVars
<1> QED
  BY <1>1, <1>2, <1>3, <1>4, <1>5, <1>6, <1>7, <1>8, <1>9, <1>10, <1>11, <1>12, <1>13,
     <1>14
     DEF Next, PumpWrites, Read

LEMMA InvNext == IInv /\ [Next]_vars => IInv'
<1> SUFFICES ASSUME IInv, [Next]_vars
             PROVE  IInv'
  OBVIOUS
<1>1. TypeOK' /\ PumpInv'
  BY PumpNext DEF IInv
<1>2. HandleInv' /\ EmptyInv'
  BY HandleNext, EmptyNext DEF IInv
<1>3. \A s \in added' \ dropped' : InStep(s)'
  BY InStepNext, InStepIsGapless DEF IInv
<1>4. NotAhead' /\ Gapless'
  BY <1>3 DEF NotAhead, Gapless, InStep
<1> QED
  BY <1>1, <1>2, <1>4 DEF IInv

(* Every reachable state satisfies the inductive invariant.                *)
THEOREM Invariance == Spec => []IInv
BY InvInit, InvNext, PTL DEF Spec

(* The channels never hold more than Cap chunks, and every variable keeps  *)
(* its type.                                                               *)
THEOREM TypeCorrect == Spec => []TypeOK
BY Invariance, PTL DEF IInv

(* No sink misses a chunk or sees one twice, however the pump, the other   *)
(* mirrors and the daemon interleave.                                      *)
THEOREM NoGaps == Spec => []Gapless
BY Invariance, PTL DEF IInv

-----------------------------------------------------------------------------
(***************************************************************************)
(* The fan-out implements Tee.                                             *)
(***************************************************************************)

(* What the mapping makes of each sink.                                    *)
StateCases ==
  \A s \in Sinks :
    /\ s \notin added => ReaderState[s] = "new"
    /\ s \in dropped => ReaderState[s] = "gone"
    /\ s \in eof \ dropped => ReaderState[s] = "ended"
    /\ s \in removed \ (eof \cup dropped) => ReaderState[s] = "cut"
    /\ s \in added \ (removed \cup eof \cup dropped) => ReaderState[s] = "live"

LEMMA Mapped == TypeOK => StateCases
BY DEF TypeOK, StateCases, ReaderState

LEMMA MappedAfter == TypeOK' => StateCases'
BY DEF TypeOK, StateCases, ReaderState

(* A step that leaves the readers' standing alone, and the log.            *)
LEMMA Stutters ==
  ASSUME UNCHANGED <<added, removed, dropped, eof, produced, last>>,
         (pc = "finished") <=> (pc' = "finished")
  PROVE  UNCHANGED Abstract!vars
<1>1. UNCHANGED ReaderState
  BY DEF ReaderState
<1>2. (pc = "finished") = (pc' = "finished")
  OBVIOUS
<1> QED
  BY <1>1, <1>2 DEF Abstract!vars

(* Any other step of a sink s changes the readers' standing at s alone.    *)
LEMMA OnlyAt ==
  ASSUME NEW s \in Sinks, NEW st, TypeOK, TypeOK', ReaderState'[s] = st,
         \A r \in Sinks \ {s} : /\ r \in added' <=> r \in added
                                /\ r \in removed' <=> r \in removed
                                /\ r \in dropped' <=> r \in dropped
                                /\ r \in eof' <=> r \in eof
  PROVE  ReaderState' = [ReaderState EXCEPT ![s] = st]
<1>1. \A r \in Sinks \ {s} : ReaderState'[r] = ReaderState[r]
  BY Mapped, MappedAfter DEF StateCases, TypeOK
<1>2. /\ ReaderState = [r \in Sinks |-> ReaderState[r]]
      /\ ReaderState' = [r \in Sinks |-> ReaderState'[r]]
  BY DEF ReaderState
<1> QED
  BY <1>1, <1>2

LEMMA TeeInit == Init => Abstract!Init
<1> SUFFICES ASSUME Init
             PROVE  Abstract!Init
  OBVIOUS
<1>1. ReaderState = [s \in Sinks |-> "new"]
  BY DEF Init, ReaderState
<1>2. (pc = "finished") = FALSE
  BY DEF Init
<1> QED
  BY <1>1, <1>2 DEF Init, Abstract!Init

LEMMA TeeNext == IInv /\ IInv' /\ [Next]_vars => [Abstract!Next]_(Abstract!vars)
<1> SUFFICES ASSUME IInv, IInv', [Next]_vars
             PROVE  Abstract!Next \/ UNCHANGED Abstract!vars
  OBVIOUS
<1>0. TypeOK /\ TypeOK' /\ StateCases /\ StateCases'
  BY Mapped, MappedAfter DEF IInv
<1>1. CASE Snapshot
  <2>1. UNCHANGED ReaderState
    BY <1>1 DEF Snapshot, sinkVars, ReaderState
  <2>2. pc # "finished" /\ (pc = "finished") = (pc' = "finished")
    BY <1>1 DEF Snapshot
  <2>3. Abstract!Publish
    BY <1>1, <2>1, <2>2 DEF Snapshot, sinkVars, Abstract!Publish
  <2> QED
    BY <2>3 DEF Abstract!Next
<1>2. CASE Finish
  <2>1. UNCHANGED ReaderState
    BY <1>2 DEF Finish, ReaderState
  <2>2. (pc' = "finished") = TRUE
    BY <1>2 DEF Finish
  <2>3. Abstract!Close
    BY <1>2, <2>1, <2>2 DEF Finish, Abstract!Close
  <2> QED
    BY <2>3 DEF Abstract!Next
<1>3. CASE ReadCapture \/ ReadEnds
  BY <1>3, Stutters DEF ReadCapture, ReadEnds, sinkVars
<1>4. CASE Send \/ SendFails
  BY <1>4, Stutters DEF Send, SendFails, Served, sinkVars
<1>5. ASSUME NEW s \in Sinks, Skip(s) \/ Check(s)
      PROVE  UNCHANGED Abstract!vars
  BY <1>5, Stutters DEF Skip, Check, Served, sinkVars
<1>6. CASE StopCapture
  BY <1>6, Stutters DEF StopCapture, pumpVars, sinkVars
<1>7. ASSUME NEW s \in Sinks, AddSink(s)
      PROVE  Abstract!Subscribe(s)
  <2>1. ReaderState[s] = "new"
    BY <1>0, <1>7 DEF AddSink, StateCases
  <2>2. s \notin removed \cup dropped \cup eof /\ s \in added'
    BY <1>0, <1>7 DEF AddSink, TypeOK
  <2>3. ReaderState'[s] = "live"
    BY <1>0, <1>7, <2>2 DEF AddSink, StateCases
  <2>4. ReaderState' = [ReaderState EXCEPT ![s] = "live"]
    BY <1>0, <1>7, <2>3, OnlyAt DEF AddSink
  <2>5. (pc = "finished") = (pc' = "finished")
    BY <1>7 DEF AddSink, pumpVars
  <2> QED
    BY <1>7, <2>1, <2>4, <2>5 DEF AddSink, Abstract!Subscribe
<1>8. ASSUME NEW s \in Sinks, RemoveSink(s)
      PROVE  Abstract!Cut(s) \/ UNCHANGED Abstract!vars
  <2>1. (pc = "finished") = (pc' = "finished")
    BY <1>8 DEF RemoveSink, pumpVars
  <2>2. CASE s \in removed
    BY <1>8, <2>2, Stutters DEF RemoveSink, pumpVars
  <2>3. CASE s \in eof
    <3>1. ReaderState'[s] = ReaderState[s]
      BY <1>0, <1>8, <2>3 DEF RemoveSink, StateCases
    <3>2. ReaderState' = [ReaderState EXCEPT ![s] = ReaderState[s]]
      BY <1>0, <1>8, <3>1, OnlyAt DEF RemoveSink
    <3>3. ReaderState' = ReaderState
      BY <3>2 DEF ReaderState
    <3> QED
      BY <1>8, <2>1, <3>3 DEF RemoveSink, Abstract!vars
  <2>4. CASE s \notin removed \cup eof
    <3>1. ReaderState[s] = "live" /\ ReaderState'[s] = "cut"
      BY <1>0, <1>8, <2>4 DEF RemoveSink, StateCases
    <3>2. ReaderState' = [ReaderState EXCEPT ![s] = "cut"]
      BY <1>0, <1>8, <3>1, OnlyAt DEF RemoveSink
    <3> QED
      BY <1>8, <2>1, <3>1, <3>2 DEF RemoveSink, Abstract!Cut
  <2> QED
    BY <2>2, <2>3, <2>4
<1>9. ASSUME NEW s \in Sinks, ReadLeftover(s)
      PROVE  UNCHANGED Abstract!vars
  BY <1>9, Stutters DEF ReadLeftover, pumpVars
<1>10. ASSUME NEW s \in Sinks, ReadChunk(s)
       PROVE  Abstract!Take(s)
  <2>1. s \in added \ (dropped \cup eof)
    BY <1>10 DEF ReadChunk, Reading, IInv, EmptyInv
  <2>2. ReaderState[s] \in {"live", "cut"}
    BY <1>0, <2>1 DEF StateCases
  <2>3. /\ queue[s] \in Seq(1..Chunks) /\ Len(queue[s]) \in Nat /\ Len(queue[s]) > 0
        /\ last[s] \in Nat /\ produced \in Nat
    BY <1>10, <1>0, ChunksAssumption DEF ReadChunk, TypeOK
  <2>4. queue[s][1] = last[s] + 1
    BY <2>1, <2>3 DEF IInv, Gapless
  <2>5. last[s] < produced
    BY <2>1, <2>3 DEF IInv, NotAhead
  <2>6. Head(queue[s]) = last[s] + 1
    BY <2>3, <2>4
  <2>7. last' = [last EXCEPT ![s] = last[s] + 1]
    BY <1>10, <2>6 DEF ReadChunk
  <2>8. UNCHANGED ReaderState
    BY <1>10 DEF ReadChunk, ReaderState
  <2>9. (pc = "finished") = (pc' = "finished")
    BY <1>10 DEF ReadChunk, pumpVars
  <2> QED
    BY <1>10, <2>2, <2>5, <2>7, <2>8, <2>9 DEF ReadChunk, Abstract!Take
<1>11. ASSUME NEW s \in Sinks, ReadEof(s)
       PROVE  Abstract!End(s)
  <2>1. s \in added \ (dropped \cup eof) /\ s \notin registered \cup todo
    BY <1>11 DEF ReadEof, Reading
  <2>2. ReaderState'[s] = "ended"
    BY <1>0, <1>11, <2>1 DEF ReadEof, StateCases
  <2>3. ReaderState' = [ReaderState EXCEPT ![s] = "ended"]
    BY <1>0, <1>11, <2>2, OnlyAt DEF ReadEof
  <2>4. (pc = "finished") = (pc' = "finished")
    BY <1>11 DEF ReadEof, pumpVars
  <2>5. \/ ReaderState[s] = "live" /\ pc = "finished" /\ last[s] = produced
        \/ ReaderState[s] = "cut"
    <3>1. CASE s \in removed
      BY <1>0, <2>1, <3>1 DEF StateCases
    <3>2. CASE s \notin removed
      <4>1. ReaderState[s] = "live"
        BY <1>0, <2>1, <3>2 DEF StateCases
      <4>2. pc = "finished"
        BY <2>1, <3>2 DEF IInv, HandleInv
      <4>3. last[s] + Len(queue[s]) = produced
        BY <2>1, <3>2 DEF IInv, Gapless
      <4>4. Len(queue[s]) = 0 /\ last[s] \in Nat
        BY <1>0, <1>11, ChunksAssumption DEF ReadEof, TypeOK
      <4>5. last[s] = produced
        BY <4>3, <4>4
      <4> QED
        BY <4>1, <4>2, <4>5
    <3> QED
      BY <3>1, <3>2
  <2> QED
    BY <1>11, <2>3, <2>4, <2>5 DEF ReadEof, Abstract!End
<1>12. ASSUME NEW s \in Sinks, DropSink(s)
       PROVE  Abstract!Leave(s)
  <2>1. ReaderState[s] # "new"
    BY <1>0, <1>12 DEF DropSink, Reading, StateCases
  <2>2. ReaderState'[s] = "gone"
    BY <1>0, <1>12 DEF DropSink, StateCases
  <2>3. ReaderState' = [ReaderState EXCEPT ![s] = "gone"]
    BY <1>0, <1>12, <2>2, OnlyAt DEF DropSink
  <2>4. (pc = "finished") = (pc' = "finished")
    BY <1>12 DEF DropSink, pumpVars
  <2> QED
    BY <1>12, <2>1, <2>3, <2>4 DEF DropSink, Abstract!Leave
<1>13. CASE UNCHANGED vars
  BY <1>13, Stutters DEF vars, pumpVars, sinkVars
<1> QED
  BY <1>1, <1>2, <1>3, <1>4, <1>5, <1>6, <1>7, <1>8, <1>9, <1>10, <1>11, <1>12, <1>13
     DEF Next, PumpWrites, Read, Abstract!Next

(* Each mirror gets from its sink what Tee promises a reader: a stretch of *)
(* the capture without gap or repetition, and its end only when there is   *)
(* no more or the sink was removed.                                        *)
THEOREM ImplementsTee == Spec => IsTee
<1>1. IInv /\ IInv' /\ [Next]_vars => [Abstract!Next]_(Abstract!vars)
  BY TeeNext
<1> QED
  BY <1>1, TeeInit, Invariance, PTL DEF Spec, IsTee, Abstract!Spec
=============================================================================
