-------------------------------- MODULE Tee ---------------------------------
(***************************************************************************)
(* What a shared capture promises its readers: one log of chunks, of which *)
(* each reader gets a stretch without gap, repetition or reordering, from  *)
(* where the log was when it subscribed.  A reader that nobody cuts off    *)
(* reaches its end only after everything that was published.               *)
(***************************************************************************)
EXTENDS Naturals

CONSTANT Sinks

VARIABLES
  log,   \* how many chunks have been published
  over,  \* nothing more will be
  pos,   \* pos[s]: the last chunk that reader s took, or where it started
  state  \* state[s]: what the reader is to the log

vars == <<log, over, pos, state>>

Init ==
  /\ log = 0
  /\ over = FALSE
  /\ pos = [s \in Sinks |-> 0]
  /\ state = [s \in Sinks |-> "new"]

Publish ==
  /\ ~over
  /\ log' = log + 1
  /\ UNCHANGED <<over, pos, state>>

Close ==
  /\ over' = TRUE
  /\ UNCHANGED <<log, pos, state>>

Subscribe(s) ==
  /\ state[s] = "new"
  /\ state' = [state EXCEPT ![s] = "live"]
  /\ pos' = [pos EXCEPT ![s] = log]
  /\ UNCHANGED <<log, over>>

Take(s) ==
  /\ state[s] \in {"live", "cut"}
  /\ pos[s] < log
  /\ pos' = [pos EXCEPT ![s] = pos[s] + 1]
  /\ UNCHANGED <<log, over, state>>

(* The reader is told that there is no more.                               *)
End(s) ==
  /\ \/ state[s] = "live" /\ over /\ pos[s] = log
     \/ state[s] = "cut"
  /\ state' = [state EXCEPT ![s] = "ended"]
  /\ UNCHANGED <<log, over, pos>>

(* The reader is unsubscribed, and may still take what it has coming.      *)
Cut(s) ==
  /\ state[s] = "live"
  /\ state' = [state EXCEPT ![s] = "cut"]
  /\ UNCHANGED <<log, over, pos>>

(* The reader goes away.                                                   *)
Leave(s) ==
  /\ state[s] # "new"
  /\ state' = [state EXCEPT ![s] = "gone"]
  /\ UNCHANGED <<log, over, pos>>

Next ==
  \/ Publish
  \/ Close
  \/ \E s \in Sinks : Subscribe(s) \/ Take(s) \/ End(s) \/ Cut(s) \/ Leave(s)

Spec == Init /\ [][Next]_vars
=============================================================================
