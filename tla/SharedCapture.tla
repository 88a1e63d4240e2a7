---------------------------- MODULE SharedCapture ----------------------------
(***************************************************************************)
(* What the daemon promises about the screen capture that its mirrors      *)
(* share.  There is at most one.  A mirror that was not told to stop has   *)
(* its pictures from it and from no other, and it is not stopped before    *)
(* each mirror has been told.  A capture that somebody started for nothing *)
(* stays in the hands of who did, until it is stopped too.                 *)
(***************************************************************************)
CONSTANTS
  Mirrors,  \* each may start a capture, which is named after it
  None

VARIABLES
  state,     \* of each capture: none, private, shared or stopped
  reads,     \* reads[m]: the capture that a mirror has joined
  watching,  \* the mirrors that send pictures
  told       \* the mirrors that were told to stop

vars == <<state, reads, watching, told>>

Init ==
  /\ state = [c \in Mirrors |-> "none"]
  /\ reads = [m \in Mirrors |-> None]
  /\ watching = {}
  /\ told = {}

(* Nobody need know of a capture that has just been started.               *)
Start(m) ==
  /\ state[m] = "none"
  /\ reads[m] = None
  /\ state' = [state EXCEPT ![m] = "private"]
  /\ reads' = [reads EXCEPT ![m] = m]
  /\ UNCHANGED <<watching, told>>

Share(c) ==
  /\ state[c] = "private"
  /\ \A d \in Mirrors : state[d] # "shared"
  /\ state' = [state EXCEPT ![c] = "shared"]
  /\ UNCHANGED <<reads, watching, told>>

(* Another one has been shared meanwhile, and is used instead.             *)
GiveUp(c, d) ==
  /\ state[c] = "private"
  /\ state[d] = "shared"
  /\ state' = [state EXCEPT ![c] = "stopped"]
  /\ reads' = [reads EXCEPT ![c] = d]
  /\ UNCHANGED <<watching, told>>

Join(m, c) ==
  /\ reads[m] = None
  /\ state[c] = "shared"
  /\ reads' = [reads EXCEPT ![m] = c]
  /\ UNCHANGED <<state, watching, told>>

(* Only who was told to stop may begin too late.                           *)
Watch(m) ==
  /\ reads[m] # None
  /\ state[reads[m]] = "shared" \/ m \in told
  /\ watching' = watching \cup {m}
  /\ UNCHANGED <<state, reads, told>>

Left(m) ==
  /\ reads[m] # None
  /\ state[reads[m]] # "private"
  /\ reads' = [reads EXCEPT ![m] = None]
  /\ watching' = watching \ {m}

Leave(m) ==
  /\ Left(m)
  /\ UNCHANGED <<state, told>>

Tell(ms) ==
  /\ told' = told \cup ms
  /\ UNCHANGED <<state, reads, watching>>

Stopped(c) ==
  /\ state[c] = "shared"
  /\ watching \subseteq told'
  /\ state' = [state EXCEPT ![c] = "stopped"]

Stop(c, ms) ==
  /\ told' = told \cup ms
  /\ Stopped(c)
  /\ UNCHANGED <<reads, watching>>

(* The last one to leave stops the capture.                                *)
LeaveLast(m, c) ==
  /\ Left(m)
  /\ UNCHANGED told
  /\ Stopped(c)

Next ==
  \/ \E m \in Mirrors : Start(m) \/ Share(m) \/ Watch(m) \/ Leave(m)
  \/ \E m, c \in Mirrors : GiveUp(m, c) \/ Join(m, c) \/ LeaveLast(m, c)
  \/ \E ms \in SUBSET Mirrors : Tell(ms) \/ (\E c \in Mirrors : Stop(c, ms))

Spec == Init /\ [][Next]_vars
=============================================================================
