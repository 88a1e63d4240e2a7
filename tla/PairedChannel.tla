---------------------------- MODULE PairedChannel ----------------------------
(***************************************************************************)
(* What a connect promises about the channel to its receiver, and about    *)
(* the pairings that are saved.  The channel becomes secret only when the  *)
(* receiver has verified an identity that it has once paired with, and     *)
(* only a secret channel is used for a session.  Only over such a channel  *)
(* is anything saved: the identity that was verified, and besides nothing  *)
(* that a receiver has not paired with.                                    *)
(***************************************************************************)
CONSTANTS
  Connects,
  Devices,
  Idents,  \* what a connect may call itself
  None

VARIABLES
  peer,   \* peer[c]: the receiver that c connects to
  known,  \* known[d]: the identities that d has ever paired with
  who,    \* who[c]: the identity that the receiver has verified, or None
  state,  \* of the channel of c: plain, secret, or up, with a session
  saved   \* saved[d]: the pairing with d that is saved, or None

vars == <<peer, known, who, state, saved>>

Init ==
  /\ peer \in [Connects -> Devices]
  /\ saved \in [Devices -> Idents \cup {None}]
  /\ known = [d \in Devices |-> {saved[d]} \ {None}]
  /\ who = [c \in Connects |-> None]
  /\ state = [c \in Connects |-> "plain"]

Pair(d, i) ==
  /\ known' = [known EXCEPT ![d] = @ \cup {i}]
  /\ UNCHANGED <<peer, who, state, saved>>

Verify(c, i) ==
  /\ state[c] = "plain"
  /\ who[c] = None
  /\ i \in known[peer[c]]
  /\ who' = [who EXCEPT ![c] = i]
  /\ UNCHANGED <<peer, known, state, saved>>

Secure(c) ==
  /\ state[c] = "plain"
  /\ who[c] # None
  /\ state' = [state EXCEPT ![c] = "secret"]
  /\ UNCHANGED <<peer, known, who, saved>>

Serve(c) ==
  /\ state[c] = "secret"
  /\ state' = [state EXCEPT ![c] = "up"]
  /\ UNCHANGED <<peer, known, who, saved>>

(* A failed connect, or one that tries again.                              *)
Close(c) ==
  /\ state[c] # "up"
  /\ state' = [state EXCEPT ![c] = "plain"]
  /\ who' = [who EXCEPT ![c] = None]
  /\ UNCHANGED <<peer, known, saved>>

(* What is saved may be lost while it is replaced.                         *)
Lose(c) ==
  /\ state[c] = "secret"
  /\ saved' = [d \in Devices |-> None]
  /\ UNCHANGED <<peer, known, who, state>>

Save(c) ==
  /\ state[c] = "secret"
  /\ saved' \in [Devices -> Idents \cup {None}]
  /\ saved'[peer[c]] = who[c]
  /\ \A d \in Devices : saved'[d] # None => saved'[d] \in known[d]
  /\ UNCHANGED <<peer, known, who, state>>

Next ==
  \/ \E d \in Devices, i \in Idents : Pair(d, i)
  \/ \E c \in Connects, i \in Idents : Verify(c, i)
  \/ \E c \in Connects : Secure(c) \/ Serve(c) \/ Close(c) \/ Lose(c) \/ Save(c)

Spec == Init /\ [][Next]_vars
=============================================================================
