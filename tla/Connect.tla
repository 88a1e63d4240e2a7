------------------------------- MODULE Connect -------------------------------
(***************************************************************************)
(* Session::connect_host_full (rtsp.rs): how a connect reaches a receiver, *)
(* pairs with it (pairing.rs) or verifies a pairing saved before           *)
(* (credentials.rs), and sets up FairPlay (fairplay.rs).  Several connects *)
(* run at a time, each on a socket of its own; they share the credentials  *)
(* file.                                                                   *)
(*                                                                         *)
(* A request is sent in the step that decides on it, and the next step of  *)
(* the connect is what read_response makes of the bytes that arrive.  The  *)
(* answers on a connection come in the order of the requests, and nothing  *)
(* but this order tells which answer is whose: CSeq is not looked at.      *)
(* Keys and proofs are ideal.  What is sealed with another key than the    *)
(* reader's cannot be read; a proof is right when the code was.            *)
(*                                                                         *)
(* The receiver is not part of the program.  It answers the requests of a  *)
(* connection in order, as late as it likes, refuses what it likes, and    *)
(* accepts only what the protocol lets it accept.                          *)
(*                                                                         *)
(* An operator that stands right before another and is named like it, with *)
(* what is wrong with it (TypeAfterTransient), is a wrong variant of it:   *)
(* put in its place, it makes a property fail.                             *)
(***************************************************************************)
EXTENDS Naturals, Sequences, FiniteSets

CONSTANTS
  Connects,  \* calls of connect_host_full, each made once
  Devices,   \* receivers, as the keys of the credentials file
  Modes,     \* how they are called: "auto", "force" (-pair) or "code" (-pin)
  FairPlay,  \* the receivers that advertise FairPlay SAP
  Old,       \* the identity that a file from an earlier run may hold
  None       \* no identity

(* An identity is a pairing id with its ed25519 key; a connect that makes  *)
(* one up makes up its own.                                                *)
Idents == Connects \cup {Old}

ASSUME ModesAssumption == Modes \subseteq {"auto", "force", "code"}
ASSUME FairPlayAssumption == FairPlay \subseteq Devices
ASSUME OldAssumption == Old \notin Connects
ASSUME NoneAssumption == None \notin Idents

VARIABLES
  file,      \* the devices of credentials.json
  disk,      \* the file is "whole", "truncated" or "garbled"
  pc,        \* pc[c]: the request whose answer c waits for, or what it does
  dev,       \* dev[c]: the receiver it connects to
  mode,      \* mode[c]: how it was called
  again,     \* again[c]: it has dialled a second time
  snap,      \* snap[c]: CredentialStore.devices of c
  ident,     \* ident[c]: its pairing id and key
  code,      \* code[c]: the code it was given is "right" or "wrong"
  sap,       \* sap[c]: info.supports_fairplay_sap()
  share,     \* share[c]: the secret of its verify exchange
  key,       \* key[c]: the control channel's key
  line,      \* line[c]: the requests whose answers it has not read, in order
  torn,      \* torn[c]: it has read part of the first of them
  stage,     \* stage[c]: how far the receiver got on this connection
  rxKey,     \* rxKey[c]: the key the receiver uses on this connection
  accepted,  \* accepted[d]: the identities d has ever paired with
  trusted,   \* trusted[d]: those it has not forgotten
  backoff,   \* backoff[d]: d has seen an SRP proof fail
  mistyped   \* mistyped[d]: somebody gave a wrong code for d

store    == <<file, disk>>
choice   == <<dev, mode, ident, code>>
channel  == <<key, share, line, torn>>
receiver == <<stage, rxKey>>
devices  == <<accepted, trusted, backoff>>
vars     == <<store, pc, choice, again, snap, sap, channel, receiver, devices, mistyped>>

-----------------------------------------------------------------------------
(***************************************************************************)
(* Requests and what is on the way.                                        *)
(***************************************************************************)

(* In the order in which a connection can see them.                        *)
Order == <<"Info", "PinStart", "M1", "M3", "M5", "V1", "V3", "Fp1", "Fp2">>
Requests == {Order[i] : i \in 1..9}

(* "plain" before pair-verify; "shared" is what both sides derive from one *)
(* exchange, "wrong" is derived from something else.                       *)
Keys == {"plain", "shared", "wrong"}

Messages == [ask : Requests, state : {"asked", "good", "bad"}, key : Keys]

Stores == [Devices -> Idents \cup {None}]
Empty == [d \in Devices |-> None]

Places == Requests \cup {"idle", "redial", "pin", "save", "write", "up", "failed"}

TypeOK ==
  /\ file \in Stores
  /\ disk \in {"whole", "truncated", "garbled"}
  /\ pc \in [Connects -> Places]
  /\ dev \in [Connects -> Devices]
  /\ mode \in [Connects -> {"auto", "force", "code"}]
  /\ again \in [Connects -> BOOLEAN]
  /\ snap \in [Connects -> Stores]
  /\ ident \in [Connects -> Idents]
  /\ code \in [Connects -> {"right", "wrong"}]
  /\ sap \in [Connects -> BOOLEAN]
  /\ share \in [Connects -> Keys]
  /\ key \in [Connects -> {"plain", "shared"}]
  /\ line \in [Connects -> Seq(Messages)]
  /\ torn \in [Connects -> BOOLEAN]
  /\ stage \in [Connects -> {"new", "asked", "proved", "paired", "verify"}]
  /\ rxKey \in [Connects -> Keys]
  /\ accepted \in [Devices -> SUBSET Idents]
  /\ trusted \in [Devices -> SUBSET Idents]
  /\ backoff \in [Devices -> BOOLEAN]
  /\ mistyped \in [Devices -> BOOLEAN]

(* The file may hold pairings of an earlier run, which the receivers have  *)
(* accepted then and may have forgotten since.                             *)
Init ==
  /\ file \in [Devices -> {Old, None}]
  /\ disk = "whole"
  /\ pc = [c \in Connects |-> "idle"]
  /\ dev \in [Connects -> Devices]
  /\ mode \in [Connects -> Modes]
  /\ again = [c \in Connects |-> FALSE]
  /\ snap = [c \in Connects |-> Empty]
  /\ ident = [c \in Connects |-> Old]
  /\ code = [c \in Connects |-> "right"]
  /\ sap = [c \in Connects |-> FALSE]
  /\ share = [c \in Connects |-> "plain"]
  /\ key = [c \in Connects |-> "plain"]
  /\ line = [c \in Connects |-> << >>]
  /\ torn = [c \in Connects |-> FALSE]
  /\ stage = [c \in Connects |-> "new"]
  /\ rxKey = [c \in Connects |-> "plain"]
  /\ accepted = [d \in Devices |-> {file[d]} \ {None}]
  /\ trusted = accepted
  /\ backoff = [d \in Devices |-> FALSE]
  /\ mistyped = [d \in Devices |-> FALSE]

(* CredentialStore::open: what cannot be parsed counts as empty.           *)
Load == IF disk = "whole" THEN file ELSE Empty

(* The identity that c found in the file and may use.                      *)
Saved(c) == IF mode[c] = "force" THEN None ELSE snap[c][dev[c]]

Fast(c) == mode[c] = "auto" /\ ~again[c] /\ Saved(c) # None

Become(c, p) == pc' = [pc EXCEPT ![c] = p]

(* Write request r, sealed with k, to the socket when rest is what is      *)
(* still unread on it, and wait for the answer.                            *)
AskAfter(c, rest, r, k) ==
  /\ Become(c, r)
  /\ line' = [line EXCEPT ![c] = Append(rest, [ask |-> r, state |-> "asked", key |-> k])]

(* Close the socket; what was on the way is lost, and the receiver starts  *)
(* afresh on the next one.                                                 *)
Close(c, p) ==
  /\ Become(c, p)
  /\ line' = [line EXCEPT ![c] = << >>]
  /\ torn' = [torn EXCEPT ![c] = FALSE]
  /\ key' = [key EXCEPT ![c] = "plain"]
  /\ share' = [share EXCEPT ![c] = "plain"]
  /\ stage' = [stage EXCEPT ![c] = "new"]
  /\ rxKey' = [rxKey EXCEPT ![c] = "plain"]

(* connect_host_full returns an error, and its locals are gone.            *)
Fail(c) ==
  /\ Close(c, "failed")
  /\ again' = [again EXCEPT ![c] = FALSE]
  /\ snap' = [snap EXCEPT ![c] = Empty]
  /\ ident' = [ident EXCEPT ![c] = Old]
  /\ code' = [code EXCEPT ![c] = "right"]
  /\ sap' = [sap EXCEPT ![c] = FALSE]

(***************************************************************************)
(* What read_response may make of what arrives.                            *)
(***************************************************************************)

Arrived(c) == line[c] # << >> /\ Head(line[c]).state # "asked"

(* A whole answer that decrypts.                                           *)
Readable(c) == Arrived(c) /\ ~torn[c] /\ Head(line[c]).key = key[c]

(* The reader stands within an answer, or has the wrong key.  It may eat   *)
(* any part of what has come.                                              *)
Garbage(c) == Arrived(c) /\ (torn[c] \/ Head(line[c]).key # key[c])

Eaten(c) == {SubSeq(line[c], i, Len(line[c])) : i \in 1..Len(line[c])}

(* Looks for the status only.                                              *)
AcceptsErrors(r, a) ==
  /\ a.state = "good" \/ r \in {"M3", "M5", "V3"}
  /\ r = "M1" => a.ask = "M1"
  /\ r = "V1" => a.ask \in {"M1", "V1"}
  /\ r \in {"Info", "Fp1", "Fp2"} => a.ask = r

(* Does without the salt and the public key, as a transient M2 may.        *)
AcceptsAnything(r, a) ==
  /\ a.state = "good"
  /\ r \in {"Info", "Fp1", "Fp2"} => a.ask = r

(* An M2 and a V2 carry a public key, and only an M2 a salt.  Beyond that  *)
(* pair-setup and pair-verify look for a status of 2xx and no error item,  *)
(* and /pair-pin-start looks for the status only.                          *)
Accepts(r, a) ==
  /\ a.state = "good"
  /\ r = "M1" => a.ask = "M1"
  /\ r = "V1" => a.ask \in {"M1", "V1"}
  /\ r \in {"Info", "Fp1", "Fp2"} => a.ask = r

(* The request c waits for succeeds, or fails, with rest left unread on    *)
(* the socket and perhaps part of an answer eaten.  It fails when nothing  *)
(* comes for 30 s, whatever comes later.                                   *)
Hears(c, ok, rest, part) ==
  \/ Readable(c) /\ ok = Accepts(pc[c], Head(line[c])) /\ rest = Tail(line[c]) /\ ~part
  \/ /\ Garbage(c)
     /\ ok => key[c] = "plain" /\ pc[c] \in {"PinStart", "M3", "M5", "V3"}
     /\ rest \in Eaten(c)
     /\ part => rest # << >>
  \/ ~ok /\ rest = line[c] /\ (part => torn[c] \/ Arrived(c)) /\ (torn[c] => part)

Suffixes(c) == Eaten(c) \cup {line[c], << >>}

(* The request fails, and with it the attempt.                             *)
Fails(c) == \E rest \in Suffixes(c), part \in BOOLEAN : Hears(c, FALSE, rest, part)

(* The request c waits for succeeds, and request r, sealed with k, follows *)
(* on the same socket.                                                     *)
Proceed(c, r, k) ==
  \E rest \in Suffixes(c), part \in BOOLEAN :
    /\ Hears(c, TRUE, rest, part)
    /\ torn' = [torn EXCEPT ![c] = part]
    /\ AskAfter(c, rest, r, k)

-----------------------------------------------------------------------------
(***************************************************************************)
(* The connect.                                                            *)
(***************************************************************************)

(* Use the identity found in the file, or make one up.                     *)
Open(c) ==
  /\ pc[c] = "idle"
  /\ snap' = [snap EXCEPT ![c] = Load]
  /\ LET saved == IF mode[c] = "force" THEN None ELSE Load[dev[c]]
     IN ident' = [ident EXCEPT ![c] = IF saved = None THEN c ELSE saved]
  /\ AskAfter(c, << >>, "Info", "plain")
  /\ UNCHANGED <<store, dev, mode, again, code, sap, key, share, torn, receiver, devices, mistyped>>

(* The code of -pin, or the one that is asked for.                         *)
GiveCode(c) ==
  \E w \in {"right", "wrong"} :
    /\ code' = [code EXCEPT ![c] = w]
    /\ mistyped' = [mistyped EXCEPT ![dev[c]] = @ \/ w = "wrong"]

(* A failed GET /info is put up with: the defaults advertise nothing.      *)
HearInfo(c) ==
  /\ pc[c] = "Info"
  /\ \E ok, part \in BOOLEAN, rest \in Suffixes(c) :
       /\ Hears(c, ok, rest, part)
       /\ sap' = [sap EXCEPT ![c] = ok /\ dev[c] \in FairPlay]
       /\ torn' = [torn EXCEPT ![c] = part]
       /\ IF mode[c] = "code"
          THEN AskAfter(c, rest, "M1", "plain") /\ GiveCode(c)
          ELSE /\ AskAfter(c, rest, IF Fast(c) THEN "V1" ELSE "PinStart", "plain")
               /\ UNCHANGED <<code, mistyped>>
  /\ UNCHANGED <<store, dev, mode, again, snap, ident, key, share, receiver, devices>>

(* pair_pin_display: so is a failed POST /pair-pin-start.                  *)
HearPinStart(c) ==
  /\ pc[c] = "PinStart"
  /\ \E ok, part \in BOOLEAN, rest \in Suffixes(c) :
       /\ Hears(c, ok, rest, part)
       /\ Become(c, "pin")
       /\ line' = [line EXCEPT ![c] = rest]
       /\ torn' = [torn EXCEPT ![c] = part]
  /\ UNCHANGED <<store, choice, again, snap, sap, key, share, receiver, devices, mistyped>>

(* The transient attempt that pair_pin_display does without.               *)
TypeAfterTransient(c) ==
  /\ pc[c] = "pin"
  /\ code' = [code EXCEPT ![c] = "wrong"]
  /\ AskAfter(c, line[c], "M1", "plain")
  /\ UNCHANGED <<store, dev, mode, ident, again, snap, sap, key, share, torn, receiver, devices, mistyped>>

Type(c) ==
  /\ pc[c] = "pin"
  /\ GiveCode(c)
  /\ AskAfter(c, line[c], "M1", "plain")
  /\ UNCHANGED <<store, dev, mode, ident, again, snap, sap, key, share, torn, receiver, devices>>

(* pin_provider returns None.                                              *)
NoCode(c) ==
  /\ pc[c] = "pin"
  /\ Fail(c)
  /\ UNCHANGED <<store, dev, mode, devices, mistyped>>

(* pair_setup_with_identity, complete_srp_exchange and then pair_verify.   *)
PairSetup(c) ==
  /\ \/ pc[c] = "M1" /\ Proceed(c, "M3", "plain")
     \/ pc[c] = "M3" /\ Proceed(c, "M5", "plain")
     \/ pc[c] = "M5" /\ Proceed(c, "V1", "plain")
  /\ UNCHANGED <<store, choice, again, snap, sap, key, share, receiver, devices, mistyped>>

(* The channel is encrypted as soon as there is a secret.                  *)
PairVerifyEncrypts(c) ==
  /\ pc[c] = "V1"
  /\ Proceed(c, "V3", "plain")
  /\ share' = [share EXCEPT ![c] = IF Head(line[c]).ask = "V1" THEN "shared" ELSE "wrong"]
  /\ key' = [key EXCEPT ![c] = share'[c]]
  /\ UNCHANGED <<store, choice, again, snap, sap, receiver, devices, mistyped>>

(* The secret is derived from whatever public key the answer has.          *)
PairVerify(c) ==
  /\ pc[c] = "V1"
  /\ Proceed(c, "V3", "plain")
  /\ share' = [share EXCEPT ![c] = IF Head(line[c]).ask = "V1" THEN "shared" ELSE "wrong"]
  /\ UNCHANGED <<store, choice, again, snap, sap, key, receiver, devices, mistyped>>

(* enable_encryption.  A pairing that was saved before is not saved again. *)
Encrypt(c) ==
  /\ pc[c] = "V3"
  /\ key' = [key EXCEPT ![c] = share[c]]
  /\ IF Fast(c)
     THEN Proceed(c, "Fp1", share[c])
     ELSE \E rest \in Suffixes(c), part \in BOOLEAN :
            /\ Hears(c, TRUE, rest, part)
            /\ Become(c, "save")
            /\ line' = [line EXCEPT ![c] = rest]
            /\ torn' = [torn EXCEPT ![c] = part]
  /\ UNCHANGED <<store, choice, again, snap, sap, share, receiver, devices, mistyped>>

(* A verify of the saved pairing that fails is followed by a fresh socket, *)
(* any other failure by none.                                              *)
PairingFails(c) ==
  /\ pc[c] \in {"M1", "M3", "M5", "V1", "V3"}
  /\ Fails(c)
  /\ IF pc[c] \in {"V1", "V3"} /\ Fast(c)
     THEN Close(c, "redial") /\ UNCHANGED <<again, snap, ident, code, sap>>
     ELSE Fail(c)
  /\ UNCHANGED <<store, dev, mode, devices, mistyped>>

Redial(c) ==
  /\ pc[c] = "redial"
  /\ again' = [again EXCEPT ![c] = TRUE]
  /\ AskAfter(c, << >>, "Info", "plain")
  /\ UNCHANGED <<store, choice, snap, sap, key, share, torn, receiver, devices, mistyped>>

(* CredentialStore::save: the map read at the start, with the new pairing, *)
(* replaces the file.                                                      *)
Truncate(c) ==
  /\ pc[c] = "save"
  /\ Become(c, "write")
  /\ file' = Empty
  /\ disk' = "truncated"
  /\ snap' = [snap EXCEPT ![c][dev[c]] = ident[c]]
  /\ UNCHANGED <<choice, again, sap, channel, receiver, devices, mistyped>>

(* Bytes that another connect has written since the file was truncated may *)
(* stick out from under these.                                             *)
Write(c) ==
  /\ pc[c] = "write"
  /\ file' = snap[c]
  /\ IF disk = "truncated" THEN disk' = "whole" ELSE disk' \in {"whole", "garbled"}
  /\ AskAfter(c, line[c], "Fp1", key[c])
  /\ UNCHANGED <<choice, again, snap, sap, key, share, torn, receiver, devices, mistyped>>

(* The file cannot be opened, or not be written to the end.  Nobody minds. *)
SaveFails(c) ==
  /\ \/ pc[c] = "save" /\ UNCHANGED store
     \/ pc[c] = "write" /\ disk' = "garbled" /\ UNCHANGED file
  /\ AskAfter(c, line[c], "Fp1", key[c])
  /\ UNCHANGED <<choice, again, snap, sap, key, share, torn, receiver, devices, mistyped>>

(* fair_play_setup, and Ok(Session).                                       *)
FairPlaySetup(c) ==
  /\ \/ pc[c] = "Fp1" /\ Proceed(c, "Fp2", key[c])
     \/ /\ pc[c] = "Fp2"
        /\ \E rest \in Suffixes(c), part \in BOOLEAN :
             /\ Hears(c, TRUE, rest, part)
             /\ Become(c, "up")
             /\ line' = [line EXCEPT ![c] = rest]
             /\ torn' = [torn EXCEPT ![c] = part]
  /\ UNCHANGED <<store, choice, again, snap, sap, key, share, receiver, devices, mistyped>>

(* fp-setup fails with a receiver that advertises SAP.                     *)
FairPlayFails(c) ==
  /\ pc[c] \in {"Fp1", "Fp2"}
  /\ sap[c]
  /\ Fails(c)
  /\ Fail(c)
  /\ UNCHANGED <<store, dev, mode, devices, mistyped>>

(* Any other receiver can do without.                                      *)
NoFairPlay(c) ==
  /\ pc[c] \in {"Fp1", "Fp2"}
  /\ ~sap[c]
  /\ \E rest \in Suffixes(c), part \in BOOLEAN :
       /\ Hears(c, FALSE, rest, part)
       /\ Become(c, "up")
       /\ line' = [line EXCEPT ![c] = rest]
       /\ torn' = [torn EXCEPT ![c] = part]
  /\ UNCHANGED <<store, choice, again, snap, sap, key, share, receiver, devices, mistyped>>

(* The receiver cannot be dialled, or the process is killed.               *)
Die(c) ==
  /\ pc[c] \notin {"up", "failed"}
  /\ Fail(c)
  /\ UNCHANGED <<store, dev, mode, devices, mistyped>>

-----------------------------------------------------------------------------
(***************************************************************************)
(* The receivers.                                                          *)
(***************************************************************************)

Answered(m, s) == [m EXCEPT !.state = s]

(* Answer request r, the first of c's that has no answer yet.              *)
Answer(c, r, s) ==
  \E i \in 1..Len(line[c]) :
    /\ line[c][i].ask = r
    /\ line[c][i].state = "asked"
    /\ line[c][i].key = rxKey[c]
    /\ \A j \in 1..(i - 1) : line[c][j].state # "asked"
    /\ line' = [line EXCEPT ![c][i] = Answered(@, s)]

AnswerPlainly(c) ==
  /\ \E r \in {"Info", "PinStart", "Fp1", "Fp2"} : Answer(c, r, "good")
  /\ UNCHANGED <<store, pc, choice, again, snap, sap, key, share, torn, receiver, devices, mistyped>>

AnswerM1(c) ==
  /\ Answer(c, "M1", "good")
  /\ stage' = [stage EXCEPT ![c] = "asked"]
  /\ UNCHANGED <<store, pc, choice, again, snap, sap, key, share, torn, rxKey, devices, mistyped>>

AnswerM3(c) ==
  /\ Answer(c, "M3", "good")
  /\ stage[c] = "asked"
  /\ code[c] = "right"
  /\ stage' = [stage EXCEPT ![c] = "proved"]
  /\ UNCHANGED <<store, pc, choice, again, snap, sap, key, share, torn, rxKey, devices, mistyped>>

AnswerM5(c) ==
  /\ Answer(c, "M5", "good")
  /\ stage[c] = "proved"
  /\ stage' = [stage EXCEPT ![c] = "paired"]
  /\ accepted' = [accepted EXCEPT ![dev[c]] = @ \cup {ident[c]}]
  /\ trusted' = [trusted EXCEPT ![dev[c]] = @ \cup {ident[c]}]
  /\ UNCHANGED <<store, pc, choice, again, snap, sap, key, share, torn, rxKey, backoff, mistyped>>

AnswerV1(c) ==
  /\ Answer(c, "V1", "good")
  /\ stage' = [stage EXCEPT ![c] = "verify"]
  /\ UNCHANGED <<store, pc, choice, again, snap, sap, key, share, torn, rxKey, devices, mistyped>>

(* From the next request on the receiver encrypts.                         *)
AnswerV3(c) ==
  /\ Answer(c, "V3", "good")
  /\ stage[c] = "verify"
  /\ share[c] = "shared"
  /\ ident[c] \in trusted[dev[c]]
  /\ rxKey' = [rxKey EXCEPT ![c] = "shared"]
  /\ UNCHANGED <<store, pc, choice, again, snap, sap, key, share, torn, stage, devices, mistyped>>

(* A proof that fails makes the receiver refuse more and more pairings.    *)
Refuse(c) ==
  /\ \E r \in Requests :
       /\ Answer(c, r, "bad")
       /\ backoff' = [backoff EXCEPT ![dev[c]] =
                        @ \/ (r = "M3" /\ (stage[c] # "asked" \/ code[c] = "wrong"))]
  /\ UNCHANGED <<store, pc, choice, again, snap, sap, key, share, torn, receiver, accepted, trusted, mistyped>>

(* The pairings are removed in the receiver's settings.                    *)
Forget(d) ==
  /\ trusted[d] # {}
  /\ trusted' = [trusted EXCEPT ![d] = {}]
  /\ UNCHANGED <<store, pc, choice, again, snap, sap, channel, receiver, accepted, backoff, mistyped>>

-----------------------------------------------------------------------------
(* What c does by itself, the answer to the code dialog apart.             *)
Step(c) ==
  \/ Open(c) \/ HearInfo(c) \/ HearPinStart(c) \/ PairSetup(c) \/ PairVerify(c)
  \/ Encrypt(c) \/ PairingFails(c) \/ Redial(c) \/ Truncate(c) \/ Write(c)
  \/ SaveFails(c) \/ FairPlaySetup(c) \/ FairPlayFails(c) \/ NoFairPlay(c)

Receive(c) ==
  \/ AnswerPlainly(c) \/ AnswerM1(c) \/ AnswerM3(c) \/ AnswerM5(c)
  \/ AnswerV1(c) \/ AnswerV3(c) \/ Refuse(c)

Next ==
  \/ \E c \in Connects : Step(c) \/ Type(c) \/ NoCode(c) \/ Die(c) \/ Receive(c)
  \/ \E d \in Devices : Forget(d)

Spec == Init /\ [][Next]_vars

-----------------------------------------------------------------------------
(* Where an answer is acted upon.                                          *)
Pairing == {"M3", "M5", "V3", "Fp1", "Fp2"}

(* From M3 on, what a connect acts on are the answers to its own requests. *)
(* GET /info and /pair-pin-start may time out and be answered later, and   *)
(* pairing begins on the same socket all the same; a late answer, or half  *)
(* of one, must never pass for one of pair-setup or pair-verify.           *)
NoStaleAnswers ==
  \A c \in Connects :
    pc[c] \in Pairing =>
      /\ ~torn[c]
      /\ Len(line[c]) <= 1
      /\ \A i \in 1..Len(line[c]) : line[c][i].ask = pc[c]

(* A connect encrypts only when the receiver does, with the same key, and  *)
(* as an identity that the receiver has paired with (pair_verify).         *)
KeysAgree ==
  \A c \in Connects :
    key[c] # "plain" => /\ key[c] = rxKey[c]
                        /\ ident[c] \in accepted[dev[c]]

(* The channel as its two ends see it.                                     *)
Verified == [c \in Connects |-> IF rxKey[c] = "shared" THEN ident[c] ELSE None]
State ==
  [c \in Connects |->
     IF key[c] = "plain"       THEN "plain"
     ELSE IF key[c] # rxKey[c] THEN "garbled"
     ELSE IF pc[c] = "up"      THEN "up" ELSE "secret"]

Abstract == INSTANCE PairedChannel WITH
  peer  <- dev,
  known <- accepted,
  who   <- Verified,
  state <- State,
  saved <- file

(* Whatever comes late, is refused, forgotten, retried or saved by other   *)
(* connects meanwhile: no session begins, and no pairing is written to the *)
(* file, but over a channel whose other end has verified who this is.      *)
IsPairedChannel == Abstract!Spec

(* A pairing in the credentials file is one its receiver has accepted: a   *)
(* pairing that fails half way leaves nothing there (CredentialStore.save).*)
StoredIsAccepted ==
  \A d \in Devices : file[d] # None => file[d] \in accepted[d]

(* pair_pin_display never trips the receiver's back-off against guessing:  *)
(* an SRP proof fails only when somebody gave a wrong code.                *)
BackoffOnlyByTypo == \A d \in Devices : backoff[d] => mistyped[d]

(* "One PIN pairing now saves credentials, so every later connect is the   *)
(* instant pair-verify fast path" (rtsp.rs:716): what takes the place of   *)
(* the credentials file has every pairing that the file had.               *)
PairingsAreKept ==
  [][\A c \in Connects :
       Truncate(c) /\ disk = "whole" =>
         \A d \in Devices : file[d] # None => snap'[c][d] # None]_vars
=============================================================================
