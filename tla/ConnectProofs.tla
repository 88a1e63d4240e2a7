---------------------------- MODULE ConnectProofs ----------------------------
(***************************************************************************)
(* Proofs that connects act on their own answers only, agree on the key    *)
(* with the receiver, and leave nothing wrong in the credentials file, for *)
(* any number of connects and receivers.                                   *)
(***************************************************************************)
EXTENDS Connect, SequenceTheorems, TLAPS

(* The answer to r may still be on the way at place p.                     *)
MayCome(p, r) ==
  \/ r = p
  \/ p \in {"PinStart", "pin", "M1", "V1"} /\ r = "Info"
  \/ p \in {"pin", "M1"} /\ r = "PinStart"
  \/ p = "up" /\ r \in {"Fp1", "Fp2"}

(* No answer to an earlier request is on the way once pairing has begun,   *)
(* and what a connect waits for comes last.                                *)
LineInv(c) ==
  /\ pc[c] \in Pairing \cup {"save", "write"} => ~torn[c] /\ Len(line[c]) <= 1
  /\ \A i \in 1..Len(line[c]) :
       /\ MayCome(pc[c], line[c][i].ask)
       /\ line[c][i].ask = pc[c] => i = Len(line[c])

(* What an answer tells about the receiver.                                *)
AnswerInv(c) ==
  \A i \in 1..Len(line[c]) :
    /\ line[c][i].ask \notin {"Fp1", "Fp2"} => line[c][i].key = "plain"
    /\ line[c][i].ask = "M1" /\ line[c][i].state = "good" => stage[c] = "asked"
    /\ line[c][i].ask = "M3" /\ line[c][i].state = "asked" => stage[c] = "asked"
    /\ line[c][i].ask = "V3" /\ line[c][i].state = "good" =>
         /\ rxKey[c] = "shared"
         /\ ident[c] \in accepted[dev[c]]

(* Both sides encrypt as soon as pair-verify is over, and not before.      *)
KeyInv(c) ==
  /\ pc[c] = "V3" => share[c] = "shared"
  /\ IF pc[c] \in {"save", "write", "Fp1", "Fp2", "up"}
     THEN /\ key[c] = "shared"
          /\ rxKey[c] = "shared"
          /\ ident[c] \in accepted[dev[c]]
     ELSE key[c] = "plain"

LocalInv(c) ==
  /\ LineInv(c)
  /\ AnswerInv(c)
  /\ KeyInv(c)
  /\ \A d \in Devices : snap[c][d] # None => snap[c][d] \in accepted[d]
  /\ code[c] = "wrong" => mistyped[dev[c]]

SharedInv ==
  /\ StoredIsAccepted
  /\ BackoffOnlyByTypo
  /\ \A d \in Devices : trusted[d] \subseteq accepted[d]

IInv ==
  /\ TypeOK
  /\ SharedInv
  /\ \A c \in Connects : LocalInv(c)

-----------------------------------------------------------------------------
(***************************************************************************)
(* Operators.                                                              *)
(***************************************************************************)

(* What a read leaves on the socket is the end of what was there.          *)
LEMMA SuffixFacts ==
  ASSUME TypeOK, NEW c \in Connects, NEW rest \in Suffixes(c)
  PROVE  /\ rest \in Seq(Messages)
         /\ Len(rest) <= Len(line[c])
         /\ \A i \in 1..Len(rest) :
              /\ i + (Len(line[c]) - Len(rest)) \in 1..Len(line[c])
              /\ rest[i] = line[c][i + (Len(line[c]) - Len(rest))]
<1> DEFINE l == line[c]
<1>1. l \in Seq(Messages)
  BY DEF TypeOK
<1>2. CASE rest = l
  BY <1>1, <1>2
<1>3. CASE rest = << >>
  BY <1>1, <1>3
<1>4. CASE rest \in Eaten(c)
  <2>1. PICK k \in 1..Len(l) : rest = SubSeq(l, k, Len(l))
    BY <1>4 DEF Eaten
  <2>2. /\ rest \in Seq(Messages)
        /\ Len(rest) = Len(l) - k + 1
        /\ \A i \in 1..Len(rest) : rest[i] = l[k + i - 1]
    BY <1>1, <2>1
  <2> QED
    BY <1>1, <2>2
<1> QED
  BY <1>2, <1>3, <1>4 DEF Suffixes

(* A request goes to the end of the line.                                  *)
LEMMA AskFacts ==
  ASSUME TypeOK, NEW c \in Connects, NEW rest \in Seq(Messages),
         NEW r \in Requests, NEW k \in Keys, AskAfter(c, rest, r, k)
  PROVE  /\ pc' \in [Connects -> Places]
         /\ line' \in [Connects -> Seq(Messages)]
         /\ pc'[c] = r
         /\ Len(line'[c]) = Len(rest) + 1
         /\ \A i \in 1..Len(rest) : line'[c][i] = rest[i]
         /\ line'[c][Len(rest) + 1] = [ask |-> r, state |-> "asked", key |-> k]
         /\ \A d \in Connects : d # c => pc'[d] = pc[d] /\ line'[d] = line[d]
<1> DEFINE m == [ask |-> r, state |-> "asked", key |-> k]
<1>1. m \in Messages
  BY DEF Messages
<1>2. /\ Append(rest, m) \in Seq(Messages)
      /\ Len(Append(rest, m)) = Len(rest) + 1
      /\ \A i \in 1..Len(rest) : Append(rest, m)[i] = rest[i]
      /\ Append(rest, m)[Len(rest) + 1] = m
  BY <1>1
<1>3. line' = [line EXCEPT ![c] = Append(rest, m)]
  BY DEF AskAfter
<1>4. pc' = [pc EXCEPT ![c] = r]
  BY DEF AskAfter, Become
<1> QED
  BY <1>2, <1>3, <1>4 DEF TypeOK, Places

(* An answer changes the state of one request.                             *)
LEMMA AnswerFacts ==
  ASSUME TypeOK, NEW c \in Connects, NEW r, NEW s \in {"good", "bad"}, Answer(c, r, s)
  PROVE  \E i \in 1..Len(line[c]) :
           /\ line[c][i].ask = r
           /\ line[c][i].state = "asked"
           /\ line' \in [Connects -> Seq(Messages)]
           /\ Len(line'[c]) = Len(line[c])
           /\ \A j \in 1..Len(line[c]) : j # i => line'[c][j] = line[c][j]
           /\ line'[c][i].ask = r
           /\ line'[c][i].state = s
           /\ line'[c][i].key = line[c][i].key
           /\ \A d \in Connects : d # c => line'[d] = line[d]
<1>1. PICK i \in 1..Len(line[c]) :
        /\ line[c][i].ask = r
        /\ line[c][i].state = "asked"
        /\ line' = [line EXCEPT ![c][i] = Answered(line[c][i], s)]
  BY DEF Answer
<1> DEFINE m == Answered(line[c][i], s)
           l == [line[c] EXCEPT ![i] = m]
<1>2. line[c] \in Seq(Messages) /\ line[c][i] \in Messages
  BY DEF TypeOK
<1>3. m \in Messages /\ m.ask = r /\ m.state = s /\ m.key = line[c][i].key
  BY <1>1, <1>2 DEF Messages, Answered
<1> HIDE DEF m
<1>4. line' = [line EXCEPT ![c] = l]
  BY <1>1 DEF m
<1>5. /\ l \in Seq(Messages)
      /\ Len(l) = Len(line[c])
      /\ \A j \in 1..Len(line[c]) : l[j] = IF j = i THEN m ELSE line[c][j]
  BY <1>2, <1>3
<1> HIDE DEF l
<1>6. /\ line' \in [Connects -> Seq(Messages)]
      /\ line'[c] = l
      /\ \A d \in Connects : d # c => line'[d] = line[d]
  BY <1>4, <1>5 DEF TypeOK
<1> QED
  BY <1>1, <1>3, <1>5, <1>6

(* From M1 on, what a connect takes for the answer is the answer to its    *)
(* last request, and nothing is behind it.                                 *)
LEMMA OwnAnswer ==
  ASSUME TypeOK, NEW c \in Connects, LocalInv(c),
         pc[c] \in {"M1", "M3", "M5", "V1", "V3", "Fp1", "Fp2"},
         NEW rest \in Suffixes(c), NEW part \in BOOLEAN, Hears(c, TRUE, rest, part)
  PROVE  /\ rest = << >>
         /\ part = FALSE
         /\ Len(line[c]) = 1
         /\ line[c][1].ask = pc[c]
         /\ line[c][1].state = "good"
<1> DEFINE l == line[c]
<1>1. l \in Seq(Messages) /\ torn[c] \in BOOLEAN
  BY DEF TypeOK
<1>2. Arrived(c)
  BY DEF Hears, Readable, Garbage
<1>3. /\ Len(l) >= 1
      /\ Head(l) = l[1]
      /\ l[1] \in Messages
  BY <1>1, <1>2 DEF Arrived
<1>4. l[1].ask \in Requests
  BY <1>3 DEF Messages
<1>5. ~Garbage(c) \/ pc[c] \notin {"M3", "M5", "V3"}
  <2> SUFFICES ASSUME pc[c] \in {"M3", "M5", "V3"}
               PROVE  ~Garbage(c)
    OBVIOUS
  <2>1. ~torn[c] /\ key[c] = "plain"
    BY DEF LocalInv, LineInv, KeyInv, Pairing
  <2>2. l[1].key = "plain"
    BY <1>3, <1>1 DEF LocalInv, AnswerInv, LineInv, MayCome
  <2> QED
    BY <2>1, <2>2, <1>3 DEF Garbage
<1>6. /\ Accepts(pc[c], l[1])
      /\ rest = Tail(l)
      /\ ~part
  BY <1>3, <1>5 DEF Hears, Accepts
<1>7. l[1].ask = pc[c]
  BY <1>1, <1>3, <1>4, <1>6 DEF LocalInv, LineInv, MayCome, Accepts
<1>8. Len(l) = 1
  <2>1. 1 \in 1..Len(l)
    BY <1>1, <1>3
  <2>2. \A i \in 1..Len(l) : l[i].ask = pc[c] => i = Len(l)
    BY DEF LocalInv, LineInv
  <2> QED
    BY <1>7, <2>1, <2>2
<1>9. rest = << >>
  BY <1>1, <1>6, <1>8
<1> QED
  BY <1>6, <1>7, <1>8, <1>9 DEF Accepts

(* A step of c preserves what holds of the other connects.                 *)
LEMMA OthersKeep ==
  ASSUME IInv, TypeOK', NEW c \in Connects,
         UNCHANGED dev,
         \A d \in Connects : d # c =>
           /\ pc'[d] = pc[d]
           /\ line'[d] = line[d]
           /\ torn'[d] = torn[d]
           /\ stage'[d] = stage[d]
           /\ rxKey'[d] = rxKey[d]
           /\ key'[d] = key[d]
           /\ share'[d] = share[d]
           /\ ident'[d] = ident[d]
           /\ snap'[d] = snap[d]
           /\ code'[d] = code[d],
         \A d \in Devices : accepted[d] \subseteq accepted'[d] /\ (mistyped[d] => mistyped'[d]),
         LocalInv(c)'
  PROVE  \A d \in Connects : LocalInv(d)'
<1> SUFFICES ASSUME NEW d \in Connects, d # c
             PROVE  LocalInv(d)'
  OBVIOUS
<1>1. LocalInv(d) /\ dev[d] \in Devices
  BY DEF IInv, TypeOK
<1>2. LineInv(d)'
  BY <1>1 DEF LocalInv, LineInv
<1>3. AnswerInv(d)'
  BY <1>1 DEF LocalInv, AnswerInv
<1>4. KeyInv(d)'
  BY <1>1 DEF LocalInv, KeyInv
<1>5. \A e \in Devices : snap'[d][e] # None => snap'[d][e] \in accepted'[e]
  BY <1>1 DEF LocalInv
<1>6. code'[d] = "wrong" => mistyped'[dev'[d]]
  BY <1>1 DEF LocalInv
<1> QED
  BY <1>2, <1>3, <1>4, <1>5, <1>6 DEF LocalInv

(* What c reads of its line tells it nothing new.                          *)
LEMMA RestFacts ==
  ASSUME TypeOK, NEW c \in Connects, LocalInv(c), NEW rest \in Suffixes(c)
  PROVE  \A i \in 1..Len(rest) :
           /\ rest[i] \in Messages
           /\ MayCome(pc[c], rest[i].ask)
           /\ rest[i].ask \notin {"Fp1", "Fp2"} => rest[i].key = "plain"
           /\ rest[i].ask = "M1" /\ rest[i].state = "good" => stage[c] = "asked"
           /\ rest[i].ask = "M3" /\ rest[i].state = "asked" => stage[c] = "asked"
           /\ rest[i].ask = "V3" /\ rest[i].state = "good" =>
                /\ rxKey[c] = "shared"
                /\ ident[c] \in accepted[dev[c]]
<1> SUFFICES ASSUME NEW i \in 1..Len(rest)
             PROVE  /\ rest[i] \in Messages
                    /\ MayCome(pc[c], rest[i].ask)
                    /\ rest[i].ask \notin {"Fp1", "Fp2"} => rest[i].key = "plain"
                    /\ rest[i].ask = "M1" /\ rest[i].state = "good" => stage[c] = "asked"
                    /\ rest[i].ask = "M3" /\ rest[i].state = "asked" => stage[c] = "asked"
                    /\ rest[i].ask = "V3" /\ rest[i].state = "good" =>
                         /\ rxKey[c] = "shared"
                         /\ ident[c] \in accepted[dev[c]]
  OBVIOUS
<1>1. PICK j \in 1..Len(line[c]) : rest[i] = line[c][j]
  BY SuffixFacts
<1>2. rest[i] \in Messages
  BY SuffixFacts
<1> QED
  BY <1>1, <1>2 DEF LocalInv, LineInv, AnswerInv

(* A request of c, and the answers to earlier ones that may come before.   *)
LEMMA AskKeeps ==
  ASSUME TypeOK, NEW c \in Connects, LocalInv(c),
         NEW rest \in Suffixes(c), NEW r \in Requests, NEW k \in Keys,
         AskAfter(c, rest, r, k),
         UNCHANGED <<stage, rxKey, accepted, dev>>,
         ident'[c] = ident[c] \/ rest = << >>,
         \A i \in 1..Len(rest) : MayCome(r, rest[i].ask) /\ rest[i].ask # r,
         r \in Pairing => rest = << >> /\ ~torn'[c],
         r \notin {"Fp1", "Fp2"} => k = "plain",
         r = "M3" => stage[c] = "asked"
  PROVE  LineInv(c)' /\ AnswerInv(c)'
<1> DEFINE m == [ask |-> r, state |-> "asked", key |-> k]
<1>1. rest \in Seq(Messages)
  BY SuffixFacts
<1>2. /\ pc'[c] = r
      /\ Len(line'[c]) = Len(rest) + 1
      /\ \A i \in 1..Len(rest) : line'[c][i] = rest[i]
      /\ line'[c][Len(rest) + 1] = m
  BY <1>1, AskFacts
<1>3. m.ask = r /\ m.state = "asked" /\ m.key = k
  OBVIOUS
<1> HIDE DEF m
<1>4. \A i \in 1..Len(line'[c]) :
        \/ i \in 1..Len(rest) /\ line'[c][i] = rest[i]
        \/ i = Len(line'[c]) /\ line'[c][i] = m
  BY <1>1, <1>2
<1>5. r \in Pairing \cup {"save", "write"} => ~torn'[c] /\ Len(line'[c]) <= 1
  BY <1>2 DEF Requests, Order
<1>6. LineInv(c)'
  <2>1. \A i \in 1..Len(line'[c]) :
          /\ MayCome(r, line'[c][i].ask)
          /\ line'[c][i].ask = r => i = Len(line'[c])
    BY <1>3, <1>4 DEF MayCome
  <2> QED
    BY <1>2, <1>5, <2>1 DEF LineInv, MayCome
<1>7. AnswerInv(c)'
  BY <1>3, <1>4, RestFacts DEF AnswerInv
<1> QED
  BY <1>6, <1>7

(* c stops to wait, with rest left on the socket.                          *)
LEMMA StopKeeps ==
  ASSUME TypeOK, NEW c \in Connects, LocalInv(c),
         NEW rest \in Suffixes(c), NEW p \in Places \ Requests,
         Become(c, p), line' = [line EXCEPT ![c] = rest],
         UNCHANGED <<stage, rxKey, accepted, dev, ident>>,
         \A i \in 1..Len(rest) : MayCome(p, rest[i].ask),
         p \in {"save", "write"} => rest = << >> /\ ~torn'[c]
  PROVE  /\ pc' \in [Connects -> Places]
         /\ line' \in [Connects -> Seq(Messages)]
         /\ pc'[c] = p
         /\ \A d \in Connects : d # c => pc'[d] = pc[d] /\ line'[d] = line[d]
         /\ LineInv(c)' /\ AnswerInv(c)'
<1>1. rest \in Seq(Messages)
  BY SuffixFacts
<1>2. /\ pc' \in [Connects -> Places]
      /\ line' \in [Connects -> Seq(Messages)]
      /\ pc'[c] = p
      /\ line'[c] = rest
      /\ \A d \in Connects : d # c => pc'[d] = pc[d] /\ line'[d] = line[d]
  BY <1>1 DEF Become, TypeOK
<1>3. p \notin Pairing
  BY DEF Pairing, Requests, Order
<1>4. \A i \in 1..Len(rest) : rest[i].ask # p
  BY RestFacts DEF Messages
<1>5. LineInv(c)'
  BY <1>2, <1>3, <1>4 DEF LineInv, MayCome
<1>6. AnswerInv(c)'
  BY <1>2, RestFacts DEF AnswerInv
<1> QED
  BY <1>2, <1>5, <1>6

(* A socket that is closed.                                                *)
LEMMA CloseKeeps ==
  ASSUME TypeOK, NEW c \in Connects, NEW p \in {"redial", "failed"}, Close(c, p)
  PROVE  /\ pc' \in [Connects -> Places]
         /\ line' \in [Connects -> Seq(Messages)]
         /\ torn' \in [Connects -> BOOLEAN]
         /\ key' \in [Connects -> {"plain", "shared"}]
         /\ share' \in [Connects -> Keys]
         /\ stage' \in [Connects -> {"new", "asked", "proved", "paired", "verify"}]
         /\ rxKey' \in [Connects -> Keys]
         /\ \A d \in Connects : d # c =>
              /\ pc'[d] = pc[d]
              /\ line'[d] = line[d]
              /\ torn'[d] = torn[d]
              /\ stage'[d] = stage[d]
              /\ rxKey'[d] = rxKey[d]
              /\ key'[d] = key[d]
              /\ share'[d] = share[d]
         /\ LineInv(c)' /\ AnswerInv(c)' /\ KeyInv(c)'
<1>1. pc' = [pc EXCEPT ![c] = p] /\ line' = [line EXCEPT ![c] = << >>]
  BY DEF Close, Become
<1>2. pc' \in [Connects -> Places] /\ line' \in [Connects -> Seq(Messages)]
  BY <1>1 DEF TypeOK, Places
<1>3. /\ torn' \in [Connects -> BOOLEAN]
      /\ key' \in [Connects -> {"plain", "shared"}]
      /\ share' \in [Connects -> Keys]
      /\ stage' \in [Connects -> {"new", "asked", "proved", "paired", "verify"}]
      /\ rxKey' \in [Connects -> Keys]
  BY DEF Close, TypeOK, Keys
<1>4. /\ pc'[c] = p
      /\ line'[c] = << >>
      /\ key'[c] = "plain"
  BY <1>1 DEF Close, TypeOK
<1>5. \A d \in Connects : d # c =>
        /\ pc'[d] = pc[d]
        /\ line'[d] = line[d]
        /\ torn'[d] = torn[d]
        /\ stage'[d] = stage[d]
        /\ rxKey'[d] = rxKey[d]
        /\ key'[d] = key[d]
        /\ share'[d] = share[d]
  BY <1>1 DEF Close, TypeOK
<1>6. LineInv(c)' /\ AnswerInv(c)'
  BY <1>4 DEF LineInv, AnswerInv, Pairing
<1>7. KeyInv(c)'
  BY <1>4 DEF KeyInv
<1> QED
  BY <1>2, <1>3, <1>5, <1>6, <1>7

(* An answer of the receiver.                                              *)
LEMMA AnswerKeeps ==
  ASSUME TypeOK, NEW c \in Connects, LocalInv(c),
         NEW r \in Requests, NEW s \in {"good", "bad"}, Answer(c, r, s),
         UNCHANGED <<pc, dev, torn, ident>>,
         r = "M1" /\ s = "good" => stage'[c] = "asked",
         stage'[c] \in {"asked", stage[c]} \/ r \in {"M3", "M5", "V1"},
         rxKey'[c] \in {"shared", rxKey[c]},
         accepted[dev[c]] \subseteq accepted'[dev[c]],
         r = "V3" /\ s = "good" => rxKey'[c] = "shared" /\ ident[c] \in accepted'[dev[c]]
  PROVE  LineInv(c)' /\ AnswerInv(c)'
<1>1. PICK i \in 1..Len(line[c]) :
        /\ line[c][i].ask = r
        /\ line[c][i].state = "asked"
        /\ Len(line'[c]) = Len(line[c])
        /\ \A j \in 1..Len(line[c]) : j # i => line'[c][j] = line[c][j]
        /\ line'[c][i].ask = r
        /\ line'[c][i].state = s
        /\ line'[c][i].key = line[c][i].key
  BY AnswerFacts
<1>2. \A j \in 1..Len(line[c]) : line'[c][j].ask = line[c][j].ask
  BY <1>1
<1>3. LineInv(c)'
  BY <1>1, <1>2 DEF LocalInv, LineInv
<1>4. r \in {"M3", "M5", "V1"} => pc[c] = r
  BY <1>1 DEF LocalInv, LineInv, MayCome
<1>5. r \in {"M3", "M5"} => \A j \in 1..Len(line[c]) : j = i
  BY <1>1, <1>4 DEF LocalInv, LineInv, Pairing, TypeOK
<1>6. r = "V1" => \A j \in 1..Len(line[c]) : line[c][j].ask \in {"V1", "Info"}
  BY <1>4 DEF LocalInv, LineInv, MayCome
<1>7. AnswerInv(c)'
  <2> SUFFICES ASSUME NEW j \in 1..Len(line[c])
               PROVE  /\ line'[c][j].ask \notin {"Fp1", "Fp2"} => line'[c][j].key = "plain"
                      /\ line'[c][j].ask = "M1" /\ line'[c][j].state = "good" => stage'[c] = "asked"
                      /\ line'[c][j].ask = "M3" /\ line'[c][j].state = "asked" => stage'[c] = "asked"
                      /\ line'[c][j].ask = "V3" /\ line'[c][j].state = "good" =>
                           /\ rxKey'[c] = "shared"
                           /\ ident'[c] \in accepted'[dev'[c]]
    BY <1>1 DEF AnswerInv
  <2>1. CASE j = i
    BY <2>1, <1>1, <1>2 DEF LocalInv, AnswerInv
  <2>2. CASE j # i
    BY <2>2, <1>1, <1>5, <1>6 DEF LocalInv, AnswerInv
  <2> QED
    BY <2>1, <2>2
<1> QED
  BY <1>3, <1>7

(* A wrong code is remembered.                                             *)
LEMMA GiveCodeFacts ==
  ASSUME TypeOK, NEW c \in Connects, GiveCode(c)
  PROVE  /\ code' \in [Connects -> {"right", "wrong"}]
         /\ mistyped' \in [Devices -> BOOLEAN]
         /\ \A d \in Connects : d # c => code'[d] = code[d]
         /\ \A d \in Devices : mistyped[d] => mistyped'[d]
         /\ code'[c] = "wrong" => mistyped'[dev[c]]
<1>1. PICK w \in {"right", "wrong"} :
        /\ code' = [code EXCEPT ![c] = w]
        /\ mistyped' = [mistyped EXCEPT ![dev[c]] = mistyped[dev[c]] \/ w = "wrong"]
  BY DEF GiveCode
<1> DEFINE b == mistyped[dev[c]] \/ w = "wrong"
<1>2. /\ b \in BOOLEAN
      /\ w = "wrong" => b
      /\ mistyped[dev[c]] => b
  OBVIOUS
<1>3. mistyped' = [mistyped EXCEPT ![dev[c]] = b]
  BY <1>1
<1> HIDE DEF b
<1>4. dev[c] \in Devices
  BY DEF TypeOK
<1>5. /\ mistyped' \in [Devices -> BOOLEAN]
      /\ mistyped'[dev[c]] = b
      /\ \A d \in Devices : d # dev[c] => mistyped'[d] = mistyped[d]
  BY <1>2, <1>3, <1>4 DEF TypeOK
<1> QED
  BY <1>1, <1>2, <1>5 DEF TypeOK

-----------------------------------------------------------------------------
(***************************************************************************)
(* Every action keeps the invariant.                                       *)
(***************************************************************************)

LEMMA OpenKeeps ==
  ASSUME IInv, NEW c \in Connects, Open(c)
  PROVE  IInv'
<1>1. TypeOK /\ SharedInv /\ LocalInv(c)
  BY DEF IInv
<1>2. /\ Load \in Stores
      /\ \A d \in Devices : Load[d] # None => Load[d] \in accepted[d]
  BY <1>1 DEF TypeOK, Load, Stores, Empty, SharedInv, StoredIsAccepted
<1>3. AskAfter(c, << >>, "Info", "plain") /\ << >> \in Suffixes(c)
  BY DEF Open, Suffixes
<1>4. << >> \in Seq(Messages) /\ "Info" \in Requests /\ "plain" \in Keys
  BY DEF Requests, Order, Keys
<1>5. /\ pc' \in [Connects -> Places]
      /\ line' \in [Connects -> Seq(Messages)]
      /\ pc'[c] = "Info"
      /\ \A d \in Connects : d # c => pc'[d] = pc[d] /\ line'[d] = line[d]
  BY <1>1, <1>3, <1>4, AskFacts
<1>6. /\ snap' = [snap EXCEPT ![c] = Load]
      /\ \E i \in Idents : ident' = [ident EXCEPT ![c] = i]
  <2> DEFINE saved == IF mode[c] = "force" THEN None ELSE Load[dev[c]]
  <2>1. saved \in Idents \cup {None}
    BY <1>1, <1>2 DEF TypeOK, Stores
  <2>2. /\ snap' = [snap EXCEPT ![c] = Load]
        /\ ident' = [ident EXCEPT ![c] = IF saved = None THEN c ELSE saved]
    BY DEF Open
  <2> QED
    BY <2>1, <2>2 DEF Idents
<1>7. TypeOK'
  BY <1>1, <1>2, <1>5, <1>6 DEF TypeOK, Open, store, receiver, devices
<1>8. LocalInv(c)'
  <2>1. LineInv(c)' /\ AnswerInv(c)'
    BY <1>1, <1>3, <1>4, AskKeeps DEF Open, receiver, devices, Pairing
  <2>2. KeyInv(c)'
    BY <1>1, <1>5 DEF LocalInv, KeyInv, Open
  <2>3. \A d \in Devices : snap'[c][d] # None => snap'[c][d] \in accepted'[d]
    BY <1>1, <1>2, <1>6 DEF Open, devices, TypeOK
  <2>4. code'[c] = "wrong" => mistyped'[dev'[c]]
    BY <1>1 DEF LocalInv, Open
  <2> QED
    BY <2>1, <2>2, <2>3, <2>4 DEF LocalInv
<1>9. SharedInv'
  BY <1>1 DEF SharedInv, StoredIsAccepted, BackoffOnlyByTypo, Open, store, devices
<1>10. \A d \in Connects : LocalInv(d)'
  <2>1. \A d \in Connects : d # c => snap'[d] = snap[d] /\ ident'[d] = ident[d]
    BY <1>1, <1>6 DEF TypeOK
  <2> QED
    BY <1>5, <1>7, <1>8, <2>1, OthersKeep DEF Open, receiver, devices
<1> QED
  BY <1>7, <1>9, <1>10 DEF IInv

LEMMA HearInfoKeeps ==
  ASSUME IInv, NEW c \in Connects, HearInfo(c)
  PROVE  IInv'
<1>1. TypeOK /\ SharedInv /\ LocalInv(c)
  BY DEF IInv
<1>2. PICK rest \in Suffixes(c), part \in BOOLEAN, ok \in BOOLEAN,
           r \in {"M1", "V1", "PinStart"} :
        /\ torn' = [torn EXCEPT ![c] = part]
        /\ sap' = [sap EXCEPT ![c] = ok /\ dev[c] \in FairPlay]
        /\ AskAfter(c, rest, r, "plain")
        /\ GiveCode(c) \/ UNCHANGED <<code, mistyped>>
  BY DEF HearInfo
<1>3. rest \in Seq(Messages) /\ r \in Requests /\ "plain" \in Keys
  BY <1>1, SuffixFacts DEF Requests, Order, Keys
<1>4. /\ pc' \in [Connects -> Places]
      /\ line' \in [Connects -> Seq(Messages)]
      /\ pc'[c] = r
      /\ \A d \in Connects : d # c => pc'[d] = pc[d] /\ line'[d] = line[d]
  BY <1>1, <1>2, <1>3, AskFacts
<1>5. /\ code' \in [Connects -> {"right", "wrong"}]
      /\ mistyped' \in [Devices -> BOOLEAN]
      /\ \A d \in Connects : d # c => code'[d] = code[d]
      /\ \A d \in Devices : mistyped[d] => mistyped'[d]
      /\ code'[c] = "wrong" => mistyped'[dev[c]]
  BY <1>1, <1>2, GiveCodeFacts DEF TypeOK, LocalInv
<1>6. TypeOK'
  BY <1>1, <1>2, <1>4, <1>5 DEF TypeOK, HearInfo, store, receiver, devices
<1>7. LocalInv(c)'
  <2>1. pc[c] = "Info"
    BY DEF HearInfo
  <2>2. \A i \in 1..Len(rest) : rest[i].ask = "Info"
    BY <1>1, <2>1, RestFacts DEF MayCome
  <2>3. LineInv(c)' /\ AnswerInv(c)'
    BY <1>1, <1>2, <1>3, <2>2, AskKeeps DEF HearInfo, receiver, devices, Pairing, MayCome
  <2>4. KeyInv(c)'
    BY <1>1, <1>4, <2>1 DEF LocalInv, KeyInv, HearInfo
  <2> QED
    BY <1>1, <1>5, <2>3, <2>4 DEF LocalInv, HearInfo, devices
<1>8. SharedInv'
  BY <1>1, <1>5 DEF SharedInv, StoredIsAccepted, BackoffOnlyByTypo, HearInfo, store, devices
<1>9. \A d \in Connects : LocalInv(d)'
  <2>1. \A d \in Connects : d # c => torn'[d] = torn[d]
    BY <1>1, <1>2 DEF TypeOK
  <2> QED
    BY <1>4, <1>5, <1>6, <1>7, <2>1, OthersKeep DEF HearInfo, receiver, devices
<1> QED
  BY <1>6, <1>8, <1>9 DEF IInv

LEMMA HearPinStartKeeps ==
  ASSUME IInv, NEW c \in Connects, HearPinStart(c)
  PROVE  IInv'
<1>1. TypeOK /\ SharedInv /\ LocalInv(c) /\ pc[c] = "PinStart"
  BY DEF IInv, HearPinStart
<1>2. PICK rest \in Suffixes(c), part \in BOOLEAN :
        /\ Become(c, "pin")
        /\ line' = [line EXCEPT ![c] = rest]
        /\ torn' = [torn EXCEPT ![c] = part]
  BY DEF HearPinStart
<1>3. \A i \in 1..Len(rest) : MayCome("pin", rest[i].ask)
  BY <1>1, RestFacts DEF MayCome
<1>4. "pin" \in Places \ Requests
  BY DEF Places, Requests, Order
<1>5. /\ pc' \in [Connects -> Places]
      /\ line' \in [Connects -> Seq(Messages)]
      /\ pc'[c] = "pin"
      /\ \A d \in Connects : d # c => pc'[d] = pc[d] /\ line'[d] = line[d]
      /\ LineInv(c)' /\ AnswerInv(c)'
  BY <1>1, <1>2, <1>3, <1>4, StopKeeps DEF HearPinStart, receiver, devices, choice
<1>6. TypeOK'
  BY <1>1, <1>2, <1>5 DEF TypeOK, HearPinStart, store, choice, receiver, devices
<1>7. LocalInv(c)'
  BY <1>1, <1>5 DEF LocalInv, KeyInv, HearPinStart, choice, devices
<1>8. SharedInv'
  BY <1>1 DEF SharedInv, StoredIsAccepted, BackoffOnlyByTypo, HearPinStart, store, devices
<1>9. \A d \in Connects : LocalInv(d)'
  <2>1. \A d \in Connects : d # c => torn'[d] = torn[d]
    BY <1>1, <1>2 DEF TypeOK
  <2> QED
    BY <1>5, <1>6, <1>7, <2>1, OthersKeep DEF HearPinStart, receiver, devices, choice
<1> QED
  BY <1>6, <1>8, <1>9 DEF IInv

LEMMA TypeKeeps ==
  ASSUME IInv, NEW c \in Connects, Type(c)
  PROVE  IInv'
<1>1. TypeOK /\ SharedInv /\ LocalInv(c) /\ pc[c] = "pin"
  BY DEF IInv, Type
<1>2. AskAfter(c, line[c], "M1", "plain") /\ line[c] \in Suffixes(c)
  BY DEF Type, Suffixes
<1>3. line[c] \in Seq(Messages) /\ "M1" \in Requests /\ "plain" \in Keys
  BY <1>1 DEF TypeOK, Requests, Order, Keys
<1>4. /\ pc' \in [Connects -> Places]
      /\ line' \in [Connects -> Seq(Messages)]
      /\ pc'[c] = "M1"
      /\ \A d \in Connects : d # c => pc'[d] = pc[d] /\ line'[d] = line[d]
  BY <1>1, <1>2, <1>3, AskFacts
<1>5. /\ code' \in [Connects -> {"right", "wrong"}]
      /\ mistyped' \in [Devices -> BOOLEAN]
      /\ \A d \in Connects : d # c => code'[d] = code[d]
      /\ \A d \in Devices : mistyped[d] => mistyped'[d]
      /\ code'[c] = "wrong" => mistyped'[dev[c]]
  BY <1>1, GiveCodeFacts DEF Type
<1>6. TypeOK'
  BY <1>1, <1>4, <1>5 DEF TypeOK, Type, store, receiver, devices
<1>7. LocalInv(c)'
  <2>1. \A i \in 1..Len(line[c]) : line[c][i].ask \in {"Info", "PinStart"}
    <3>1. \A i \in 1..Len(line[c]) : line[c][i] \in Messages
      BY <1>3
    <3> QED
      BY <1>1, <3>1 DEF LocalInv, LineInv, MayCome, Messages, Requests, Order
  <2>2. LineInv(c)' /\ AnswerInv(c)'
    BY <1>1, <1>2, <1>3, <2>1, AskKeeps DEF Type, receiver, devices, Pairing, MayCome
  <2>3. KeyInv(c)'
    BY <1>1, <1>4 DEF LocalInv, KeyInv, Type
  <2> QED
    BY <1>1, <1>5, <2>2, <2>3 DEF LocalInv, Type, devices
<1>8. SharedInv'
  BY <1>1, <1>5 DEF SharedInv, StoredIsAccepted, BackoffOnlyByTypo, Type, store, devices
<1>9. \A d \in Connects : LocalInv(d)'
  BY <1>4, <1>5, <1>6, <1>7, OthersKeep DEF Type, receiver, devices
<1> QED
  BY <1>6, <1>8, <1>9 DEF IInv

(* NoCode, Die, FairPlayFails and most of PairingFails.                    *)
LEMMA FailKeeps ==
  ASSUME IInv, NEW c \in Connects, Fail(c),
         UNCHANGED <<store, dev, mode, devices, mistyped>>
  PROVE  IInv'
<1>1. TypeOK /\ SharedInv /\ LocalInv(c)
  BY DEF IInv
<1>2. Close(c, "failed")
  BY DEF Fail
<1>3. /\ again' \in [Connects -> BOOLEAN]
      /\ snap' \in [Connects -> Stores]
      /\ ident' \in [Connects -> Idents]
      /\ code' \in [Connects -> {"right", "wrong"}]
      /\ sap' \in [Connects -> BOOLEAN]
      /\ snap'[c] = Empty
      /\ code'[c] = "right"
      /\ \A d \in Connects : d # c =>
           /\ ident'[d] = ident[d]
           /\ snap'[d] = snap[d]
           /\ code'[d] = code[d]
  BY <1>1 DEF Fail, TypeOK, Idents, Empty, Stores
<1>4. TypeOK'
  BY <1>1, <1>2, <1>3, CloseKeeps DEF TypeOK, store, devices
<1>5. LocalInv(c)'
  <2>1. LineInv(c)' /\ AnswerInv(c)' /\ KeyInv(c)'
    BY <1>1, <1>2, CloseKeeps
  <2> QED
    BY <1>3, <2>1 DEF LocalInv, Empty
<1>6. SharedInv'
  BY <1>1 DEF SharedInv, StoredIsAccepted, BackoffOnlyByTypo, store, devices
<1>7. \A d \in Connects : LocalInv(d)'
  <2>1. \A d \in Connects : d # c =>
          /\ pc'[d] = pc[d]
          /\ line'[d] = line[d]
          /\ torn'[d] = torn[d]
          /\ stage'[d] = stage[d]
          /\ rxKey'[d] = rxKey[d]
          /\ key'[d] = key[d]
          /\ share'[d] = share[d]
    BY <1>1, <1>2, CloseKeeps
  <2> QED
    BY <1>3, <1>4, <1>5, <2>1, OthersKeep DEF devices
<1> QED
  BY <1>4, <1>6, <1>7 DEF IInv

LEMMA PairingFailsKeeps ==
  ASSUME IInv, NEW c \in Connects, PairingFails(c)
  PROVE  IInv'
<1>1. TypeOK /\ SharedInv /\ LocalInv(c)
  BY DEF IInv
<1>2. CASE Fail(c)
  BY <1>2, FailKeeps DEF PairingFails
<1>3. CASE Close(c, "redial") /\ UNCHANGED <<again, snap, ident, code, sap>>
  <2>1. TypeOK'
    BY <1>1, <1>3, CloseKeeps DEF TypeOK, PairingFails, store, devices
  <2>2. LineInv(c)' /\ AnswerInv(c)' /\ KeyInv(c)'
    BY <1>1, <1>3, CloseKeeps
  <2>3. LocalInv(c)'
    BY <1>1, <1>3, <2>2 DEF LocalInv, PairingFails, devices
  <2>4. SharedInv'
    BY <1>1 DEF SharedInv, StoredIsAccepted, BackoffOnlyByTypo, PairingFails, store, devices
  <2>5. \A d \in Connects : d # c =>
          /\ pc'[d] = pc[d]
          /\ line'[d] = line[d]
          /\ torn'[d] = torn[d]
          /\ stage'[d] = stage[d]
          /\ rxKey'[d] = rxKey[d]
          /\ key'[d] = key[d]
          /\ share'[d] = share[d]
    BY <1>1, <1>3, CloseKeeps
  <2>6. \A d \in Connects : LocalInv(d)'
    BY <1>3, <2>1, <2>3, <2>5, OthersKeep DEF PairingFails, devices
  <2> QED
    BY <2>1, <2>4, <2>6 DEF IInv
<1> QED
  BY <1>2, <1>3 DEF PairingFails

(* The step that takes an answer of pair-setup, pair-verify or fp-setup    *)
(* and sends the next request.                                             *)
LEMMA ProceedFacts ==
  ASSUME TypeOK, NEW c \in Connects, LocalInv(c),
         pc[c] \in {"M1", "M3", "M5", "V1", "V3", "Fp1"},
         NEW r \in Requests, NEW k \in Keys, Proceed(c, r, k),
         UNCHANGED <<stage, rxKey, accepted, dev, ident>>,
         r \notin {"Fp1", "Fp2"} => k = "plain",
         r = "M3" => pc[c] = "M1"
  PROVE  /\ pc' \in [Connects -> Places]
         /\ line' \in [Connects -> Seq(Messages)]
         /\ torn' \in [Connects -> BOOLEAN]
         /\ pc'[c] = r
         /\ \A d \in Connects : d # c => pc'[d] = pc[d] /\ line'[d] = line[d] /\ torn'[d] = torn[d]
         /\ 1 \in 1..Len(line[c])
         /\ Head(line[c]) = line[c][1]
         /\ line[c][1].ask = pc[c] /\ line[c][1].state = "good"
         /\ LineInv(c)' /\ AnswerInv(c)'
<1>1. PICK rest \in Suffixes(c), part \in BOOLEAN :
        /\ Hears(c, TRUE, rest, part)
        /\ torn' = [torn EXCEPT ![c] = part]
        /\ AskAfter(c, rest, r, k)
  BY DEF Proceed
<1>2. /\ rest = << >>
      /\ part = FALSE
      /\ Len(line[c]) = 1
      /\ line[c][1].ask = pc[c]
      /\ line[c][1].state = "good"
  BY <1>1, OwnAnswer
<1>3. rest \in Seq(Messages)
  BY <1>2
<1>4. /\ pc' \in [Connects -> Places]
      /\ line' \in [Connects -> Seq(Messages)]
      /\ pc'[c] = r
      /\ \A d \in Connects : d # c => pc'[d] = pc[d] /\ line'[d] = line[d]
  BY <1>1, <1>3, AskFacts
<1>5. /\ torn' \in [Connects -> BOOLEAN]
      /\ torn'[c] = FALSE
      /\ \A d \in Connects : d # c => torn'[d] = torn[d]
  BY <1>1, <1>2 DEF TypeOK
<1>6. 1 \in 1..Len(line[c]) /\ Head(line[c]) = line[c][1]
  BY <1>2 DEF TypeOK
<1>7. pc[c] = "M1" => stage[c] = "asked"
  BY <1>2, <1>6 DEF LocalInv, AnswerInv
<1>8. \A i \in 1..Len(rest) : MayCome(r, rest[i].ask) /\ rest[i].ask # r
  BY <1>2
<1>9. LineInv(c)' /\ AnswerInv(c)'
  BY <1>1, <1>2, <1>5, <1>7, <1>8, AskKeeps
<1> QED
  BY <1>2, <1>4, <1>5, <1>6, <1>9

LEMMA PairSetupKeeps ==
  ASSUME IInv, NEW c \in Connects, PairSetup(c)
  PROVE  IInv'
<1>1. TypeOK /\ SharedInv /\ LocalInv(c)
  BY DEF IInv
<1>2. PICK r \in {"M3", "M5", "V1"} :
        /\ Proceed(c, r, "plain")
        /\ pc[c] \in {"M1", "M3", "M5"}
        /\ r = "M3" => pc[c] = "M1"
  BY DEF PairSetup
<1>3. r \in Requests /\ "plain" \in Keys
  BY DEF Requests, Order, Keys
<1>4. /\ pc' \in [Connects -> Places]
      /\ line' \in [Connects -> Seq(Messages)]
      /\ torn' \in [Connects -> BOOLEAN]
      /\ pc'[c] = r
      /\ \A d \in Connects : d # c => pc'[d] = pc[d] /\ line'[d] = line[d] /\ torn'[d] = torn[d]
      /\ LineInv(c)' /\ AnswerInv(c)'
  BY <1>1, <1>2, <1>3, ProceedFacts DEF PairSetup, receiver, devices, choice
<1>5. TypeOK'
  BY <1>1, <1>4 DEF TypeOK, PairSetup, store, choice, receiver, devices
<1>6. LocalInv(c)'
  BY <1>1, <1>2, <1>4 DEF LocalInv, KeyInv, PairSetup, choice, devices
<1>7. SharedInv'
  BY <1>1 DEF SharedInv, StoredIsAccepted, BackoffOnlyByTypo, PairSetup, store, devices
<1>8. \A d \in Connects : LocalInv(d)'
  BY <1>4, <1>5, <1>6, OthersKeep DEF PairSetup, choice, receiver, devices
<1> QED
  BY <1>5, <1>7, <1>8 DEF IInv

LEMMA PairVerifyKeeps ==
  ASSUME IInv, NEW c \in Connects, PairVerify(c)
  PROVE  IInv'
<1>1. TypeOK /\ SharedInv /\ LocalInv(c) /\ pc[c] = "V1"
  BY DEF IInv, PairVerify
<1>2. Proceed(c, "V3", "plain") /\ "V3" \in Requests /\ "plain" \in Keys
  BY DEF PairVerify, Requests, Order, Keys
<1>3. /\ pc' \in [Connects -> Places]
      /\ line' \in [Connects -> Seq(Messages)]
      /\ torn' \in [Connects -> BOOLEAN]
      /\ pc'[c] = "V3"
      /\ \A d \in Connects : d # c => pc'[d] = pc[d] /\ line'[d] = line[d] /\ torn'[d] = torn[d]
      /\ Head(line[c]).ask = "V1"
      /\ LineInv(c)' /\ AnswerInv(c)'
  BY <1>1, <1>2, ProceedFacts DEF PairVerify, receiver, devices, choice
<1>4. share' = [share EXCEPT ![c] = "shared"]
  BY <1>3 DEF PairVerify
<1>5. TypeOK'
  BY <1>1, <1>3, <1>4 DEF TypeOK, PairVerify, store, choice, receiver, devices, Keys
<1>6. LocalInv(c)'
  BY <1>1, <1>3, <1>4 DEF LocalInv, KeyInv, PairVerify, choice, devices, TypeOK
<1>7. SharedInv'
  BY <1>1 DEF SharedInv, StoredIsAccepted, BackoffOnlyByTypo, PairVerify, store, devices
<1>8. \A d \in Connects : LocalInv(d)'
  <2>1. \A d \in Connects : d # c => share'[d] = share[d]
    BY <1>1, <1>4 DEF TypeOK
  <2> QED
    BY <1>3, <1>5, <1>6, <2>1, OthersKeep DEF PairVerify, choice, receiver, devices
<1> QED
  BY <1>5, <1>7, <1>8 DEF IInv

LEMMA EncryptKeeps ==
  ASSUME IInv, NEW c \in Connects, Encrypt(c)
  PROVE  IInv'
<1>1. TypeOK /\ SharedInv /\ LocalInv(c) /\ pc[c] = "V3" /\ share[c] = "shared"
  BY DEF IInv, Encrypt, LocalInv, KeyInv
<1>2. /\ pc' \in [Connects -> Places]
      /\ line' \in [Connects -> Seq(Messages)]
      /\ torn' \in [Connects -> BOOLEAN]
      /\ pc'[c] \in {"save", "Fp1"}
      /\ \A d \in Connects : d # c => pc'[d] = pc[d] /\ line'[d] = line[d] /\ torn'[d] = torn[d]
      /\ 1 \in 1..Len(line[c])
      /\ line[c][1].ask = "V3" /\ line[c][1].state = "good"
      /\ LineInv(c)' /\ AnswerInv(c)'
  <2>1. CASE Fast(c)
    <3>1. Proceed(c, "Fp1", "shared") /\ "Fp1" \in Requests /\ "shared" \in Keys
      BY <1>1, <2>1 DEF Encrypt, Requests, Order, Keys
    <3> QED
      BY <1>1, <3>1, ProceedFacts DEF Encrypt, receiver, devices, choice
  <2>2. CASE ~Fast(c)
    <3>1. PICK rest \in Suffixes(c), part \in BOOLEAN :
            /\ Hears(c, TRUE, rest, part)
            /\ Become(c, "save")
            /\ line' = [line EXCEPT ![c] = rest]
            /\ torn' = [torn EXCEPT ![c] = part]
      BY <2>2 DEF Encrypt
    <3>2. /\ rest = << >>
          /\ part = FALSE
          /\ Len(line[c]) = 1
          /\ line[c][1].ask = "V3"
          /\ line[c][1].state = "good"
      BY <1>1, <3>1, OwnAnswer
    <3>3. /\ torn' \in [Connects -> BOOLEAN]
          /\ ~torn'[c]
          /\ \A d \in Connects : d # c => torn'[d] = torn[d]
      BY <1>1, <3>1, <3>2 DEF TypeOK
    <3>4. "save" \in Places \ Requests
      BY DEF Places, Requests, Order
    <3>5. \A i \in 1..Len(rest) : MayCome("save", rest[i].ask)
      BY <3>2
    <3>6. /\ pc' \in [Connects -> Places]
          /\ line' \in [Connects -> Seq(Messages)]
          /\ pc'[c] = "save"
          /\ \A d \in Connects : d # c => pc'[d] = pc[d] /\ line'[d] = line[d]
          /\ LineInv(c)' /\ AnswerInv(c)'
      BY <1>1, <3>1, <3>2, <3>3, <3>4, <3>5, StopKeeps DEF Encrypt, receiver, devices, choice
    <3> QED
      BY <3>2, <3>3, <3>6
  <2> QED
    BY <2>1, <2>2
<1>3. rxKey[c] = "shared" /\ ident[c] \in accepted[dev[c]]
  BY <1>1, <1>2 DEF LocalInv, AnswerInv
<1>4. key' = [key EXCEPT ![c] = "shared"]
  BY <1>1 DEF Encrypt
<1>5. TypeOK'
  BY <1>1, <1>2, <1>4 DEF TypeOK, Encrypt, store, choice, receiver, devices
<1>6. LocalInv(c)'
  BY <1>1, <1>2, <1>3, <1>4 DEF LocalInv, KeyInv, Encrypt, choice, devices, receiver, TypeOK
<1>7. SharedInv'
  BY <1>1 DEF SharedInv, StoredIsAccepted, BackoffOnlyByTypo, Encrypt, store, devices
<1>8. \A d \in Connects : LocalInv(d)'
  <2>1. \A d \in Connects : d # c => key'[d] = key[d]
    BY <1>1, <1>4 DEF TypeOK
  <2> QED
    BY <1>2, <1>5, <1>6, <2>1, OthersKeep DEF Encrypt, choice, receiver, devices
<1> QED
  BY <1>5, <1>7, <1>8 DEF IInv

LEMMA RedialKeeps ==
  ASSUME IInv, NEW c \in Connects, Redial(c)
  PROVE  IInv'
<1>1. TypeOK /\ SharedInv /\ LocalInv(c) /\ pc[c] = "redial"
  BY DEF IInv, Redial
<1>2. AskAfter(c, << >>, "Info", "plain") /\ << >> \in Suffixes(c)
  BY DEF Redial, Suffixes
<1>3. << >> \in Seq(Messages) /\ "Info" \in Requests /\ "plain" \in Keys
  BY DEF Requests, Order, Keys
<1>4. /\ pc' \in [Connects -> Places]
      /\ line' \in [Connects -> Seq(Messages)]
      /\ pc'[c] = "Info"
      /\ \A d \in Connects : d # c => pc'[d] = pc[d] /\ line'[d] = line[d]
  BY <1>1, <1>2, <1>3, AskFacts
<1>5. TypeOK'
  BY <1>1, <1>4 DEF TypeOK, Redial, store, choice, receiver, devices
<1>6. LocalInv(c)'
  <2>1. LineInv(c)' /\ AnswerInv(c)'
    BY <1>1, <1>2, <1>3, AskKeeps DEF Redial, choice, receiver, devices, Pairing
  <2> QED
    BY <1>1, <1>4, <2>1 DEF LocalInv, KeyInv, Redial, choice, devices
<1>7. SharedInv'
  BY <1>1 DEF SharedInv, StoredIsAccepted, BackoffOnlyByTypo, Redial, store, devices
<1>8. \A d \in Connects : LocalInv(d)'
  BY <1>4, <1>5, <1>6, OthersKeep DEF Redial, choice, receiver, devices
<1> QED
  BY <1>5, <1>7, <1>8 DEF IInv

LEMMA TruncateKeeps ==
  ASSUME IInv, NEW c \in Connects, Truncate(c)
  PROVE  IInv'
<1>1. TypeOK /\ SharedInv /\ LocalInv(c) /\ pc[c] = "save"
  BY DEF IInv, Truncate
<1> DEFINE s == [snap[c] EXCEPT ![dev[c]] = ident[c]]
<1>2. /\ s \in Stores
      /\ \A d \in Devices : s[d] # None => s[d] \in accepted[d]
  BY <1>1 DEF TypeOK, Stores, LocalInv, KeyInv
<1>3. snap' = [snap EXCEPT ![c] = s]
  BY DEF Truncate
<1> HIDE DEF s
<1>4. /\ snap' \in [Connects -> Stores]
      /\ snap'[c] = s
      /\ \A d \in Connects : d # c => snap'[d] = snap[d]
  BY <1>1, <1>2, <1>3 DEF TypeOK
<1>5. /\ pc' \in [Connects -> Places]
      /\ pc'[c] = "write"
      /\ \A d \in Connects : d # c => pc'[d] = pc[d]
  BY <1>1 DEF Truncate, Become, TypeOK, Places
<1>6. TypeOK'
  BY <1>1, <1>4, <1>5 DEF TypeOK, Truncate, choice, channel, receiver, devices, Empty, Stores
<1>7. LocalInv(c)'
  <2>1. \A i \in 1..Len(line[c]) : FALSE
    <3>1. \A i \in 1..Len(line[c]) : line[c][i] \in Messages
      BY <1>1 DEF TypeOK
    <3> QED
      BY <1>1, <3>1 DEF LocalInv, LineInv, MayCome, Messages, Requests, Order
  <2>2. LineInv(c)' /\ AnswerInv(c)'
    BY <1>1, <1>5, <2>1 DEF LocalInv, LineInv, AnswerInv, Truncate, channel
  <2>3. KeyInv(c)'
    BY <1>1, <1>5 DEF LocalInv, KeyInv, Truncate, channel, receiver, choice, devices
  <2> QED
    BY <1>1, <1>2, <1>4, <2>2, <2>3 DEF LocalInv, Truncate, choice, devices
<1>8. SharedInv'
  BY <1>1 DEF SharedInv, StoredIsAccepted, BackoffOnlyByTypo, Truncate, devices, Empty
<1>9. \A d \in Connects : LocalInv(d)'
  BY <1>4, <1>5, <1>6, <1>7, OthersKeep DEF Truncate, choice, channel, receiver, devices
<1> QED
  BY <1>6, <1>8, <1>9 DEF IInv

(* Write and SaveFails: FairPlay setup begins.                             *)
LEMMA BeginFairPlay ==
  ASSUME IInv, NEW c \in Connects, pc[c] \in {"save", "write"},
         AskAfter(c, line[c], "Fp1", key[c]),
         UNCHANGED <<choice, again, snap, sap, key, share, torn, receiver, devices, mistyped>>,
         file' \in Stores, disk' \in {"whole", "truncated", "garbled"},
         \A d \in Devices : file'[d] # None => file'[d] \in accepted[d]
  PROVE  IInv'
<1>1. TypeOK /\ SharedInv /\ LocalInv(c)
  BY DEF IInv
<1>2. line[c] \in Seq(Messages) /\ "Fp1" \in Requests /\ key[c] \in Keys
  BY <1>1 DEF TypeOK, Requests, Order, Keys
<1>3. \A i \in 1..Len(line[c]) : FALSE
  <2>1. \A i \in 1..Len(line[c]) : line[c][i] \in Messages
    BY <1>2
  <2> QED
    BY <1>1, <2>1 DEF LocalInv, LineInv, MayCome, Messages, Requests, Order
<1>4. line[c] = << >>
  BY <1>2, <1>3
<1>5. /\ pc' \in [Connects -> Places]
      /\ line' \in [Connects -> Seq(Messages)]
      /\ pc'[c] = "Fp1"
      /\ \A d \in Connects : d # c => pc'[d] = pc[d] /\ line'[d] = line[d]
  BY <1>1, <1>2, AskFacts
<1>6. TypeOK'
  BY <1>1, <1>5 DEF TypeOK, choice, receiver, devices
<1>7. LocalInv(c)'
  <2>1. ~torn'[c]
    BY <1>1 DEF LocalInv, LineInv
  <2>2. line[c] \in Suffixes(c)
    BY DEF Suffixes
  <2>3. LineInv(c)' /\ AnswerInv(c)'
    BY <1>1, <1>2, <1>3, <1>4, <2>1, <2>2, AskKeeps DEF choice, receiver, devices
  <2> QED
    BY <1>1, <1>5, <2>3 DEF LocalInv, KeyInv, choice, receiver, devices
<1>8. SharedInv'
  BY <1>1 DEF SharedInv, StoredIsAccepted, BackoffOnlyByTypo, devices
<1>9. \A d \in Connects : LocalInv(d)'
  BY <1>5, <1>6, <1>7, OthersKeep DEF choice, receiver, devices
<1> QED
  BY <1>6, <1>8, <1>9 DEF IInv

LEMMA WriteKeeps ==
  ASSUME IInv, NEW c \in Connects, Write(c)
  PROVE  IInv'
<1>1. file' = snap[c] /\ snap[c] \in Stores
  BY DEF IInv, TypeOK, Write
<1>2. \A d \in Devices : snap[c][d] # None => snap[c][d] \in accepted[d]
  BY DEF IInv, LocalInv
<1> QED
  BY <1>1, <1>2, BeginFairPlay DEF Write

LEMMA SaveFailsKeeps ==
  ASSUME IInv, NEW c \in Connects, SaveFails(c)
  PROVE  IInv'
<1>1. file' = file /\ file \in Stores /\ disk \in {"whole", "truncated", "garbled"}
  BY DEF IInv, TypeOK, SaveFails, store
<1>2. \A d \in Devices : file[d] # None => file[d] \in accepted[d]
  BY DEF IInv, SharedInv, StoredIsAccepted
<1> QED
  BY <1>1, <1>2, BeginFairPlay DEF SaveFails, store

LEMMA FairPlayKeeps ==
  ASSUME IInv, NEW c \in Connects, FairPlaySetup(c) \/ NoFairPlay(c)
  PROVE  IInv'
<1>1. /\ TypeOK /\ SharedInv /\ LocalInv(c)
      /\ pc[c] \in {"Fp1", "Fp2"}
      /\ key[c] = "shared"
      /\ UNCHANGED <<store, choice, again, snap, sap, key, share, receiver, devices, mistyped>>
  BY DEF IInv, FairPlaySetup, NoFairPlay, LocalInv, KeyInv
<1>2. /\ pc' \in [Connects -> Places]
      /\ line' \in [Connects -> Seq(Messages)]
      /\ torn' \in [Connects -> BOOLEAN]
      /\ pc'[c] \in {"Fp2", "up"}
      /\ \A d \in Connects : d # c => pc'[d] = pc[d] /\ line'[d] = line[d] /\ torn'[d] = torn[d]
      /\ LineInv(c)' /\ AnswerInv(c)'
  <2>1. CASE pc[c] = "Fp1" /\ Proceed(c, "Fp2", key[c])
    <3>1. "Fp2" \in Requests /\ key[c] \in Keys
      BY <1>1 DEF Requests, Order, Keys
    <3> QED
      BY <1>1, <2>1, <3>1, ProceedFacts DEF receiver, devices, choice
  <2>2. CASE \E rest \in Suffixes(c), part \in BOOLEAN :
               /\ Become(c, "up")
               /\ line' = [line EXCEPT ![c] = rest]
               /\ torn' = [torn EXCEPT ![c] = part]
    <3>1. PICK rest \in Suffixes(c), part \in BOOLEAN :
            /\ Become(c, "up")
            /\ line' = [line EXCEPT ![c] = rest]
            /\ torn' = [torn EXCEPT ![c] = part]
      BY <2>2
    <3>2. \A i \in 1..Len(rest) : MayCome("up", rest[i].ask)
      BY <1>1, RestFacts DEF MayCome
    <3>3. "up" \in Places \ Requests
      BY DEF Places, Requests, Order
    <3>4. /\ torn' \in [Connects -> BOOLEAN]
          /\ \A d \in Connects : d # c => torn'[d] = torn[d]
      BY <1>1, <3>1 DEF TypeOK
    <3>5. /\ pc' \in [Connects -> Places]
          /\ line' \in [Connects -> Seq(Messages)]
          /\ pc'[c] = "up"
          /\ \A d \in Connects : d # c => pc'[d] = pc[d] /\ line'[d] = line[d]
          /\ LineInv(c)' /\ AnswerInv(c)'
      BY <1>1, <3>1, <3>2, <3>3, StopKeeps DEF receiver, devices, choice
    <3> QED
      BY <3>4, <3>5
  <2> QED
    BY <2>1, <2>2 DEF FairPlaySetup, NoFairPlay
<1>3. TypeOK'
  BY <1>1, <1>2 DEF TypeOK, store, choice, receiver, devices
<1>4. LocalInv(c)'
  BY <1>1, <1>2 DEF LocalInv, KeyInv, choice, receiver, devices
<1>5. SharedInv'
  BY <1>1 DEF SharedInv, StoredIsAccepted, BackoffOnlyByTypo, store, devices
<1>6. \A d \in Connects : LocalInv(d)'
  BY <1>1, <1>2, <1>3, <1>4, OthersKeep DEF choice, receiver, devices
<1> QED
  BY <1>3, <1>5, <1>6 DEF IInv

(* Answers that change nothing but the line.                               *)
LEMMA AnswerPlainlyKeeps ==
  ASSUME IInv, NEW c \in Connects, AnswerPlainly(c)
  PROVE  IInv'
<1>1. TypeOK /\ SharedInv /\ LocalInv(c)
  BY DEF IInv
<1>2. PICK r \in {"Info", "PinStart", "Fp1", "Fp2"} : Answer(c, r, "good")
  BY DEF AnswerPlainly
<1>3. r \in Requests
  BY DEF Requests, Order
<1>4. /\ line' \in [Connects -> Seq(Messages)]
      /\ \A d \in Connects : d # c => line'[d] = line[d]
  BY <1>1, <1>2, AnswerFacts
<1>5. TypeOK'
  BY <1>1, <1>4 DEF TypeOK, AnswerPlainly, store, choice, receiver, devices
<1>6. LocalInv(c)'
  <2>1. LineInv(c)' /\ AnswerInv(c)'
    BY <1>1, <1>2, <1>3, AnswerKeeps DEF AnswerPlainly, choice, receiver, devices
  <2> QED
    BY <1>1, <2>1 DEF LocalInv, KeyInv, AnswerPlainly, choice, receiver, devices
<1>7. SharedInv'
  BY <1>1 DEF SharedInv, StoredIsAccepted, BackoffOnlyByTypo, AnswerPlainly, store, devices
<1>8. \A d \in Connects : LocalInv(d)'
  BY <1>4, <1>5, <1>6, OthersKeep DEF AnswerPlainly, choice, receiver, devices
<1> QED
  BY <1>5, <1>7, <1>8 DEF IInv

LEMMA AnswerM1Keeps ==
  ASSUME IInv, NEW c \in Connects, AnswerM1(c)
  PROVE  IInv'
<1>1. TypeOK /\ SharedInv /\ LocalInv(c)
  BY DEF IInv
<1>2. Answer(c, "M1", "good") /\ "M1" \in Requests
  BY DEF AnswerM1, Requests, Order
<1>3. /\ line' \in [Connects -> Seq(Messages)]
      /\ \A d \in Connects : d # c => line'[d] = line[d]
  BY <1>1, <1>2, AnswerFacts
<1>4. /\ stage' \in [Connects -> {"new", "asked", "proved", "paired", "verify"}]
      /\ stage'[c] = "asked"
      /\ \A d \in Connects : d # c => stage'[d] = stage[d]
  BY <1>1 DEF AnswerM1, TypeOK
<1>5. TypeOK'
  BY <1>1, <1>3, <1>4 DEF TypeOK, AnswerM1, store, choice, devices
<1>6. LocalInv(c)'
  <2>1. LineInv(c)' /\ AnswerInv(c)'
    BY <1>1, <1>2, <1>4, AnswerKeeps DEF AnswerM1, choice, devices
  <2> QED
    BY <1>1, <2>1 DEF LocalInv, KeyInv, AnswerM1, choice, devices
<1>7. SharedInv'
  BY <1>1 DEF SharedInv, StoredIsAccepted, BackoffOnlyByTypo, AnswerM1, store, devices
<1>8. \A d \in Connects : LocalInv(d)'
  BY <1>3, <1>4, <1>5, <1>6, OthersKeep DEF AnswerM1, choice, devices
<1> QED
  BY <1>5, <1>7, <1>8 DEF IInv

LEMMA AnswerM3Keeps ==
  ASSUME IInv, NEW c \in Connects, AnswerM3(c)
  PROVE  IInv'
<1>1. TypeOK /\ SharedInv /\ LocalInv(c)
  BY DEF IInv
<1>2. Answer(c, "M3", "good") /\ "M3" \in Requests
  BY DEF AnswerM3, Requests, Order
<1>3. /\ line' \in [Connects -> Seq(Messages)]
      /\ \A d \in Connects : d # c => line'[d] = line[d]
  BY <1>1, <1>2, AnswerFacts
<1>4. /\ stage' \in [Connects -> {"new", "asked", "proved", "paired", "verify"}]
      /\ stage'[c] = "proved"
      /\ \A d \in Connects : d # c => stage'[d] = stage[d]
  BY <1>1 DEF AnswerM3, TypeOK
<1>5. TypeOK'
  BY <1>1, <1>3, <1>4 DEF TypeOK, AnswerM3, store, choice, devices
<1>6. LocalInv(c)'
  <2>1. LineInv(c)' /\ AnswerInv(c)'
    BY <1>1, <1>2, <1>4, AnswerKeeps DEF AnswerM3, choice, devices
  <2> QED
    BY <1>1, <2>1 DEF LocalInv, KeyInv, AnswerM3, choice, devices
<1>7. SharedInv'
  BY <1>1 DEF SharedInv, StoredIsAccepted, BackoffOnlyByTypo, AnswerM3, store, devices
<1>8. \A d \in Connects : LocalInv(d)'
  BY <1>3, <1>4, <1>5, <1>6, OthersKeep DEF AnswerM3, choice, devices
<1> QED
  BY <1>5, <1>7, <1>8 DEF IInv

LEMMA AnswerV1Keeps ==
  ASSUME IInv, NEW c \in Connects, AnswerV1(c)
  PROVE  IInv'
<1>1. TypeOK /\ SharedInv /\ LocalInv(c)
  BY DEF IInv
<1>2. Answer(c, "V1", "good") /\ "V1" \in Requests
  BY DEF AnswerV1, Requests, Order
<1>3. /\ line' \in [Connects -> Seq(Messages)]
      /\ \A d \in Connects : d # c => line'[d] = line[d]
  BY <1>1, <1>2, AnswerFacts
<1>4. /\ stage' \in [Connects -> {"new", "asked", "proved", "paired", "verify"}]
      /\ stage'[c] = "verify"
      /\ \A d \in Connects : d # c => stage'[d] = stage[d]
  BY <1>1 DEF AnswerV1, TypeOK
<1>5. TypeOK'
  BY <1>1, <1>3, <1>4 DEF TypeOK, AnswerV1, store, choice, devices
<1>6. LocalInv(c)'
  <2>1. LineInv(c)' /\ AnswerInv(c)'
    BY <1>1, <1>2, <1>4, AnswerKeeps DEF AnswerV1, choice, devices
  <2> QED
    BY <1>1, <2>1 DEF LocalInv, KeyInv, AnswerV1, choice, devices
<1>7. SharedInv'
  BY <1>1 DEF SharedInv, StoredIsAccepted, BackoffOnlyByTypo, AnswerV1, store, devices
<1>8. \A d \in Connects : LocalInv(d)'
  BY <1>3, <1>4, <1>5, <1>6, OthersKeep DEF AnswerV1, choice, devices
<1> QED
  BY <1>5, <1>7, <1>8 DEF IInv

LEMMA AnswerM5Keeps ==
  ASSUME IInv, NEW c \in Connects, AnswerM5(c)
  PROVE  IInv'
<1>1. TypeOK /\ SharedInv /\ LocalInv(c)
  BY DEF IInv
<1>2. Answer(c, "M5", "good") /\ "M5" \in Requests
  BY DEF AnswerM5, Requests, Order
<1>3. /\ line' \in [Connects -> Seq(Messages)]
      /\ \A d \in Connects : d # c => line'[d] = line[d]
  BY <1>1, <1>2, AnswerFacts
<1>4. /\ stage' \in [Connects -> {"new", "asked", "proved", "paired", "verify"}]
      /\ stage'[c] = "paired"
      /\ \A d \in Connects : d # c => stage'[d] = stage[d]
  BY <1>1 DEF AnswerM5, TypeOK
<1>5. /\ accepted' \in [Devices -> SUBSET Idents]
      /\ trusted' \in [Devices -> SUBSET Idents]
      /\ \A d \in Devices : accepted[d] \subseteq accepted'[d]
      /\ \A d \in Devices : trusted'[d] \subseteq accepted'[d]
  BY <1>1 DEF AnswerM5, TypeOK, SharedInv
<1>6. TypeOK'
  BY <1>1, <1>3, <1>4, <1>5 DEF TypeOK, AnswerM5, store, choice
<1>7. LocalInv(c)'
  <2>1. accepted[dev[c]] \subseteq accepted'[dev[c]]
    BY <1>1, <1>5 DEF TypeOK
  <2>2. LineInv(c)' /\ AnswerInv(c)'
    BY <1>1, <1>2, <1>4, <2>1, AnswerKeeps DEF AnswerM5, choice
  <2>3. KeyInv(c)'
    BY <1>1, <2>1 DEF LocalInv, KeyInv, AnswerM5, choice
  <2> QED
    BY <1>1, <1>5, <2>2, <2>3 DEF LocalInv, AnswerM5, choice
<1>8. SharedInv'
  BY <1>1, <1>5 DEF SharedInv, StoredIsAccepted, BackoffOnlyByTypo, AnswerM5, store
<1>9. \A d \in Connects : LocalInv(d)'
  BY <1>3, <1>4, <1>5, <1>6, <1>7, OthersKeep DEF AnswerM5, choice
<1> QED
  BY <1>6, <1>8, <1>9 DEF IInv

LEMMA AnswerV3Keeps ==
  ASSUME IInv, NEW c \in Connects, AnswerV3(c)
  PROVE  IInv'
<1>1. TypeOK /\ SharedInv /\ LocalInv(c)
  BY DEF IInv
<1>2. Answer(c, "V3", "good") /\ "V3" \in Requests
  BY DEF AnswerV3, Requests, Order
<1>3. /\ line' \in [Connects -> Seq(Messages)]
      /\ \A d \in Connects : d # c => line'[d] = line[d]
  BY <1>1, <1>2, AnswerFacts
<1>4. /\ rxKey' \in [Connects -> Keys]
      /\ rxKey'[c] = "shared"
      /\ \A d \in Connects : d # c => rxKey'[d] = rxKey[d]
  BY <1>1 DEF AnswerV3, TypeOK, Keys
<1>5. TypeOK'
  BY <1>1, <1>3, <1>4 DEF TypeOK, AnswerV3, store, choice, devices
<1>6. ident[c] \in accepted[dev[c]]
  BY <1>1 DEF AnswerV3, SharedInv, TypeOK
<1>7. LocalInv(c)'
  <2>1. LineInv(c)' /\ AnswerInv(c)'
    BY <1>1, <1>2, <1>4, <1>6, AnswerKeeps DEF AnswerV3, choice, devices
  <2>2. KeyInv(c)'
    BY <1>1, <1>4 DEF LocalInv, KeyInv, AnswerV3, choice, devices
  <2> QED
    BY <1>1, <2>1, <2>2 DEF LocalInv, AnswerV3, choice, devices
<1>8. SharedInv'
  BY <1>1 DEF SharedInv, StoredIsAccepted, BackoffOnlyByTypo, AnswerV3, store, devices
<1>9. \A d \in Connects : LocalInv(d)'
  BY <1>3, <1>4, <1>5, <1>7, OthersKeep DEF AnswerV3, choice, devices
<1> QED
  BY <1>5, <1>8, <1>9 DEF IInv

(* When the proof of an M3 fails, the code was wrong: an M3 is on the way  *)
(* only after the answer to M1.                                            *)
LEMMA RefuseKeeps ==
  ASSUME IInv, NEW c \in Connects, Refuse(c)
  PROVE  IInv'
<1>1. TypeOK /\ SharedInv /\ LocalInv(c)
  BY DEF IInv
<1> DEFINE fails(r) == backoff[dev[c]] \/ (r = "M3" /\ (stage[c] # "asked" \/ code[c] = "wrong"))
<1>2. PICK r \in Requests :
        /\ Answer(c, r, "bad")
        /\ backoff' = [backoff EXCEPT ![dev[c]] = fails(r)]
  BY DEF Refuse
<1>3. /\ line' \in [Connects -> Seq(Messages)]
      /\ \A d \in Connects : d # c => line'[d] = line[d]
  BY <1>1, <1>2, AnswerFacts
<1>4. r = "M3" => stage[c] = "asked"
  BY <1>1, <1>2 DEF Answer, LocalInv, AnswerInv
<1>5. fails(r) \in BOOLEAN /\ (fails(r) => mistyped[dev[c]])
  BY <1>1, <1>4 DEF LocalInv, SharedInv, BackoffOnlyByTypo, TypeOK
<1> HIDE DEF fails
<1>6. /\ backoff' \in [Devices -> BOOLEAN]
      /\ \A d \in Devices : backoff'[d] => mistyped[d]
  BY <1>1, <1>2, <1>5 DEF TypeOK, SharedInv, BackoffOnlyByTypo
<1>7. TypeOK'
  BY <1>1, <1>3, <1>6 DEF TypeOK, Refuse, store, choice, receiver
<1>8. LocalInv(c)'
  <2>1. LineInv(c)' /\ AnswerInv(c)'
    BY <1>1, <1>2, AnswerKeeps DEF Refuse, choice, receiver
  <2> QED
    BY <1>1, <2>1 DEF LocalInv, KeyInv, Refuse, choice, receiver
<1>9. SharedInv'
  BY <1>1, <1>6 DEF SharedInv, StoredIsAccepted, BackoffOnlyByTypo, Refuse, store
<1>10. \A d \in Connects : LocalInv(d)'
  BY <1>3, <1>7, <1>8, OthersKeep DEF Refuse, choice, receiver
<1> QED
  BY <1>7, <1>9, <1>10 DEF IInv

LEMMA ForgetKeeps ==
  ASSUME IInv, NEW d \in Devices, Forget(d)
  PROVE  IInv'
<1>1. TypeOK /\ SharedInv
  BY DEF IInv
<1>2. TypeOK'
  BY <1>1 DEF TypeOK, Forget, store, choice, channel, receiver
<1>3. SharedInv'
  BY <1>1 DEF SharedInv, StoredIsAccepted, BackoffOnlyByTypo, Forget, store, TypeOK
<1>4. ASSUME NEW c \in Connects
      PROVE  LocalInv(c)'
  <2>1. LocalInv(c)
    BY DEF IInv
  <2>2. LineInv(c)' /\ AnswerInv(c)' /\ KeyInv(c)'
    BY <2>1 DEF LocalInv, LineInv, AnswerInv, KeyInv, Forget, choice, channel, receiver
  <2> QED
    BY <2>1, <2>2 DEF LocalInv, Forget, choice
<1> QED
  BY <1>2, <1>3, <1>4 DEF IInv

-----------------------------------------------------------------------------
(***************************************************************************)
(* The invariant and what follows from it.                                 *)
(***************************************************************************)

LEMMA InitHolds == Init => IInv
<1> SUFFICES ASSUME Init
             PROVE  IInv
  OBVIOUS
<1>1. /\ file \in Stores
      /\ \A d \in Devices : file[d] # None => file[d] \in accepted[d]
      /\ accepted \in [Devices -> SUBSET Idents]
  BY DEF Init, Stores, Idents
<1>2. TypeOK
  <2>1. mode \in [Connects -> {"auto", "force", "code"}]
    BY ModesAssumption DEF Init
  <2>2. snap \in [Connects -> Stores]
    BY DEF Init, Stores, Empty
  <2>3. /\ pc \in [Connects -> Places]
        /\ ident \in [Connects -> Idents]
        /\ share \in [Connects -> Keys]
        /\ rxKey \in [Connects -> Keys]
    BY DEF Init, Places, Idents, Keys
  <2>4. line \in [Connects -> Seq(Messages)]
    BY DEF Init
  <2> QED
    BY <1>1, <2>1, <2>2, <2>3, <2>4 DEF Init, TypeOK
<1>3. SharedInv
  BY <1>1 DEF Init, SharedInv, StoredIsAccepted, BackoffOnlyByTypo
<1>4. ASSUME NEW c \in Connects
      PROVE  LocalInv(c)
  <2>1. line[c] = << >> /\ pc[c] = "idle" /\ key[c] = "plain" /\ snap[c] = Empty /\ code[c] = "right"
    BY DEF Init
  <2>2. LineInv(c) /\ AnswerInv(c) /\ KeyInv(c)
    BY <2>1 DEF LineInv, AnswerInv, KeyInv, Pairing
  <2> QED
    BY <2>1, <2>2 DEF LocalInv, Empty
<1> QED
  BY <1>2, <1>3, <1>4 DEF IInv

LEMMA StutterKeeps ==
  ASSUME IInv, UNCHANGED vars
  PROVE  IInv'
<1>1. TypeOK'
  BY DEF IInv, TypeOK, vars, store, choice, channel, receiver, devices
<1>2. SharedInv'
  BY DEF IInv, SharedInv, StoredIsAccepted, BackoffOnlyByTypo, vars, store, devices
<1>3. ASSUME NEW c \in Connects
      PROVE  LocalInv(c)'
  <2>1. LocalInv(c)
    BY DEF IInv
  <2>2. LineInv(c)' /\ AnswerInv(c)' /\ KeyInv(c)'
    BY <2>1 DEF LocalInv, LineInv, AnswerInv, KeyInv, vars, store, choice, channel, receiver, devices
  <2> QED
    BY <2>1, <2>2 DEF LocalInv, vars, store, choice, channel, receiver, devices
<1> QED
  BY <1>1, <1>2, <1>3 DEF IInv

LEMMA NextKeeps ==
  ASSUME IInv, [Next]_vars
  PROVE  IInv'
<1>1. ASSUME NEW c \in Connects, Step(c)
      PROVE  IInv'
  <2>1. CASE Open(c) \/ HearInfo(c) \/ HearPinStart(c) \/ PairSetup(c) \/ PairVerify(c)
    BY <2>1, OpenKeeps, HearInfoKeeps, HearPinStartKeeps, PairSetupKeeps, PairVerifyKeeps
  <2>2. CASE Encrypt(c) \/ PairingFails(c) \/ Redial(c) \/ Truncate(c) \/ Write(c) \/ SaveFails(c)
    BY <2>2, EncryptKeeps, PairingFailsKeeps, RedialKeeps, TruncateKeeps, WriteKeeps, SaveFailsKeeps
  <2>3. CASE FairPlaySetup(c) \/ NoFairPlay(c)
    BY <2>3, FairPlayKeeps
  <2>4. CASE FairPlayFails(c)
    BY <2>4, FailKeeps DEF FairPlayFails
  <2> QED
    BY <1>1, <2>1, <2>2, <2>3, <2>4 DEF Step
<1>2. ASSUME NEW c \in Connects, Type(c)
      PROVE  IInv'
  BY <1>2, TypeKeeps
<1>3. ASSUME NEW c \in Connects, NoCode(c) \/ Die(c)
      PROVE  IInv'
  BY <1>3, FailKeeps DEF NoCode, Die
<1>4. ASSUME NEW c \in Connects, Receive(c)
      PROVE  IInv'
  BY <1>4, AnswerPlainlyKeeps, AnswerM1Keeps, AnswerM3Keeps, AnswerM5Keeps,
     AnswerV1Keeps, AnswerV3Keeps, RefuseKeeps DEF Receive
<1>5. ASSUME NEW d \in Devices, Forget(d)
      PROVE  IInv'
  BY <1>5, ForgetKeeps
<1>6. CASE UNCHANGED vars
  BY <1>6, StutterKeeps
<1> QED
  BY <1>1, <1>2, <1>3, <1>4, <1>5, <1>6 DEF Next

(* Every reachable state of any number of connects and receivers satisfies *)
(* the inductive invariant.                                                *)
THEOREM Invariance == Spec => []IInv
<1>1. Init => IInv
  BY InitHolds
<1>2. IInv /\ [Next]_vars => IInv'
  BY NextKeeps
<1> QED
  BY <1>1, <1>2, PTL DEF Spec

(* The variables of the connects keep their types.                         *)
THEOREM TypeCorrect == Spec => []TypeOK
<1>1. IInv => TypeOK
  BY DEF IInv
<1> QED
  BY <1>1, Invariance, PTL

(* A late answer, or half of one, never passes for one of pair-setup or    *)
(* pair-verify (read_response looks at no CSeq).                           *)
THEOREM AnswersAreOwn == Spec => []NoStaleAnswers
<1>1. ASSUME IInv, NEW c \in Connects, pc[c] \in Pairing
      PROVE  /\ ~torn[c]
             /\ Len(line[c]) <= 1
             /\ \A i \in 1..Len(line[c]) : line[c][i].ask = pc[c]
  BY <1>1 DEF IInv, LocalInv, LineInv, Pairing, MayCome
<1>2. IInv => NoStaleAnswers
  BY <1>1 DEF NoStaleAnswers
<1> QED
  BY <1>2, Invariance, PTL

(* A connect that encrypts uses the receiver's key and an identity that    *)
(* the receiver has paired with (pair_verify, enable_encryption).          *)
THEOREM KeysAlwaysAgree == Spec => []KeysAgree
<1>1. ASSUME IInv, NEW c \in Connects, key[c] # "plain"
      PROVE  key[c] = rxKey[c] /\ ident[c] \in accepted[dev[c]]
  BY <1>1 DEF IInv, LocalInv, KeyInv
<1>2. IInv => KeysAgree
  BY <1>1 DEF KeysAgree
<1> QED
  BY <1>2, Invariance, PTL

(* Only a pairing that the receiver has accepted gets into the             *)
(* credentials file (CredentialStore.save).                                *)
THEOREM StoredAccepted == Spec => []StoredIsAccepted
<1>1. IInv => StoredIsAccepted
  BY DEF IInv, SharedInv
<1> QED
  BY <1>1, Invariance, PTL

(* No SRP proof fails unless somebody gave a wrong code: pair_pin_display  *)
(* does not set off the back-off of the receiver.                          *)
THEOREM BackoffByTypo == Spec => []BackoffOnlyByTypo
<1>1. IInv => BackoffOnlyByTypo
  BY DEF IInv, SharedInv
<1> QED
  BY <1>1, Invariance, PTL

-----------------------------------------------------------------------------
(***************************************************************************)
(* The channel of every connect is a paired channel.  How far it has come  *)
(* shows in pc.                                                            *)
(***************************************************************************)

PhaseOf(p) ==
  IF p = "up" THEN "up"
  ELSE IF p \in {"save", "write", "Fp1", "Fp2"} THEN "secret" ELSE "plain"

Phase == [c \in Connects |-> PhaseOf(pc[c])]

(* Nobody has verified a connect that has not begun, and what a connect is *)
(* about to write has its own pairing.                                     *)
PairInv ==
  \A c \in Connects :
    /\ pc[c] = "idle" => rxKey[c] = "plain"
    /\ pc[c] = "write" => snap[c][dev[c]] = ident[c]

ChannelStep == [Abstract!Next]_(Abstract!vars)

LEMMA StateIsPhase ==
  ASSUME IInv, IInv'
  PROVE  State = Phase /\ State' = Phase'
<1>1. \A c \in Connects : State[c] = PhaseOf(pc[c])
  BY DEF IInv, LocalInv, KeyInv, State, PhaseOf
<1>2. \A c \in Connects : State'[c] = PhaseOf(pc'[c])
  BY DEF IInv, LocalInv, KeyInv, State, PhaseOf
<1>3. State = Phase
  BY <1>1 DEF State, Phase
<1>4. State' = Phase'
  BY <1>2 DEF State, Phase
<1> QED
  BY <1>3, <1>4

LEMMA PhaseMoves ==
  ASSUME TypeOK, NEW c \in Connects, NEW p, Become(c, p)
  PROVE  Phase' = [Phase EXCEPT ![c] = PhaseOf(p)]
BY DEF TypeOK, Become, Phase

(* A step that nobody notices who looks at the channels.                   *)
LEMMA QuietStep ==
  ASSUME IInv, IInv', UNCHANGED <<dev, accepted, file, rxKey>>,
         Phase' = Phase,
         \A c \in Connects : ident'[c] = ident[c] \/ rxKey[c] = "plain"
  PROVE  ChannelStep
<1>1. State' = State
  BY StateIsPhase
<1>2. \A c \in Connects : Verified'[c] = Verified[c]
  BY DEF Verified
<1>3. Verified' = Verified
  BY <1>2 DEF Verified
<1> QED
  BY <1>1, <1>3 DEF ChannelStep, Abstract!vars

(* c goes on, and the channel with it stays what it was.                   *)
LEMMA QuietMove ==
  ASSUME IInv, IInv', NEW c \in Connects, NEW p, Become(c, p),
         PhaseOf(p) = PhaseOf(pc[c]),
         UNCHANGED <<dev, accepted, file, rxKey>>,
         \A d \in Connects : ident'[d] = ident[d] \/ rxKey[d] = "plain"
  PROVE  ChannelStep
<1>1. Phase' = Phase
  BY PhaseMoves DEF IInv, Phase
<1> QED
  BY <1>1, QuietStep

(* The channel is closed.                                                  *)
LEMMA CloseStep ==
  ASSUME IInv, IInv', NEW c \in Connects, NEW p \in {"redial", "failed"}, Close(c, p),
         pc[c] # "up",
         UNCHANGED <<dev, accepted, file>>,
         \A d \in Connects : d # c => ident'[d] = ident[d]
  PROVE  ChannelStep
<1>1. State' = [State EXCEPT ![c] = "plain"]
  BY StateIsPhase, PhaseMoves DEF Close, PhaseOf, IInv
<1>2. Verified' = [Verified EXCEPT ![c] = None]
  <2>1. rxKey' = [rxKey EXCEPT ![c] = "plain"]
    BY DEF Close
  <2>2. \A d \in Connects : Verified'[d] = IF d = c THEN None ELSE Verified[d]
    BY <2>1 DEF Verified, IInv, TypeOK
  <2> QED
    BY <2>2 DEF Verified
<1>3. State[c] # "up"
  BY StateIsPhase DEF Phase, PhaseOf
<1> QED
  BY <1>1, <1>2, <1>3 DEF ChannelStep, Abstract!Next, Abstract!Close

(* The session begins.                                                     *)
LEMMA ServeStep ==
  ASSUME IInv, IInv', NEW c \in Connects, pc[c] \in {"Fp1", "Fp2"}, Become(c, "up"),
         UNCHANGED <<dev, accepted, file, rxKey, ident>>
  PROVE  ChannelStep
<1>1. State' = [State EXCEPT ![c] = "up"] /\ State[c] = "secret"
  BY StateIsPhase, PhaseMoves DEF PhaseOf, Phase, IInv
<1>2. Verified' = Verified
  BY DEF Verified
<1> QED
  BY <1>1, <1>2 DEF ChannelStep, Abstract!Next, Abstract!Serve

(* enable_encryption comes when the receiver has verified who this is.     *)
LEMMA EncryptStep ==
  ASSUME IInv, IInv', NEW c \in Connects, Encrypt(c)
  PROVE  ChannelStep
<1>1. PICK p \in {"Fp1", "save"} : Become(c, p)
  BY DEF Encrypt, Proceed, AskAfter
<1>2. pc[c] = "V3" /\ UNCHANGED <<dev, accepted, file, rxKey, ident>>
  BY DEF Encrypt, store, choice, receiver, devices
<1>3. State' = [State EXCEPT ![c] = "secret"] /\ State[c] = "plain"
  BY <1>1, <1>2, StateIsPhase, PhaseMoves DEF PhaseOf, Phase, IInv
<1>4. Verified' = Verified
  BY <1>2 DEF Verified
<1>5. Verified[c] # None
  <2>1. pc'[c] \in {"Fp1", "save"}
    BY <1>1 DEF Become, IInv, TypeOK
  <2>2. rxKey[c] = "shared"
    BY <1>2, <2>1 DEF IInv, LocalInv, KeyInv
  <2> QED
    BY <2>2, NoneAssumption DEF Verified, IInv, TypeOK
<1> QED
  BY <1>2, <1>3, <1>4, <1>5 DEF ChannelStep, Abstract!Next, Abstract!Secure

(* File::create empties the credentials file ...                           *)
LEMMA TruncateStep ==
  ASSUME IInv, IInv', NEW c \in Connects, Truncate(c)
  PROVE  ChannelStep
<1>1. /\ pc[c] = "save" /\ Become(c, "write") /\ file' = [d \in Devices |-> None]
      /\ UNCHANGED <<dev, accepted, rxKey, ident>>
  BY DEF Truncate, Empty, choice, receiver, devices
<1>2. State' = State /\ State[c] = "secret"
  BY <1>1, StateIsPhase, PhaseMoves DEF PhaseOf, Phase, IInv
<1>3. Verified' = Verified
  BY <1>1 DEF Verified
<1> QED
  BY <1>1, <1>2, <1>3 DEF ChannelStep, Abstract!Next, Abstract!Lose

(* ... and write_all fills it with pairings, of which one was just made.   *)
LEMMA WriteStep ==
  ASSUME IInv, IInv', PairInv, NEW c \in Connects, Write(c)
  PROVE  ChannelStep
<1>1. /\ pc[c] = "write" /\ Become(c, "Fp1") /\ file' = snap[c]
      /\ UNCHANGED <<dev, accepted, rxKey, ident>>
  BY DEF Write, AskAfter, choice, receiver, devices
<1>2. State' = State /\ State[c] = "secret"
  BY <1>1, StateIsPhase, PhaseMoves DEF PhaseOf, Phase, IInv
<1>3. Verified' = Verified
  BY <1>1 DEF Verified
<1>4. Verified[c] = ident[c]
  BY <1>1 DEF Verified, IInv, LocalInv, KeyInv
<1>5. /\ file' \in [Devices -> Idents \cup {None}]
      /\ \A d \in Devices : file'[d] # None => file'[d] \in accepted[d]
      /\ file'[dev[c]] = Verified[c]
  BY <1>1, <1>4 DEF IInv, TypeOK, LocalInv, PairInv, Stores
<1> QED
  BY <1>1, <1>2, <1>3, <1>5 DEF ChannelStep, Abstract!Next, Abstract!Save

(* The receiver stores a pairing.                                          *)
LEMMA AnswerM5Step ==
  ASSUME IInv, IInv', NEW c \in Connects, AnswerM5(c)
  PROVE  ChannelStep
<1>1. /\ accepted' = [accepted EXCEPT ![dev[c]] = accepted[dev[c]] \cup {ident[c]}]
      /\ UNCHANGED <<dev, file, rxKey, ident, pc>>
  BY DEF AnswerM5, store, choice
<1>2. State' = State /\ Verified' = Verified
  BY <1>1, StateIsPhase DEF Phase, Verified
<1>3. dev[c] \in Devices /\ ident[c] \in Idents
  BY DEF IInv, TypeOK
<1> QED
  BY <1>1, <1>2, <1>3 DEF ChannelStep, Abstract!Next, Abstract!Pair

(* The receiver verifies one.                                              *)
LEMMA AnswerV3Step ==
  ASSUME IInv, IInv', NEW c \in Connects, AnswerV3(c)
  PROVE  ChannelStep
<1>1. /\ rxKey' = [rxKey EXCEPT ![c] = "shared"]
      /\ ident[c] \in trusted[dev[c]]
      /\ UNCHANGED <<dev, accepted, file, ident, pc>>
  BY DEF AnswerV3, store, choice, devices
<1>2. dev[c] \in Devices /\ ident[c] \in Idents /\ ident[c] \in accepted[dev[c]]
  BY <1>1 DEF IInv, TypeOK, SharedInv
<1>3. PICK i \in 1..Len(line[c]) : line[c][i].ask = "V3" /\ line[c][i].key = rxKey[c]
  BY DEF AnswerV3, Answer
<1>4. pc[c] = "V3" /\ rxKey[c] = "plain"
  BY <1>3 DEF IInv, LocalInv, LineInv, AnswerInv, MayCome
<1>5. State' = State /\ State[c] = "plain"
  BY <1>1, <1>4, StateIsPhase DEF Phase, PhaseOf
<1>6. Verified' = [Verified EXCEPT ![c] = ident[c]] /\ Verified[c] = None
  <2>1. \A d \in Connects : Verified'[d] = IF d = c THEN ident[c] ELSE Verified[d]
    BY <1>1 DEF Verified, IInv, TypeOK
  <2> QED
    BY <1>4, <2>1 DEF Verified
<1> QED
  BY <1>1, <1>2, <1>5, <1>6 DEF ChannelStep, Abstract!Next, Abstract!Verify

(* The rest of what the receiver does shows later.                         *)
LEMMA OtherAnswers ==
  ASSUME IInv, IInv', NEW c \in Connects,
         AnswerPlainly(c) \/ AnswerM1(c) \/ AnswerM3(c) \/ AnswerV1(c) \/ Refuse(c)
  PROVE  ChannelStep
<1>1. UNCHANGED <<dev, accepted, file, rxKey, ident, pc>>
  BY DEF AnswerPlainly, AnswerM1, AnswerM3, AnswerV1, Refuse, store, choice, receiver, devices
<1> QED
  BY <1>1, QuietStep DEF Phase

LEMMA StepOfConnect ==
  ASSUME IInv, IInv', PairInv, NEW c \in Connects, Step(c) \/ Type(c) \/ NoCode(c) \/ Die(c)
  PROVE  ChannelStep
<1> USE DEF store, choice, receiver, devices
<1>1. CASE Open(c)
  <2>1. pc[c] = "idle" /\ Become(c, "Info") /\ UNCHANGED <<dev, accepted, file, rxKey>>
    BY <1>1 DEF Open, AskAfter
  <2>2. \A d \in Connects : ident'[d] = ident[d] \/ rxKey[d] = "plain"
    BY <1>1, <2>1 DEF Open, PairInv, IInv, TypeOK
  <2> QED
    BY <2>1, <2>2, QuietMove DEF PhaseOf
<1>2. CASE HearInfo(c)
  <2>1. PICK p \in {"M1", "V1", "PinStart"} : Become(c, p)
    BY <1>2 DEF HearInfo, AskAfter
  <2> QED
    BY <1>2, <2>1, QuietMove DEF PhaseOf, HearInfo
<1>3. CASE HearPinStart(c)
  BY <1>3, QuietMove DEF PhaseOf, HearPinStart
<1>4. CASE Type(c)
  BY <1>4, QuietMove DEF PhaseOf, Type, AskAfter
<1>5. CASE PairSetup(c)
  <2>1. PICK p \in {"M3", "M5", "V1"} : Become(c, p)
    BY <1>5 DEF PairSetup, Proceed, AskAfter
  <2> QED
    BY <1>5, <2>1, QuietMove DEF PhaseOf, PairSetup
<1>6. CASE PairVerify(c)
  BY <1>6, QuietMove DEF PhaseOf, PairVerify, Proceed, AskAfter
<1>7. CASE Redial(c)
  BY <1>7, QuietMove DEF PhaseOf, Redial, AskAfter
<1>8. CASE SaveFails(c)
  BY <1>8, QuietMove DEF PhaseOf, SaveFails, AskAfter
<1>9. CASE FairPlaySetup(c) \/ NoFairPlay(c)
  <2>1. /\ pc[c] \in {"Fp1", "Fp2"}
        /\ Become(c, "Fp2") \/ Become(c, "up")
        /\ UNCHANGED <<dev, accepted, file, rxKey, ident>>
    BY <1>9 DEF FairPlaySetup, NoFairPlay, Proceed, AskAfter
  <2> QED
    BY <2>1, ServeStep, QuietMove DEF PhaseOf
<1>10. CASE PairingFails(c) \/ FairPlayFails(c) \/ NoCode(c) \/ Die(c)
  <2>1. /\ pc[c] # "up"
        /\ Close(c, "redial") \/ Close(c, "failed")
        /\ UNCHANGED <<dev, accepted, file>>
        /\ ident' = ident \/ ident' = [ident EXCEPT ![c] = Old]
    BY <1>10 DEF PairingFails, FairPlayFails, NoCode, Die, Fail
  <2>2. \A d \in Connects : d # c => ident'[d] = ident[d]
    BY <2>1 DEF IInv, TypeOK
  <2> QED
    BY <2>1, <2>2, CloseStep
<1> QED
  BY <1>1, <1>2, <1>3, <1>4, <1>5, <1>6, <1>7, <1>8, <1>9, <1>10,
     EncryptStep, TruncateStep, WriteStep DEF Step

(* Every step of the program or of a receiver is one of a paired channel,  *)
(* or none.                                                                *)
LEMMA EveryStepPairs == IInv /\ IInv' /\ PairInv /\ [Next]_vars => ChannelStep
<1> SUFFICES ASSUME IInv, IInv', PairInv, [Next]_vars
             PROVE  ChannelStep
  OBVIOUS
<1>1. ASSUME NEW c \in Connects, Receive(c)
      PROVE  ChannelStep
  BY <1>1, AnswerM5Step, AnswerV3Step, OtherAnswers DEF Receive
<1>2. ASSUME NEW d \in Devices, Forget(d)
      PROVE  ChannelStep
  BY <1>2, QuietStep DEF Forget, store, choice, receiver, Phase
<1>3. CASE UNCHANGED vars
  BY <1>3, QuietStep DEF vars, store, choice, receiver, devices, Phase
<1> QED
  BY <1>1, <1>2, <1>3, StepOfConnect DEF Next

LEMMA PairInvMoves ==
  ASSUME TypeOK, PairInv, NEW c \in Connects, NEW p, Become(c, p), p # "idle",
         UNCHANGED dev,
         p = "write" => snap'[c][dev[c]] = ident'[c],
         \A d \in Connects : d # c =>
           rxKey'[d] = rxKey[d] /\ snap'[d] = snap[d] /\ ident'[d] = ident[d]
  PROVE  PairInv'
<1>1. \A d \in Connects : pc'[d] = IF d = c THEN p ELSE pc[d]
  BY DEF Become, TypeOK
<1> QED
  BY <1>1 DEF PairInv

LEMMA PairInvKept == IInv /\ PairInv /\ [Next]_vars => PairInv'
<1> SUFFICES ASSUME IInv, PairInv, [Next]_vars
             PROVE  PairInv'
  OBVIOUS
<1> USE DEF store, choice, receiver, devices
<1>1. ASSUME NEW c \in Connects, Step(c) \/ Type(c) \/ NoCode(c) \/ Die(c)
      PROVE  PairInv'
  <2>1. CASE Open(c)
    <3>1. Become(c, "Info") /\ UNCHANGED <<dev, rxKey>>
      BY <2>1 DEF Open, AskAfter
    <3>2. \A d \in Connects : d # c => snap'[d] = snap[d] /\ ident'[d] = ident[d]
      BY <2>1 DEF Open, IInv, TypeOK
    <3> QED
      BY <3>1, <3>2, PairInvMoves DEF IInv
  <2>2. CASE Truncate(c)
    <3>1. Become(c, "write") /\ UNCHANGED <<dev, rxKey, ident>>
      BY <2>2 DEF Truncate
    <3>2. snap'[c][dev[c]] = ident[c] /\ \A d \in Connects : d # c => snap'[d] = snap[d]
      BY <2>2 DEF Truncate, IInv, TypeOK, Stores
    <3> QED
      BY <3>1, <3>2, PairInvMoves DEF IInv
  <2>3. CASE PairingFails(c) \/ FairPlayFails(c) \/ NoCode(c) \/ Die(c)
    <3>1. PICK p \in {"redial", "failed"} :
            /\ Close(c, p)
            /\ UNCHANGED dev
            /\ \/ UNCHANGED <<snap, ident>>
               \/ snap' = [snap EXCEPT ![c] = Empty] /\ ident' = [ident EXCEPT ![c] = Old]
      BY <2>3 DEF PairingFails, FairPlayFails, NoCode, Die, Fail
    <3>2. Become(c, p) /\ rxKey' = [rxKey EXCEPT ![c] = "plain"]
      BY <3>1 DEF Close
    <3>3. \A d \in Connects : d # c =>
            rxKey'[d] = rxKey[d] /\ snap'[d] = snap[d] /\ ident'[d] = ident[d]
      BY <3>1, <3>2 DEF IInv, TypeOK
    <3> QED
      BY <3>1, <3>2, <3>3, PairInvMoves DEF IInv
  <2>4. CASE \/ HearInfo(c) \/ HearPinStart(c) \/ Type(c) \/ PairSetup(c) \/ PairVerify(c)
             \/ Encrypt(c) \/ Redial(c) \/ Write(c) \/ SaveFails(c) \/ FairPlaySetup(c)
             \/ NoFairPlay(c)
    <3>1. UNCHANGED <<dev, rxKey, snap, ident>>
      BY <2>4 DEF HearInfo, HearPinStart, Type, PairSetup, PairVerify, Encrypt, Redial,
         Write, SaveFails, FairPlaySetup, NoFairPlay
    <3>2. PICK p \in {"M1", "V1", "PinStart", "pin", "M3", "M5", "V3", "Fp1", "save", "Info",
                      "Fp2", "up"} : Become(c, p)
      BY <2>4 DEF HearInfo, HearPinStart, Type, PairSetup, PairVerify, Encrypt, Redial,
         Write, SaveFails, FairPlaySetup, NoFairPlay, Proceed, AskAfter
    <3> QED
      BY <3>1, <3>2, PairInvMoves DEF IInv
  <2> QED
    BY <1>1, <2>1, <2>2, <2>3, <2>4 DEF Step
<1>2. ASSUME NEW c \in Connects, AnswerV3(c)
      PROVE  PairInv'
  <2>1. pc[c] = "V3"
    BY <1>2 DEF AnswerV3, Answer, IInv, LocalInv, LineInv, MayCome
  <2>2. \A d \in Connects : d # c => rxKey'[d] = rxKey[d]
    BY <1>2 DEF AnswerV3, IInv, TypeOK
  <2> QED
    BY <1>2, <2>1, <2>2 DEF PairInv, AnswerV3
<1>3. ASSUME NEW c \in Connects, Receive(c), ~AnswerV3(c)
      PROVE  PairInv'
  <2>1. UNCHANGED <<dev, rxKey, snap, ident, pc>>
    BY <1>3 DEF Receive, AnswerPlainly, AnswerM1, AnswerM3, AnswerM5, AnswerV1, Refuse
  <2> QED
    BY <2>1 DEF PairInv
<1>4. ASSUME NEW d \in Devices, Forget(d)
      PROVE  PairInv'
  BY <1>4 DEF Forget, PairInv
<1>5. CASE UNCHANGED vars
  BY <1>5 DEF vars, PairInv
<1> QED
  BY <1>1, <1>2, <1>3, <1>4, <1>5 DEF Next

LEMMA StartsPaired == Init => Abstract!Init /\ PairInv
<1> SUFFICES ASSUME Init
             PROVE  Abstract!Init /\ PairInv
  OBVIOUS
<1>1. file \in [Devices -> Idents \cup {None}]
  BY DEF Init, Idents
<1>2. State = [c \in Connects |-> "plain"] /\ Verified = [c \in Connects |-> None]
  BY DEF Init, State, Verified
<1> QED
  BY <1>1, <1>2 DEF Init, Abstract!Init, PairInv

(* Whatever comes late, is refused, forgotten, retried or saved meanwhile, *)
(* a session begins only over a channel whose other end has verified a     *)
(* pairing that it has made, and nothing else puts pairings into the file  *)
(* (connect_host_full).                                                    *)
THEOREM ConnectsArePaired == Spec => IsPairedChannel
<1>1. Init => Abstract!Init /\ PairInv
  BY StartsPaired
<1>2. IInv /\ PairInv /\ [Next]_vars => PairInv'
  BY PairInvKept
<1>3. IInv /\ IInv' /\ PairInv /\ [Next]_vars => [Abstract!Next]_(Abstract!vars)
  BY EveryStepPairs DEF ChannelStep
<1> QED
  BY <1>1, <1>2, <1>3, Invariance, PTL DEF Spec, IsPairedChannel, Abstract!Spec
=============================================================================
