------------------------- MODULE StreamFramesProofs --------------------------
(***************************************************************************)
(* Proofs about StreamFrames, for any number of slices and of pictures.    *)
(* The invariant follows the loop from the parameter sets of the first     *)
(* keyframe it sees: from there on vcl_buf holds the upcoming picture from *)
(* its first slice, and a picture is missing in what was sent only while   *)
(* congestion control would drop the next one as well.                     *)
(***************************************************************************)
EXTENDS StreamFrames, TLAPS

USE SlicesAssumption, MaxAuAssumption

-----------------------------------------------------------------------------
(***************************************************************************)
(* The inductive invariant.                                                *)
(***************************************************************************)

(* The first m slices of picture n.                                        *)
Part(n, m) == {n} \X (1..m)

(* The picture that the next frame would hold, and how many of its slices  *)
(* the loop has seen.                                                      *)
Upcoming == IF stage = "aud" THEN au - 1 ELSE au
Seen == IF stage = "aud" THEN Slices ELSE slice - 1

StreamInv ==
  /\ keys \subseteq 1..au
  /\ stage # "slices" => slice = 1
  /\ stage \in {"sps", "pps"} => IsKey
  /\ stage # "aud" => au <= MaxAu
  /\ ~codecSent

(* The loop has seen the stream from some keyframe's parameter sets on.    *)
Joined == latestSps # 0

JoinedInv ==
  Joined =>
    /\ Upcoming \in Au /\ vclBuf = Part(Upcoming, Seen)
    /\ Seen > 0 => pendingKeyframe = (Upcoming \in keys)
    /\ Seen = 0 /\ pendingKeyframe => IsKey /\ stage # "sps"
    /\ Upcoming \in keys /\ stage # "sps" => latestSps = Upcoming
    /\ Upcoming \in keys /\ stage \in {"aud", "slices"} => latestPps = Upcoming
    /\ latestSps \in keys

UnprimedInv ==
  ~streamPrimed => /\ frame = NoFrame /\ codec = NoCodec
                   /\ Joined => Upcoming \in keys /\ stage # "sps"

(* What was sent, when picture u comes next.                               *)
SentBefore(u) ==
  /\ LastPicture \in Au /\ LastPicture < u
  /\ frame.slices = Part(LastPicture, Slices)
  /\ frame.key = (LastPicture \in keys)
  /\ frame.codec = codec
  /\ \E k \in keys : /\ codec = <<k, k>>
                     /\ k <= LastPicture
                     /\ \A n \in keys : n > k => n >= u
  /\ LastPicture = u - 1 \/ ShouldDrop

PrimedInv == streamPrimed => Joined /\ SentBefore(Upcoming)

RunInv == StreamInv /\ JoinedInv /\ UnprimedInv /\ PrimedInv

Promises == WholeFrames /\ ParameterSetsMatch /\ EveryKeyframeIsSent

IInv ==
  /\ TypeOK
  /\ status = "running" => RunInv
  /\ status # "running" => Promises

-----------------------------------------------------------------------------
(***************************************************************************)
(* Parts of pictures.                                                      *)
(***************************************************************************)

LEMMA PartEmpty == \A n : Part(n, 0) = {}
BY DEF Part

LEMMA PartNonEmpty == ASSUME NEW n, NEW m \in Nat \ {0} PROVE Part(n, m) # {}
<1>1. <<n, 1>> \in Part(n, m)
  BY DEF Part
<1> QED
  BY <1>1

LEMMA PartFirst == \A n : Part(n, 1) = {<<n, 1>>}
BY DEF Part

LEMMA PartNext ==
  ASSUME NEW n, NEW m \in Nat \ {0}
  PROVE  Part(n, m - 1) \cup {<<n, m>>} = Part(n, m)
BY DEF Part

LEMMA PartPicture ==
  ASSUME NEW n \in Au, NEW m \in 1..Slices
  PROVE  Picture(Part(n, m)) = n
<1>1. 1 \in 1..Slices /\ <<n, 1>> \in Part(n, m)
  BY DEF Part
<1>2. \A p \in Au : \A i \in 1..Slices : <<p, i>> \in Part(n, m) => p = n
  BY DEF Part
<1> QED
  BY <1>1, <1>2 DEF Picture

LEMMA PartType ==
  ASSUME NEW n \in Au, NEW m \in 0..Slices
  PROVE  Part(n, m) \subseteq Au \X (1..Slices)
BY DEF Part

-----------------------------------------------------------------------------
(***************************************************************************)
(* What a flush sends.                                                     *)
(***************************************************************************)

(* Before the loop has joined the stream it sends nothing.                 *)
LEMMA NothingBeforeJoined ==
  ASSUME TypeOK, RunInv, ~Joined
  PROVE  ~streamPrimed /\ ~ToSend
BY DEF RunInv, PrimedInv, ToSend, Unusable, Joined

(* What is sent is what there is of the upcoming picture, with the right   *)
(* keyframe flag and after the right parameter sets.                       *)
LEMMA SendsUpcoming ==
  ASSUME TypeOK, RunInv, NEW left, NEW key, Send(left, key)
  PROVE  /\ Joined /\ Upcoming \in Au /\ Seen \in 1..Slices /\ streamPrimed'
         /\ frame'.slices = Part(Upcoming, Seen) /\ LastPicture' = Upcoming
         /\ frame'.key = (Upcoming \in keys)
         /\ frame'.codec = codec'
         /\ frame' \in [slices : SUBSET (Au \X (1..Slices)), key : BOOLEAN,
                        codec : CodecPackets]
         /\ codec' \in CodecPackets
         /\ \E k \in keys : /\ codec' = <<k, k>>
                            /\ k <= Upcoming
                            /\ \A n \in keys : n > k => n > Upcoming
         /\ frame'.key \/ (streamPrimed /\ LastPicture = Upcoming - 1)
         /\ streamPrimed => LastPicture < Upcoming
<1>1. Joined /\ vclBuf # {}
  BY NothingBeforeJoined DEF Send, ToSend, NoSlices
<1>2. Upcoming \in Au /\ vclBuf = Part(Upcoming, Seen)
  BY <1>1 DEF RunInv, JoinedInv
<1>3. Seen \in 1..Slices
  <2>1. Seen \in 0..Slices
    BY DEF Seen, TypeOK
  <2>2. Seen # 0
    BY <1>1, <1>2, PartEmpty
  <2> QED
    BY <2>1, <2>2
<1>4. pendingKeyframe = (Upcoming \in keys)
  BY <1>1, <1>3 DEF RunInv, JoinedInv
<1>5. stage \in {"aud", "slices"}
  BY <1>3 DEF RunInv, StreamInv, Seen, TypeOK
<1>6. Upcoming \in keys => latestSps = Upcoming /\ latestPps = Upcoming
  BY <1>1, <1>5 DEF RunInv, JoinedInv
<1>7. frame' = [slices |-> vclBuf, key |-> pendingKeyframe, codec |-> codec']
  BY DEF Send
<1>8. ~codecSent
  BY DEF RunInv, StreamInv
<1>9. ~streamPrimed => Upcoming \in keys
  BY <1>1 DEF RunInv, UnprimedInv
<1>10. streamPrimed => SentBefore(Upcoming)
  BY DEF RunInv, PrimedInv
<1>11. /\ codec' \in CodecPackets
       /\ \E k \in keys : /\ codec' = <<k, k>>
                          /\ k <= Upcoming
                          /\ \A n \in keys : n > k => n > Upcoming
  <2>1. CASE Upcoming \in keys
    <3>1. codec' = <<Upcoming, Upcoming>>
      BY <1>4, <1>6, <1>8, <2>1 DEF Send
    <3> QED
      BY <1>2, <2>1, <3>1 DEF CodecPackets, Au
  <2>2. CASE Upcoming \notin keys
    <3>1. codec' = codec
      BY <1>4, <2>2 DEF Send
    <3>2. PICK k \in keys : /\ codec = <<k, k>>
                            /\ k <= LastPicture
                            /\ \A n \in keys : n > k => n >= Upcoming
      BY <1>9, <1>10, <2>2 DEF SentBefore
    <3>3. LastPicture \in Nat /\ LastPicture < Upcoming /\ Upcoming \in Nat
      BY <1>2, <1>9, <1>10, <2>2 DEF SentBefore, Au
    <3>4. \A n \in keys : n \in Nat
      BY DEF TypeOK
    <3>5. \A n \in keys : n >= Upcoming => n > Upcoming
      BY <2>2, <3>3, <3>4
    <3>6. k <= Upcoming
      BY <3>2, <3>3, <3>4
    <3> QED
      BY <3>1, <3>2, <3>5, <3>6 DEF TypeOK
  <2> QED
    BY <2>1, <2>2
<1>12. frame'.slices = Part(Upcoming, Seen) /\ LastPicture' = Upcoming
  <2>1. frame'.slices = vclBuf
    BY <1>7
  <2> QED
    BY <1>1, <1>2, <1>3, <2>1, PartPicture DEF LastPicture, NoSlices
<1>13. pendingKeyframe \/ (streamPrimed /\ LastPicture = Upcoming - 1)
  BY <1>4, <1>9, <1>10 DEF Send, ToSend, SentBefore
<1>14. streamPrimed => LastPicture < Upcoming
  BY <1>10 DEF SentBefore
<1>15. streamPrimed'
  BY <1>4, <1>9 DEF Send
<1> QED
  BY <1>1, <1>2, <1>3, <1>4, <1>7, <1>11, <1>12, <1>13, <1>14, <1>15 DEF TypeOK

-----------------------------------------------------------------------------
(***************************************************************************)
(* Steps of the loop.                                                      *)
(***************************************************************************)

(* Flushing, the types of what it changes.                                 *)
LEMMA FlushTypes ==
  ASSUME TypeOK, RunInv, NEW left \in SUBSET (Au \X (1..Slices)), NEW key \in BOOLEAN,
         Flush(left, key)
  PROVE  /\ vclBuf' \in SUBSET (Au \X (1..Slices)) /\ pendingKeyframe' \in BOOLEAN
         /\ codecSent' = FALSE /\ streamPrimed' \in BOOLEAN
         /\ frameCount' \in Nat /\ level' \in 0..3
         /\ codec' \in CodecPackets
         /\ frame' \in [slices : SUBSET (Au \X (1..Slices)), key : BOOLEAN,
                        codec : CodecPackets]
<1>1. CASE Discard(left, key)
  BY <1>1 DEF Discard, TypeOK, sent, RunInv, StreamInv
<1>2. CASE Send(left, key)
  <2>1. codec' \in CodecPackets
        /\ frame' \in [slices : SUBSET (Au \X (1..Slices)), key : BOOLEAN,
                       codec : CodecPackets]
    BY <1>2, SendsUpcoming
  <2>2. vclBuf' = left /\ pendingKeyframe' = key /\ codecSent' = FALSE
        /\ frameCount' = frameCount + 1 /\ level' \in 0..3
        /\ streamPrimed' = (streamPrimed \/ pendingKeyframe)
    BY <1>2 DEF Send, RecordSend
  <2>3. streamPrimed' \in BOOLEAN
    BY <2>2
  <2> QED
    BY <2>1, <2>2, <2>3 DEF TypeOK
<1> QED
  BY <1>1, <1>2 DEF Flush

(* The encoder's next slice, or the next picture's first units.            *)
LEMMA NextSliceTypes ==
  ASSUME TypeOK, RunInv, au <= MaxAu, NextSlice
  PROVE  /\ au' \in 1..(MaxAu + 1) /\ keys' \subseteq 1..(MaxAu + 1)
         /\ stage' \in {"aud", "sps", "pps", "slices"} /\ slice' \in 1..Slices
         /\ keys' \in {keys, keys \cup {au + 1}} /\ keys' \subseteq 1..au'
         /\ stage' # "slices" => slice' = 1
         /\ stage' # "aud" => au' <= MaxAu
         /\ stage' \in {"aud", "slices"}
         /\ Upcoming' = au /\ Seen' = slice
<1>1. au \in Nat /\ slice \in Nat /\ MaxAu \in Nat
  BY DEF TypeOK
<1>2. CASE slice < Slices /\ slice' = slice + 1 /\ stage' = "slices" /\ UNCHANGED <<au, keys>>
  BY <1>1, <1>2 DEF TypeOK, RunInv, StreamInv, Upcoming, Seen
<1>3. CASE slice = Slices /\ slice' = 1 /\ stage' = "aud" /\ au' = au + 1
           /\ keys' \in {keys, keys \cup {au + 1}}
  <2>1. keys \subseteq 1..au
    BY DEF RunInv, StreamInv
  <2>2. keys' \subseteq 1..(au + 1)
    BY <1>1, <1>3, <2>1
  <2> QED
    BY <1>1, <1>3, <2>2 DEF TypeOK, Upcoming, Seen
<1> QED
  BY <1>2, <1>3 DEF NextSlice

LEMMA TypeNext ==
  ASSUME TypeOK, status = "running" => RunInv, [Next]_vars
  PROVE  TypeOK'
<1>1. CASE Aud
  <2>1. RunInv /\ Flush(NoSlices, FALSE) /\ NoSlices \in SUBSET (Au \X (1..Slices))
    BY <1>1 DEF Aud, At, NoSlices
  <2> QED
    BY <1>1, <2>1, FlushTypes DEF Aud, TypeOK
<1>2. CASE Sps
  <2>1. RunInv /\ Flush(NoSlices, FALSE) /\ NoSlices \in SUBSET (Au \X (1..Slices))
    BY <1>2 DEF Sps, At, NoSlices
  <2>2. au \in Au
    BY <1>2 DEF Sps, At, TypeOK, Au
  <2> QED
    BY <1>2, <2>1, <2>2, FlushTypes DEF Sps, TypeOK
<1>3. CASE Pps
  BY <1>3 DEF Pps, At, TypeOK, Au, sent
<1>4. ASSUME NEW key \in BOOLEAN, NEW left \in SUBSET (Au \X (1..Slices)),
             status = "running", au <= MaxAu,
             Flush(left, key) \/ Assemble(left, key), NextSlice,
             UNCHANGED <<latestSps, latestPps, status>>
      PROVE  TypeOK'
  <2>1. CASE Flush(left, key)
    BY <1>4, <2>1, FlushTypes, NextSliceTypes DEF TypeOK
  <2>2. CASE Assemble(left, key)
    BY <1>4, <2>2, NextSliceTypes DEF Assemble, TypeOK, sent
  <2> QED
    BY <1>4, <2>1, <2>2
<1>5. CASE IdrSlice \/ NonIdrSlice
  <2>1. au <= MaxAu /\ status = "running" /\ NextSlice
        /\ UNCHANGED <<latestSps, latestPps, status>>
    BY <1>5 DEF IdrSlice, NonIdrSlice, At
  <2>2. /\ {<<au, slice>>} \in SUBSET (Au \X (1..Slices))
        /\ vclBuf \cup {<<au, slice>>} \in SUBSET (Au \X (1..Slices))
    BY <2>1 DEF TypeOK, Au
  <2> QED
    BY <1>4, <1>5, <2>1, <2>2 DEF IdrSlice, NonIdrSlice
<1>6. CASE Eof
  <2>1. RunInv /\ Flush(NoSlices, FALSE) /\ NoSlices \in SUBSET (Au \X (1..Slices))
    BY <1>6 DEF Eof, NoSlices
  <2> QED
    BY <1>6, <2>1, FlushTypes DEF Eof, TypeOK, stream
<1>7. CASE Leave
  BY <1>7 DEF Leave, TypeOK, stream, sent
<1>8. CASE UNCHANGED vars
  BY <1>8 DEF vars, TypeOK, stream, locals, sent
<1> QED
  BY <1>1, <1>2, <1>3, <1>5, <1>6, <1>7, <1>8 DEF Next

(* What was sent stays in order while nothing is sent or dropped.          *)
LEMMA StaysSent ==
  ASSUME TypeOK, StreamInv, NEW u \in 0..au, SentBefore(u),
         UNCHANGED <<codec, frame, frameCount, level>>,
         keys' \in {keys, keys \cup {au + 1}}
  PROVE  SentBefore(u)'
<1>1. LastPicture' = LastPicture /\ (ShouldDrop' <=> ShouldDrop)
  BY DEF LastPicture, ShouldDrop
<1>2. LastPicture \in Nat /\ LastPicture < au /\ au \in Nat
  BY DEF SentBefore, Au, TypeOK
<1>3. (LastPicture \in keys') = (LastPicture \in keys)
  BY <1>2
<1>4. PICK k \in keys : codec = <<k, k>> /\ k <= LastPicture /\ \A n \in keys : n > k => n >= u
  BY DEF SentBefore
<1>5. \A n \in keys' : n > k => n >= u
  BY <1>2, <1>4
<1> QED
  BY <1>1, <1>2, <1>3, <1>4, <1>5 DEF SentBefore

(* A flush between two pictures sends the older one, or drops it because   *)
(* congestion control will drop the next one, too.                         *)
LEMMA FlushBetween ==
  ASSUME TypeOK, RunInv, stage = "aud", Joined, NEW left, Flush(left, FALSE),
         keys' \in {keys, keys \cup {au + 1}}, NEW u, u = au
  PROVE  /\ streamPrimed' /\ ~pendingKeyframe' /\ vclBuf' = left /\ SentBefore(u)'
<1>1. /\ Upcoming = au - 1 /\ Upcoming \in Au /\ Seen = Slices
      /\ vclBuf = Part(Upcoming, Slices) /\ vclBuf # {}
      /\ pendingKeyframe = (Upcoming \in keys)
  BY PartNonEmpty DEF Upcoming, Seen, RunInv, JoinedInv
<1>2. Upcoming \in Nat /\ au \in Nat /\ Upcoming < au /\ u \in 0..au /\ au + 1 # Upcoming
  BY <1>1 DEF TypeOK, Au
<1>3. keys \subseteq Nat
  BY DEF TypeOK
<1>4. CASE Send(left, FALSE)
  <2>1. PICK k \in keys : /\ codec' = <<k, k>>
                          /\ k <= Upcoming
                          /\ \A n \in keys : n > k => n > Upcoming
    BY <1>4, SendsUpcoming
  <2>2. \A n \in keys' : n > k => n >= u
    BY <1>1, <1>2, <1>3, <2>1
  <2>3. (Upcoming \in keys') = (Upcoming \in keys)
    BY <1>2
  <2>4. /\ LastPicture' = Upcoming /\ frame'.slices = Part(Upcoming, Slices)
        /\ frame'.key = (Upcoming \in keys) /\ frame'.codec = codec' /\ streamPrimed'
    BY <1>1, <1>4, SendsUpcoming
  <2>5. SentBefore(u)'
    BY <1>1, <1>2, <2>1, <2>2, <2>3, <2>4 DEF SentBefore
  <2> QED
    BY <1>4, <2>4, <2>5 DEF Send
<1>5. CASE Discard(left, FALSE)
  <2>1. streamPrimed /\ ~pendingKeyframe /\ ShouldDrop
    <3>1. ~streamPrimed => Upcoming \in keys
      BY DEF RunInv, UnprimedInv
    <3>2. Upcoming \in keys => latestSps = Upcoming /\ latestPps = Upcoming
      BY DEF RunInv, JoinedInv
    <3>3. ~Unusable
      <4>1. Upcoming # 0
        BY <1>1 DEF Au
      <4>2. Upcoming \in keys => pendingKeyframe /\ latestSps # 0 /\ latestPps # 0
        BY <1>1, <3>2, <4>1
      <4> QED
        BY <3>1, <4>2 DEF Unusable
    <3>4. ~pendingKeyframe /\ ShouldDrop
      BY <1>1, <1>5, <3>3 DEF Discard, ToSend, NoSlices
    <3> QED
      BY <1>1, <3>1, <3>4
  <2>2. SentBefore(Upcoming) /\ Upcoming \notin keys
    BY <1>1, <2>1 DEF RunInv, PrimedInv
  <2>3. LastPicture \in Nat /\ LastPicture < au
    BY <1>2, <2>2 DEF SentBefore, Au
  <2>4. PICK k \in keys : /\ codec = <<k, k>>
                          /\ k <= LastPicture
                          /\ \A n \in keys : n > k => n >= Upcoming
    BY <2>2 DEF SentBefore
  <2>5. \A n \in keys : n > k => n >= u
    BY <1>1, <1>2, <1>3, <2>2, <2>4
  <2>6. SentBefore(u)
    BY <2>1, <2>2, <2>3, <2>4, <2>5 DEF SentBefore
  <2>7. /\ UNCHANGED <<codec, frame, frameCount, level, streamPrimed>>
        /\ vclBuf' = left /\ ~pendingKeyframe'
    BY <1>5, <2>1 DEF Discard, sent
  <2>8. SentBefore(u)'
    BY <1>2, <2>6, <2>7, StaysSent DEF RunInv
  <2> QED
    BY <2>1, <2>7, <2>8
<1> QED
  BY <1>4, <1>5 DEF Flush

(* A pass before the loop has joined the stream.                           *)
LEMMA PassUnjoined ==
  ASSUME TypeOK, RunInv, ~Joined, NEW left, NEW key,
         Flush(left, key) \/ Assemble(left, key)
  PROVE  /\ ~streamPrimed' /\ frame' = NoFrame /\ codec' = NoCodec /\ ~codecSent'
         /\ vclBuf' = left
<1>1. ~streamPrimed /\ ~ToSend
  BY NothingBeforeJoined
<1>2. Discard(left, key) \/ Assemble(left, key)
  BY <1>1 DEF Flush, Send
<1>3. frame = NoFrame /\ codec = NoCodec /\ ~codecSent
  BY <1>1 DEF RunInv, UnprimedInv, StreamInv
<1> QED
  BY <1>1, <1>2, <1>3 DEF Discard, Assemble, sent

(* A slice of the picture that comes next joins those before it.           *)
LEMMA SliceAdded ==
  ASSUME TypeOK, RunInv, Joined, au <= MaxAu, NextSlice,
         UNCHANGED <<latestSps, latestPps>>,
         vclBuf' = Part(au, slice), pendingKeyframe' = (au \in keys), ~codecSent',
         au \in keys => latestSps = au /\ latestPps = au,
         ~streamPrimed' => frame' = NoFrame /\ codec' = NoCodec /\ au \in keys,
         \A u : u = au => (streamPrimed' => SentBefore(u)')
  PROVE  RunInv'
<1>1. /\ keys' \in {keys, keys \cup {au + 1}} /\ keys' \subseteq 1..au'
      /\ stage' # "slices" => slice' = 1
      /\ stage' # "aud" => au' <= MaxAu
      /\ stage' \in {"aud", "slices"}
      /\ Upcoming' = au /\ Seen' = slice
  BY NextSliceTypes
<1>2. au \in Au /\ slice > 0 /\ au + 1 # au
  BY DEF TypeOK, Au
<1>3. (au \in keys') = (au \in keys)
  BY <1>1, <1>2
<1>4. StreamInv'
  BY <1>1 DEF StreamInv, IsKey
<1>5. latestSps \in keys'
  BY <1>1 DEF RunInv, JoinedInv
<1>6. JoinedInv'
  <2>1. Seen' > 0 /\ ~(Seen' = 0)
    BY <1>1, <1>2
  <2>2. pendingKeyframe' = (Upcoming' \in keys')
    BY <1>1, <1>3
  <2>3. Upcoming' \in Au /\ vclBuf' = Part(Upcoming', Seen')
    BY <1>1, <1>2
  <2>4. /\ Upcoming' \in keys' => latestSps' = Upcoming' /\ latestPps' = Upcoming'
        /\ latestSps' \in keys'
    BY <1>1, <1>3, <1>5
  <2>5. Part(Upcoming, Seen)' = Part(Upcoming', Seen')
    BY DEF Part
  <2> QED
    BY <2>1, <2>2, <2>3, <2>4, <2>5 DEF JoinedInv
<1>7. UnprimedInv'
  BY <1>1, <1>3 DEF UnprimedInv
<1>8. PrimedInv'
  BY <1>1 DEF PrimedInv, SentBefore, Joined
<1> QED
  BY <1>4, <1>6, <1>7, <1>8 DEF RunInv

LEMMA RunInvInit == Init => RunInv
<1> SUFFICES ASSUME Init
             PROVE  RunInv
  OBVIOUS
<1>1. ~Joined /\ ~streamPrimed /\ frame = NoFrame /\ codec = NoCodec
  BY DEF Init, Joined
<1>2. StreamInv
  <2>1. au = 1 /\ keys \in {{}, {1}} /\ ~codecSent
    BY DEF Init
  <2>2. keys \subseteq 1..au /\ au <= MaxAu
    BY <2>1
  <2>3. stage # "slices" => slice = 1
    BY DEF Init
  <2>4. stage \in {"sps", "pps"} => 1 \in keys
    BY DEF Init
  <2> QED
    BY <2>1, <2>2, <2>3, <2>4 DEF StreamInv, IsKey
<1> QED
  BY <1>1, <1>2 DEF RunInv, JoinedInv, UnprimedInv, PrimedInv

LEMMA TypeInit == Init => TypeOK
<1> SUFFICES ASSUME Init
             PROVE  TypeOK
  OBVIOUS
<1>1. au = 1 /\ keys \in {{}, {1}} /\ stage \in {"aud", "sps", "pps", "slices"}
  BY DEF Init
<1>2. slice \in 1..Slices
  BY DEF Init
<1>3. 1 \in 1..(MaxAu + 1) /\ keys \subseteq 1..(MaxAu + 1)
  BY <1>1
<1>4. codec \in CodecPackets /\ codec = NoCodec
  BY DEF Init, CodecPackets
<1>5. frame \in [slices : SUBSET (Au \X (1..Slices)), key : BOOLEAN, codec : CodecPackets]
  <2>1. frame = [slices |-> {}, key |-> FALSE, codec |-> NoCodec]
    BY DEF Init, NoFrame, NoSlices
  <2> QED
    BY <1>4, <2>1
<1>6. pendingKeyframe \in BOOLEAN /\ codecSent \in BOOLEAN /\ streamPrimed \in BOOLEAN
  BY Zenon DEF Init
<1>7. /\ au \in 1..(MaxAu + 1) /\ vclBuf \subseteq Au \X (1..Slices)
      /\ latestSps \in Au \cup {0} /\ latestPps \in Au \cup {0}
      /\ frameCount \in Nat /\ level \in 0..3
      /\ status \in {"running", "eof", "stopped", "failed"}
  <2>1. vclBuf = {} /\ latestSps = 0 /\ latestPps = 0 /\ frameCount = 0 /\ level = 0
        /\ status = "running"
    BY DEF Init, NoSlices
  <2> QED
    BY <1>1, <1>3, <2>1
<1> QED
  BY <1>1, <1>2, <1>3, <1>4, <1>5, <1>6, <1>7, Zenon DEF TypeOK

(* One step per kind of unit.                                              *)
LEMMA RunInvNext ==
  ASSUME TypeOK, RunInv, status = "running", Next, status' = "running"
  PROVE  RunInv'
<1>0. \A u : u = au => /\ (UNCHANGED <<codec, frame, frameCount, level>>
                           /\ keys' \in {keys, keys \cup {au + 1}} /\ SentBefore(u)
                           => SentBefore(u)')
  BY StaysSent DEF RunInv, TypeOK
<1>1. CASE (Aud \/ Sps) /\ stage = "aud"
  <2>1. /\ au <= MaxAu /\ Flush(NoSlices, FALSE) /\ UNCHANGED <<au, keys, slice>>
        /\ keys \subseteq 1..au /\ slice = 1
        /\ stage' \in {"sps", "pps", "slices"}
        /\ stage' \in {"sps", "pps"} => au \in keys
        /\ stage' # "pps" => latestSps' = latestSps
        /\ stage' = "pps" => latestSps' = au
        /\ stage' = "slices" => au \notin keys
    BY <1>1 DEF Aud, Sps, At, IsKey, RunInv, StreamInv
  <2>2. Upcoming' = au /\ Seen' = 0 /\ au \in Au /\ vclBuf' = Part(Upcoming, Seen)'
    <3>1. vclBuf' = {}
      BY <2>1 DEF Flush, Discard, Send, NoSlices
    <3>2. Upcoming' = au /\ Seen' = 0 /\ au \in Au
      BY <2>1 DEF Upcoming, Seen, Au, TypeOK
    <3> QED
      BY <3>1, <3>2, PartEmpty DEF Part
  <2>3. CASE Joined
    <3>1. /\ streamPrimed' /\ ~pendingKeyframe' /\ ~codecSent'
          /\ \A u : u = au => SentBefore(u)'
      <4>1. keys' \in {keys, keys \cup {au + 1}}
        BY <2>1
      <4>2. ~codecSent'
        BY <2>1 DEF Flush, Discard, Send, RunInv, StreamInv
      <4> QED
        BY <1>1, <2>1, <2>3, <4>1, <4>2, FlushBetween
    <3>2. StreamInv'
      BY <2>1, <3>1 DEF StreamInv, IsKey
    <3>3. latestSps' \in keys
      BY <2>1, <2>3 DEF RunInv, JoinedInv
    <3>4. JoinedInv'
      BY <2>1, <2>2, <3>1, <3>3 DEF JoinedInv, Joined, IsKey
    <3>5. latestSps' # 0
      BY <2>1, <3>3
    <3>6. PrimedInv'
      BY <2>2, <3>1, <3>5 DEF PrimedInv, SentBefore, Joined
    <3> QED
      BY <3>1, <3>2, <3>4, <3>6 DEF RunInv, UnprimedInv
  <2>4. CASE ~Joined
    <3>1. ~streamPrimed' /\ frame' = NoFrame /\ codec' = NoCodec /\ ~codecSent'
      BY <2>1, <2>4, PassUnjoined
    <3>2. StreamInv'
      BY <2>1, <3>1 DEF StreamInv, IsKey
    <3>3. Joined' => stage' = "pps" /\ latestSps' = au /\ au \in keys
      BY <2>1, <2>4 DEF Joined
    <3>4. JoinedInv'
      BY <2>1, <2>2, <3>3 DEF JoinedInv, IsKey
    <3> QED
      BY <2>1, <2>2, <3>1, <3>2, <3>3, <3>4 DEF RunInv, UnprimedInv, PrimedInv
  <2> QED
    BY <2>3, <2>4
<1>2. CASE Sps /\ stage = "sps"
  <2>1. /\ au <= MaxAu /\ Flush(NoSlices, FALSE) /\ UNCHANGED <<au, keys, slice>>
        /\ keys \subseteq 1..au /\ slice = 1 /\ au \in keys /\ au # 0
        /\ stage' = "pps" /\ latestSps' = au
    <3>1. au # 0
      BY DEF TypeOK
    <3>2. keys \subseteq 1..au /\ slice = 1
      BY <1>2 DEF RunInv, StreamInv
    <3> QED
      BY <1>2, <3>1, <3>2 DEF Sps, At, IsKey
  <2>2. Upcoming' = au /\ Seen' = 0 /\ au \in Au /\ vclBuf' = Part(Upcoming, Seen)'
        /\ Upcoming = au /\ Seen = 0
    <3>1. vclBuf' = {}
      BY <2>1 DEF Flush, Discard, Send, NoSlices
    <3>2. Upcoming' = au /\ Seen' = 0 /\ au \in Au /\ Upcoming = au /\ Seen = 0
      BY <1>2, <2>1 DEF Upcoming, Seen, Au, TypeOK
    <3> QED
      BY <3>1, <3>2, PartEmpty DEF Part
  <2>3. JoinedInv'
    BY <2>1, <2>2 DEF JoinedInv, IsKey
  <2>4. CASE Joined
    <3>1. vclBuf = {}
      BY <2>2, <2>4, PartEmpty DEF RunInv, JoinedInv
    <3>2. Discard(NoSlices, FALSE)
      BY <2>1, <3>1 DEF Flush, Send, ToSend, NoSlices
    <3>3. streamPrimed /\ SentBefore(au)
      BY <1>2, <2>2, <2>4 DEF RunInv, UnprimedInv, PrimedInv
    <3>4. streamPrimed' /\ ~codecSent' /\ \A u : u = au => SentBefore(u)'
      BY <1>0, <2>1, <3>2, <3>3 DEF Discard, sent, RunInv, StreamInv
    <3>5. PrimedInv'
      BY <2>1, <2>2, <3>4 DEF PrimedInv, SentBefore, Joined
    <3>6. StreamInv'
      BY <2>1, <3>4 DEF StreamInv, IsKey
    <3> QED
      BY <2>3, <3>4, <3>5, <3>6 DEF RunInv, UnprimedInv
  <2>5. CASE ~Joined
    <3>1. ~streamPrimed' /\ frame' = NoFrame /\ codec' = NoCodec /\ ~codecSent'
      BY <2>1, <2>5, PassUnjoined
    <3>2. StreamInv'
      BY <2>1, <3>1 DEF StreamInv, IsKey
    <3> QED
      BY <2>1, <2>2, <2>3, <3>1, <3>2 DEF RunInv, UnprimedInv, PrimedInv
  <2> QED
    BY <2>4, <2>5
<1>3. CASE Pps
  <2>1. /\ stage = "pps" /\ stage' = "slices" /\ latestPps' = au /\ slice = 1 /\ au \in keys
        /\ au <= MaxAu /\ ~codecSent
        /\ UNCHANGED <<au, keys, slice, latestSps, vclBuf, pendingKeyframe, codecSent,
                       streamPrimed, frameCount, level, codec, frame>>
    BY <1>3 DEF Pps, At, sent, RunInv, StreamInv, IsKey
  <2>2. Upcoming' = au /\ Upcoming = au /\ Seen' = 0 /\ Seen = 0
        /\ (Joined' <=> Joined) /\ Part(Upcoming, Seen)' = Part(Upcoming, Seen)
    BY <2>1 DEF Upcoming, Seen, Joined, Part
  <2>3. StreamInv'
    BY <2>1 DEF StreamInv, IsKey, RunInv
  <2>4. JoinedInv'
    BY <2>1, <2>2 DEF JoinedInv, IsKey, RunInv
  <2>5. UnprimedInv'
    BY <2>1, <2>2 DEF UnprimedInv, RunInv
  <2>6. PrimedInv'
    BY <1>0, <2>1, <2>2 DEF PrimedInv, SentBefore, RunInv, LastPicture, ShouldDrop
  <2> QED
    BY <2>3, <2>4, <2>5, <2>6 DEF RunInv
<1>4. ASSUME ~Joined, IdrSlice \/ NonIdrSlice
      PROVE  RunInv'
  <2>1. /\ au <= MaxAu /\ NextSlice /\ UNCHANGED <<latestSps, latestPps>>
        /\ \E left, key : Flush(left, key) \/ Assemble(left, key)
    BY <1>4 DEF IdrSlice, NonIdrSlice, At
  <2>2. ~streamPrimed' /\ frame' = NoFrame /\ codec' = NoCodec /\ ~codecSent' /\ ~Joined'
    BY <1>4, <2>1, PassUnjoined DEF Joined
  <2>3. StreamInv'
    BY <2>1, <2>2, NextSliceTypes DEF StreamInv, IsKey
  <2> QED
    BY <2>2, <2>3 DEF RunInv, JoinedInv, UnprimedInv, PrimedInv
<1>5. ASSUME Joined, stage = "slices", IdrSlice \/ NonIdrSlice
      PROVE  RunInv'
  <2>1. /\ Upcoming = au /\ Seen = slice - 1 /\ slice \in Nat \ {0}
        /\ vclBuf = Part(au, slice - 1) /\ keys' \in {keys, keys \cup {au + 1}}
    <3>1. Upcoming = au /\ Seen = slice - 1
      BY <1>5 DEF Upcoming, Seen
    <3>2. vclBuf = Part(au, slice - 1)
      BY <1>5, <3>1 DEF RunInv, JoinedInv
    <3>3. keys' \in {keys, keys \cup {au + 1}}
      BY <1>5 DEF IdrSlice, NonIdrSlice, NextSlice
    <3> QED
      BY <3>1, <3>2, <3>3 DEF TypeOK
  <2>2. slice = 1 => vclBuf = {}
    BY <2>1, PartEmpty
  <2>3. slice # 1 => pendingKeyframe = (au \in keys)
    BY <1>5, <2>1 DEF RunInv, JoinedInv
  <2>4. slice = 1 /\ pendingKeyframe => au \in keys
    BY <1>5, <2>1 DEF RunInv, JoinedInv, IsKey
  <2>5. /\ vclBuf' = vclBuf \cup {<<au, slice>>}
        /\ pendingKeyframe' = (au \in keys)
        /\ UNCHANGED <<codecSent, streamPrimed, frameCount, level, codec, frame>>
    <3>1. CASE IdrSlice
      BY <2>2, <2>3, <3>1 DEF IdrSlice, IsKey, Assemble, sent, NoSlices
    <3>2. CASE NonIdrSlice
      <4>1. au \notin keys
        BY <3>2 DEF NonIdrSlice, IsKey
      <4>2. ~pendingKeyframe /\ (slice = 1 => vclBuf = NoSlices)
        BY <2>2, <2>3, <2>4, <4>1 DEF NoSlices
      <4>3. Assemble(vclBuf \cup {<<au, slice>>}, FALSE)
        BY <3>2, <4>2 DEF NonIdrSlice
      <4>4. pendingKeyframe' = FALSE
        BY <4>2, <4>3 DEF Assemble
      <4>5. (au \in keys) = FALSE
        BY <4>1
      <4>6. pendingKeyframe' = (au \in keys)
        BY <4>4, <4>5, Zenon
      <4> QED
        BY <4>3, <4>6 DEF Assemble, sent
    <3> QED
      BY <1>5, <3>1, <3>2
  <2>6. vclBuf' = Part(au, slice)
    BY <2>1, <2>5, PartNext
  <2>7. au \in keys => latestSps = au /\ latestPps = au
    BY <1>5, <2>1 DEF RunInv, JoinedInv
  <2>8. streamPrimed => SentBefore(au)
    BY <2>1 DEF RunInv, PrimedInv
  <2>9. \A u : u = au => (streamPrimed' => SentBefore(u)')
    BY <1>0, <2>1, <2>5, <2>8
  <2>10. ~streamPrimed => frame = NoFrame /\ codec = NoCodec /\ au \in keys
    BY <1>5, <2>1 DEF RunInv, UnprimedInv
  <2>11. /\ au <= MaxAu /\ NextSlice /\ UNCHANGED <<latestSps, latestPps>> /\ ~codecSent
    BY <1>5 DEF IdrSlice, NonIdrSlice, At, RunInv, StreamInv
  <2> QED
    BY <1>5, <2>5, <2>6, <2>7, <2>9, <2>10, <2>11, SliceAdded
<1>6. ASSUME Joined, stage = "aud", NonIdrSlice
      PROVE  RunInv'
  <2>1. /\ au <= MaxAu /\ NextSlice /\ UNCHANGED <<latestSps, latestPps>>
        /\ au \notin keys /\ slice = 1 /\ keys' \in {keys, keys \cup {au + 1}}
    BY <1>6 DEF NonIdrSlice, At, IsKey, RunInv, StreamInv, NextSlice
  <2>2. vclBuf # {}
    BY <1>6, PartNonEmpty DEF RunInv, JoinedInv, Upcoming, Seen
  <2>3. Flush({<<au, slice>>}, FALSE)
    BY <1>6, <2>1, <2>2 DEF NonIdrSlice, NoSlices
  <2>4. /\ streamPrimed' /\ ~pendingKeyframe' /\ vclBuf' = Part(au, slice)
        /\ \A u : u = au => SentBefore(u)'
    BY <1>6, <2>1, <2>3, FlushBetween, PartFirst
  <2>5. ~codecSent'
    BY <2>3 DEF Flush, Discard, Send, RunInv, StreamInv
  <2>6. pendingKeyframe' = FALSE
    BY <2>3, <2>4 DEF Flush, Discard, Send
  <2>7. pendingKeyframe' = (au \in keys)
    <3>1. (au \in keys) = FALSE
      BY <2>1
    <3> QED
      BY <2>6, <3>1, Zenon
  <2> QED
    BY <1>6, <2>1, <2>4, <2>5, <2>7, SliceAdded
<1> QED
  BY <1>1, <1>2, <1>3, <1>4, <1>5, <1>6
     DEF Next, Aud, Sps, IdrSlice, NonIdrSlice, At, Eof, Leave

-----------------------------------------------------------------------------
(***************************************************************************)
(* The invariant of the running loop implies what is promised, and the     *)
(* ways out of the loop keep it.                                           *)
(***************************************************************************)

LEMMA RunPromises == ASSUME TypeOK, RunInv PROVE Promises
<1>1. ~streamPrimed => frame.slices = NoSlices /\ LastPicture = 0
  BY DEF RunInv, UnprimedInv, NoFrame, LastPicture
<1>2. streamPrimed => Joined /\ SentBefore(Upcoming)
  BY DEF RunInv, PrimedInv
<1>3. Slices \in 1..Slices
  OBVIOUS
<1>4. WholeFrames
  <2>1. CASE streamPrimed
    <3>1. LastPicture \in Au /\ frame.slices = {LastPicture} \X (1..Slices)
      BY <1>2, <2>1 DEF SentBefore, Part
    <3> QED
      BY <1>3, <3>1 DEF WholeFrames
  <2> QED
    BY <1>1, <2>1 DEF WholeFrames
<1>5. ParameterSetsMatch
  <2>1. CASE streamPrimed
    <3>1. LastPicture \in Nat /\ LastPicture < Upcoming /\ Upcoming \in Nat
          /\ frame.key = (LastPicture \in keys) /\ frame.codec = codec
      BY <1>2, <2>1 DEF SentBefore, Au, Upcoming, TypeOK
    <3>2. PICK k \in keys : /\ codec = <<k, k>>
                            /\ k <= LastPicture
                            /\ \A n \in keys : n > k => n >= Upcoming
      BY <1>2, <2>1 DEF SentBefore
    <3>3. \A n \in keys : n > k => n > LastPicture
      BY <3>1, <3>2 DEF TypeOK
    <3> QED
      BY <3>1, <3>2, <3>3 DEF ParameterSetsMatch
  <2> QED
    BY <1>1, <2>1 DEF ParameterSetsMatch
<1>6. EveryKeyframeIsSent
  <2> SUFFICES ASSUME latestSps = latestPps, latestSps \in 1..(au - 1),
                      \A s \in vclBuf : s[1] # latestSps
               PROVE  LastPicture >= latestSps
    BY DEF EveryKeyframeIsSent
  <2>1. Joined /\ latestSps \in keys /\ latestSps \in Nat /\ au \in Nat
    BY DEF Joined, RunInv, JoinedInv, TypeOK
  <2>2. stage = "aud" => Upcoming # latestSps
    <3> SUFFICES ASSUME stage = "aud"
                 PROVE  Upcoming # latestSps
      OBVIOUS
    <3>1. vclBuf = Part(Upcoming, Slices)
      BY <2>1 DEF RunInv, JoinedInv, Seen
    <3>2. <<Upcoming, 1>> \in vclBuf
      BY <3>1 DEF Part
    <3> QED
      BY <3>2
  <2>3. latestSps < Upcoming
    <3>1. CASE stage = "aud"
      <4>1. Upcoming = au - 1
        BY <3>1 DEF Upcoming
      <4> QED
        BY <2>1, <2>2, <3>1, <4>1
    <3>2. CASE stage # "aud"
      <4>1. Upcoming = au
        BY <3>2 DEF Upcoming
      <4> QED
        BY <2>1, <4>1
    <3> QED
      BY <3>1, <3>2
  <2>4. streamPrimed
    <3> SUFFICES ASSUME ~streamPrimed
                 PROVE  FALSE
      OBVIOUS
    <3>1. Upcoming \in keys /\ stage # "sps"
      BY <2>1 DEF RunInv, UnprimedInv
    <3>2. latestSps = Upcoming
      BY <2>1, <3>1 DEF RunInv, JoinedInv
    <3> QED
      BY <2>1, <2>3, <3>2
  <2>5. PICK k \in keys : /\ k <= LastPicture
                          /\ \A n \in keys : n > k => n >= Upcoming
    BY <1>2, <2>4 DEF SentBefore
  <2>6. LastPicture \in Nat /\ k \in Nat /\ Upcoming \in Nat
    BY <1>2, <2>4 DEF SentBefore, Au, Upcoming, TypeOK
  <2>7. ~(latestSps > k)
    BY <2>1, <2>3, <2>5, <2>6
  <2> QED
    BY <2>1, <2>5, <2>6, <2>7
<1> QED
  BY <1>4, <1>5, <1>6 DEF Promises

(* Whatever was promised stays so while nothing is sent or assembled.      *)
LEMMA PromisesStay ==
  ASSUME Promises, UNCHANGED <<au, keys, latestSps, latestPps, vclBuf, frame>>,
         status = "running"
  PROVE  Promises'
<1>1. LastPicture' = LastPicture
  BY DEF LastPicture
<1>2. ParameterSetsMatch' /\ EveryKeyframeIsSent'
  BY <1>1 DEF Promises, ParameterSetsMatch, EveryKeyframeIsSent
<1>3. status # "eof" \/ status' = "eof"
  OBVIOUS
<1>4. WholeFrames'
  BY <1>3 DEF Promises, WholeFrames
<1> QED
  BY <1>2, <1>4 DEF Promises

(* The flush at the end of the stream.                                     *)
LEMMA PromisesAtEof ==
  ASSUME TypeOK, RunInv, status = "running", Eof
  PROVE  Promises'
<1>1. /\ Flush(NoSlices, FALSE) /\ status' = "eof"
      /\ UNCHANGED <<au, keys, latestSps, latestPps>>
  BY DEF Eof, stream
<1>2. Promises
  BY RunPromises
<1>3. au \in Nat /\ keys \subseteq Nat
  BY DEF TypeOK
<1>4. CASE Discard(NoSlices, FALSE)
  <2>1. frame' = frame /\ LastPicture' = LastPicture /\ ~ToSend
    BY <1>4 DEF Discard, sent, LastPicture
  <2>2. ParameterSetsMatch' /\ WholeFrames'
    BY <1>1, <1>2, <2>1 DEF Promises, ParameterSetsMatch, WholeFrames
  <2>3. ASSUME latestSps = latestPps, latestSps \in 1..(au - 1)
        PROVE  \A s \in vclBuf : s[1] # latestSps
    <3> SUFFICES ASSUME NEW s \in vclBuf, s[1] = latestSps
                 PROVE  FALSE
      OBVIOUS
    <3>1. latestSps # 0 /\ latestPps # 0
      BY <2>3
    <3>2. vclBuf = Part(Upcoming, Seen) /\ latestSps \in keys
      BY <3>1 DEF RunInv, JoinedInv, Joined
    <3>3. Upcoming = latestSps /\ Seen > 0
      BY <3>2 DEF Part, Seen, TypeOK
    <3>4. pendingKeyframe = (Upcoming \in keys)
      BY <3>1, <3>3 DEF RunInv, JoinedInv, Joined
    <3>5. vclBuf # NoSlices
      BY DEF NoSlices
    <3> QED
      BY <2>1, <3>1, <3>2, <3>3, <3>4, <3>5 DEF ToSend, Unusable
  <2>4. EveryKeyframeIsSent'
    BY <1>1, <1>2, <2>1, <2>3 DEF Promises, EveryKeyframeIsSent
  <2> QED
    BY <2>2, <2>4 DEF Promises
<1>5. CASE Send(NoSlices, FALSE)
  <2>1. /\ Upcoming \in Au /\ Seen \in 1..Slices
        /\ frame'.slices = Part(Upcoming, Seen) /\ LastPicture' = Upcoming
        /\ frame'.key = (Upcoming \in keys)
        /\ \E k \in keys : /\ frame'.codec = <<k, k>>
                           /\ k <= Upcoming
                           /\ \A n \in keys : n > k => n > Upcoming
    BY <1>5, SendsUpcoming
  <2>2. WholeFrames'
    BY <1>1, <2>1 DEF WholeFrames, Part
  <2>3. ParameterSetsMatch'
    BY <1>1, <2>1 DEF ParameterSetsMatch
  <2>4. Upcoming >= au - 1
    BY <1>3 DEF Upcoming
  <2>5. EveryKeyframeIsSent'
    BY <1>1, <1>3, <2>1, <2>4 DEF EveryKeyframeIsSent, Au
  <2> QED
    BY <2>2, <2>3, <2>5 DEF Promises
<1> QED
  BY <1>1, <1>4, <1>5 DEF Flush

LEMMA InvNext == IInv /\ [Next]_vars => IInv'
<1> SUFFICES ASSUME IInv, [Next]_vars
             PROVE  IInv'
  OBVIOUS
<1>1. TypeOK'
  BY TypeNext DEF IInv
<1>2. CASE UNCHANGED vars
  <2>1. status' = status
    BY <1>2 DEF vars, locals
  <2>2. RunInv => RunInv'
    BY <1>2 DEF vars, stream, locals, sent, RunInv, StreamInv, JoinedInv, UnprimedInv,
                PrimedInv, SentBefore, Joined, Upcoming, Seen, IsKey, LastPicture, ShouldDrop,
                Part
  <2>3. Promises => Promises'
    BY <1>2 DEF vars, stream, locals, sent, Promises, WholeFrames, ParameterSetsMatch,
                EveryKeyframeIsSent, LastPicture
  <2> QED
    BY <1>1, <2>1, <2>2, <2>3 DEF IInv
<1>3. CASE Next
  <2>1. status = "running" /\ TypeOK /\ RunInv
    BY <1>3 DEF Next, Aud, Sps, Pps, IdrSlice, NonIdrSlice, Eof, Leave, At, IInv
  <2>2. CASE status' = "running"
    BY <1>1, <1>3, <2>1, <2>2, RunInvNext DEF IInv
  <2>3. CASE status' # "running"
    <3>1. Eof \/ Leave
      BY <1>3, <2>1, <2>3 DEF Next, Aud, Sps, Pps, IdrSlice, NonIdrSlice
    <3>2. Promises'
      <4>1. CASE Leave
        BY <2>1, <2>3, <4>1, RunPromises, PromisesStay DEF Leave, stream, sent
      <4> QED
        BY <2>1, <3>1, <4>1, PromisesAtEof
    <3> QED
      BY <1>1, <2>3, <3>2 DEF IInv
  <2> QED
    BY <2>2, <2>3
<1> QED
  BY <1>2, <1>3

-----------------------------------------------------------------------------
(***************************************************************************)
(* The theorems.                                                           *)
(***************************************************************************)

(* The invariant holds of every behaviour of the send loop.                *)
THEOREM Invariance == Spec => []IInv
<1>1. Init => IInv
  BY TypeInit, RunInvInit DEF IInv, Init
<1> QED
  BY <1>1, InvNext, PTL DEF Spec

(* Every variable of the loop keeps its type.                              *)
THEOREM TypeCorrect == Spec => []TypeOK
<1>1. IInv => TypeOK
  BY DEF IInv
<1> QED
  BY <1>1, Invariance, PTL

LEMMA InvPromises == IInv => Promises
BY RunPromises DEF IInv

(* However many slices a picture has and wherever the mirror joins, what   *)
(* is sent as a frame is one picture, whole but for the stream's last.     *)
THEOREM FramesWhole == Spec => []WholeFrames
<1>1. IInv => WholeFrames
  BY InvPromises DEF Promises
<1> QED
  BY <1>1, Invariance, PTL

(* The receiver has the newest keyframe's parameter sets before each frame *)
(* that needs them.                                                        *)
THEOREM ParametersMatch == Spec => []ParameterSetsMatch
<1>1. IInv => ParameterSetsMatch
  BY InvPromises DEF Promises
<1> QED
  BY <1>1, Invariance, PTL

(* Congestion control never drops a keyframe.                              *)
THEOREM KeyframesSent == Spec => []EveryKeyframeIsSent
<1>1. IInv => EveryKeyframeIsSent
  BY InvPromises DEF Promises
<1> QED
  BY <1>1, Invariance, PTL

LEMMA DecoderInit == Init => Decoder!Init
BY DEF Init, NoFrame, LastPicture, Decoder!Init

LEMMA DecoderStep == IInv /\ [Next]_vars => [Decoder!Key \/ Decoder!Delta]_(Decoder!vars)
<1> SUFFICES ASSUME IInv, [Next]_vars
             PROVE  [Decoder!Key \/ Decoder!Delta]_(Decoder!vars)
  OBVIOUS
<1>1. CASE frame' = frame
  <2>1. LastPicture' = LastPicture /\ (frame.key)' = frame.key
    BY <1>1 DEF LastPicture
  <2> QED
    BY <2>1 DEF Decoder!vars
<1>2. CASE frame' # frame
  <2>1. Next
    BY <1>2 DEF vars, sent
  <2>2. TypeOK /\ RunInv
    BY <2>1 DEF Next, Aud, Sps, Pps, IdrSlice, NonIdrSlice, Eof, Leave, At, IInv
  <2>3. PICK left, key : Send(left, key)
    <3>1. \E left, key : Flush(left, key)
      BY <1>2, <2>1 DEF Next, Aud, Sps, Pps, IdrSlice, NonIdrSlice, Eof, Leave, Assemble, sent
    <3>2. \A left, key : ~Discard(left, key)
      BY <1>2 DEF Discard, sent
    <3> QED
      BY <3>1, <3>2 DEF Flush
  <2>4. /\ Upcoming \in Au /\ LastPicture' = Upcoming
        /\ frame'.key = (Upcoming \in keys)
        /\ frame'.key \/ (streamPrimed /\ LastPicture = Upcoming - 1)
        /\ streamPrimed => LastPicture < Upcoming
    BY <2>2, <2>3, SendsUpcoming
  <2>5. ~streamPrimed => LastPicture = 0
    BY <2>2 DEF RunInv, UnprimedInv, NoFrame, LastPicture
  <2>6. streamPrimed => LastPicture \in Au
    BY <2>2 DEF RunInv, PrimedInv, SentBefore
  <2>7. CASE Upcoming \in keys
    <3>1. frame'.key = TRUE
      BY <2>4, <2>7
    <3>2. LastPicture' \in Nat /\ LastPicture' > LastPicture
      BY <2>4, <2>5 DEF Au
    <3> QED
      BY <3>1, <3>2 DEF Decoder!Key
  <2>8. CASE Upcoming \notin keys
    <3>1. frame'.key = FALSE
      <4>1. (Upcoming \in keys) = FALSE
        BY <2>8
      <4> QED
        BY <2>4, <4>1, Zenon
    <3>2. LastPicture > 0 /\ LastPicture' = LastPicture + 1
      BY <2>4, <2>6, <3>1 DEF Au
    <3> QED
      BY <3>1, <3>2 DEF Decoder!Delta
  <2> QED
    BY <2>7, <2>8
<1> QED
  BY <1>1, <1>2

(* The send loop implements the feed a decoder needs, whatever congestion  *)
(* control drops.                                                          *)
THEOREM ImplementsDecoderFeed == Spec => IsDecoderFeed
<1> QED
  BY DecoderInit, DecoderStep, Invariance, PTL DEF Spec, IsDecoderFeed, Decoder!Spec
=============================================================================
