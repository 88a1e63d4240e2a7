---------------------------- MODULE StreamFrames ----------------------------
(***************************************************************************)
(* The send loop of a mirror (stream_frames in src/rust/airfry/src/         *)
(* mirror.rs): NAL units of the H.264 byte stream are assembled to frames, *)
(* frames are dropped when the network is congested, and the rest is sent. *)
(*                                                                         *)
(* Pictures (access units) are numbered from the one in which the mirror   *)
(* joined the stream.  A slice is a pair: its picture and its place in it. *)
(* A parameter set is named by the picture it precedes, 0 is none.  The    *)
(* parser hands a NAL unit over when the start code of the next one has    *)
(* arrived, so each action below is one pass of the loop over the units,   *)
(* and the last unit of the stream is never seen.  Contents, sizes, times  *)
(* and encryption are left out, so is the byte-level parser.  The encoder's *)
(* side is h264parse with config-interval=-1: parameter sets before every  *)
(* keyframe; access unit delimiters or not.                                *)
(*                                                                         *)
(* DiscardCounts and the like are wrong variants of the operator they      *)
(* stand before: put in its place, they make a property fail.              *)
(***************************************************************************)
EXTENDS Naturals

CONSTANTS
  Slices,  \* how many slices a picture has (x264's sliced-threads)
  MaxAu    \* the most pictures of a stream

ASSUME SlicesAssumption == Slices \in Nat \ {0}
ASSUME MaxAuAssumption == MaxAu \in Nat \ {0}

VARIABLES
  \* the stream, up to the unit that the loop is about to handle
  au,          \* the picture the unit belongs to
  keys,        \* the keyframes among the pictures so far
  stage,       \* the kind of units that come next
  slice,       \* the next slice of the picture
  \* the locals of stream_frames and of its CongestionController
  latestSps,
  latestPps,
  vclBuf,
  pendingKeyframe,
  codecSent,
  streamPrimed,
  frameCount,
  level,       \* 0 to 3: CongestionLevel None, Light, Medium, Heavy
  status,      \* how the loop ended, or "running"
  \* what was sent
  codec,       \* the parameter sets in the last codec packet
  frame        \* the last frame: its slices, its keyframe flag, and the
               \* codec packet that was the last one before it

stream == <<au, keys, stage, slice>>
sent   == <<codec, frame>>
locals == <<latestSps, latestPps, vclBuf, pendingKeyframe, codecSent, streamPrimed,
            frameCount, level, status>>
vars   == <<stream, locals, sent>>

Au == 1..MaxAu
NoSlices == {}
NoCodec == <<0, 0>>
NoFrame == [slices |-> NoSlices, key |-> FALSE, codec |-> NoCodec]

CodecPackets == (Au \X Au) \cup {NoCodec}

TypeOK ==
  /\ au \in 1..(MaxAu + 1)
  /\ keys \subseteq 1..(MaxAu + 1)
  /\ stage \in {"aud", "sps", "pps", "slices"}
  /\ slice \in 1..Slices
  /\ latestSps \in Au \cup {0} /\ latestPps \in Au \cup {0}
  /\ vclBuf \subseteq Au \X (1..Slices)
  /\ pendingKeyframe \in BOOLEAN /\ codecSent \in BOOLEAN /\ streamPrimed \in BOOLEAN
  /\ frameCount \in Nat
  /\ level \in 0..3
  /\ status \in {"running", "eof", "stopped", "failed"}
  /\ codec \in CodecPackets
  /\ frame \in [slices : SUBSET (Au \X (1..Slices)), key : BOOLEAN,
                codec : CodecPackets]

(* The stream is joined anywhere: a sink gets what the pump reads next,    *)
(* and a large picture takes the pump several reads.                       *)
Init ==
  /\ au = 1
  /\ keys \in {{}, {1}}
  /\ stage \in IF 1 \in keys THEN {"aud", "sps", "pps", "slices"} ELSE {"aud", "slices"}
  /\ slice \in IF stage = "slices" THEN 1..Slices ELSE {1}
  /\ latestSps = 0
  /\ latestPps = 0
  /\ vclBuf = NoSlices
  /\ pendingKeyframe = FALSE
  /\ codecSent = FALSE
  /\ streamPrimed = FALSE
  /\ frameCount = 0
  /\ level = 0
  /\ status = "running"
  /\ codec = NoCodec
  /\ frame = NoFrame

-----------------------------------------------------------------------------
(***************************************************************************)
(* flush_vcl.  Every pass that flushes goes on to something else: `left`   *)
(* is what vcl_buf holds after the pass, and `key` tells whether it sets   *)
(* pending_keyframe.                                                       *)
(***************************************************************************)

(* should_drop of the CongestionController.                                *)
ShouldDrop ==
  \/ level = 1 /\ frameCount % 3 = 0
  \/ level = 2 /\ frameCount % 2 = 0
  \/ level = 3

(* The stream cannot be shown from here: no keyframe, or none that comes   *)
(* with its parameter sets, was sent yet and this is none.                 *)
Unusable ==
  /\ ~streamPrimed
  /\ ~pendingKeyframe \/ latestSps = 0 \/ latestPps = 0

ToSend == vclBuf # NoSlices /\ ~Unusable /\ (pendingKeyframe \/ ~ShouldDrop)

DiscardCounts(left, key) ==
  /\ ~ToSend
  /\ vclBuf' = left
  /\ pendingKeyframe' = (key \/ pendingKeyframe)
  /\ frameCount' = IF vclBuf # NoSlices THEN frameCount + 1 ELSE frameCount
  /\ UNCHANGED <<codecSent, streamPrimed, level, sent>>

(* Nothing to send, or what there is is thrown away.                       *)
Discard(left, key) ==
  /\ ~ToSend
  /\ vclBuf' = left
  /\ pendingKeyframe' = (key \/ pendingKeyframe)
  /\ UNCHANGED <<codecSent, streamPrimed, frameCount, level, sent>>

(* record_send: an average of 0.3 of the new sample and 0.7 of the old one *)
(* can jump up to any level, but falls by one level at a time.             *)
RecordSend == level' \in {l \in 0..3 : frameCount = 0 \/ l + 1 >= level}

CodecOnce(left, key) ==
  /\ ToSend
  /\ codec' = IF pendingKeyframe /\ ~codecSent THEN <<latestSps, latestPps>> ELSE codec
  /\ streamPrimed' = (streamPrimed \/ pendingKeyframe)
  /\ frame' = [slices |-> vclBuf, key |-> pendingKeyframe, codec |-> codec']
  /\ RecordSend
  /\ vclBuf' = left
  /\ pendingKeyframe' = key
  /\ codecSent' = (codecSent \/ pendingKeyframe)
  /\ frameCount' = frameCount + 1

(* A codec packet goes before each keyframe (the first frame is one, and   *)
(* by then both parameter sets are there), and then the frame.             *)
Send(left, key) ==
  /\ ToSend
  /\ codec' = IF pendingKeyframe /\ ~codecSent THEN <<latestSps, latestPps>> ELSE codec
  /\ streamPrimed' = (streamPrimed \/ pendingKeyframe)
  /\ frame' = [slices |-> vclBuf, key |-> pendingKeyframe, codec |-> codec']
  /\ RecordSend
  /\ vclBuf' = left
  /\ pendingKeyframe' = key
  /\ codecSent' = FALSE
  /\ frameCount' = frameCount + 1

Flush(left, key) == Discard(left, key) \/ Send(left, key)

Assemble(left, key) ==
  /\ vclBuf' = left
  /\ pendingKeyframe' = (key \/ pendingKeyframe)
  /\ UNCHANGED <<codecSent, streamPrimed, frameCount, level, sent>>

-----------------------------------------------------------------------------
(***************************************************************************)
(* The arms of the loop.                                                   *)
(***************************************************************************)

At(st) == status = "running" /\ au <= MaxAu /\ stage = st

IsKey == au \in keys

(* An access unit delimiter.                                               *)
Aud ==
  /\ At("aud")
  /\ Flush(NoSlices, FALSE)
  /\ stage' = IF IsKey THEN "sps" ELSE "slices"
  /\ UNCHANGED <<au, keys, slice, latestSps, latestPps, status>>

Sps ==
  /\ At("aud") \/ At("sps")
  /\ IsKey
  /\ Flush(NoSlices, FALSE)
  /\ latestSps' = au
  /\ stage' = "pps"
  /\ UNCHANGED <<au, keys, slice, latestPps, status>>

Pps ==
  /\ At("pps")
  /\ latestPps' = au
  /\ stage' = "slices"
  /\ UNCHANGED <<au, keys, slice, latestSps, vclBuf, pendingKeyframe, codecSent,
                 streamPrimed, frameCount, level, status, sent>>

(* On to the next slice, or the next picture, a keyframe or not.           *)
NextSlice ==
  \/ /\ slice < Slices
     /\ slice' = slice + 1
     /\ stage' = "slices"
     /\ UNCHANGED <<au, keys>>
  \/ /\ slice = Slices
     /\ slice' = 1
     /\ stage' = "aud"
     /\ au' = au + 1
     /\ keys' \in {keys, keys \cup {au + 1}}

(* A slice of a keyframe.                                                  *)
IdrSlice ==
  /\ At("slices")
  /\ IsKey
  /\ IF vclBuf # NoSlices /\ (~pendingKeyframe \/ slice = 1)
       THEN Flush({<<au, slice>>}, TRUE)
       ELSE Assemble(vclBuf \cup {<<au, slice>>}, TRUE)
  /\ NextSlice
  /\ UNCHANGED <<latestSps, latestPps, status>>

NonIdrSliceEager ==
  /\ At("slices") \/ At("aud")
  /\ ~IsKey
  /\ IF vclBuf # NoSlices
       THEN Flush({<<au, slice>>}, FALSE)
       ELSE Assemble(vclBuf \cup {<<au, slice>>}, FALSE)
  /\ NextSlice
  /\ UNCHANGED <<latestSps, latestPps, status>>

(* A slice of any other picture.                                           *)
NonIdrSlice ==
  /\ At("slices") \/ At("aud")
  /\ ~IsKey
  /\ IF vclBuf # NoSlices /\ (pendingKeyframe \/ slice = 1)
       THEN Flush({<<au, slice>>}, FALSE)
       ELSE Assemble(vclBuf \cup {<<au, slice>>}, FALSE)
  /\ NextSlice
  /\ UNCHANGED <<latestSps, latestPps, status>>

(* A read returns 0: what is assembled is flushed, although the picture's  *)
(* last unit may still be in the parser.                                   *)
Eof ==
  /\ status = "running"
  /\ Flush(NoSlices, FALSE)
  /\ status' = "eof"
  /\ UNCHANGED <<stream, latestSps, latestPps>>

(* A read or a write fails, or the stop flag is seen.                      *)
Leave ==
  /\ status = "running"
  /\ status' \in {"stopped", "failed"}
  /\ UNCHANGED <<stream, latestSps, latestPps, vclBuf, pendingKeyframe, codecSent,
                 streamPrimed, frameCount, level, sent>>

Next == Aud \/ Sps \/ Pps \/ IdrSlice \/ NonIdrSlice \/ Eof \/ Leave

Spec == Init /\ [][Next]_vars

-----------------------------------------------------------------------------
(***************************************************************************)
(* Properties.                                                             *)
(***************************************************************************)

Picture(slices) == CHOOSE n \in Au : \E i \in 1..Slices : <<n, i>> \in slices

LastPicture == IF frame.slices = NoSlices THEN 0 ELSE Picture(frame.slices)

(* A frame is one whole picture: neither a part of one, nor two that ran   *)
(* together, wherever the mirror joined the stream.  Only the last frame   *)
(* before the end of the stream may lack the last slices of its picture.   *)
WholeFrames ==
  frame.slices # NoSlices =>
    \E n \in Au, m \in 1..Slices :
      frame.slices = {n} \X (1..m) /\ (m = Slices \/ status = "eof")

(* The receiver can interpret every frame: the last codec packet before it *)
(* held both parameter sets of the newest keyframe, and the header's flag  *)
(* says whether the frame is one.                                          *)
ParameterSetsMatch ==
  frame.slices # NoSlices =>
    /\ frame.key = (LastPicture \in keys)
    /\ \E k \in keys : /\ frame.codec = <<k, k>>
                       /\ k <= LastPicture
                       /\ \A n \in keys : n > k => n > LastPicture

(* Congestion never costs a keyframe: one that was seen from its parameter *)
(* sets on, and that is no longer being assembled, was sent.               *)
EveryKeyframeIsSent ==
  /\ latestSps = latestPps /\ latestSps \in 1..(au - 1)
  /\ \A s \in vclBuf : s[1] # latestSps
  => LastPicture >= latestSps

Decoder == INSTANCE DecoderFeed WITH picture <- LastPicture, key <- frame.key

(* What is sent can be decoded: it begins with a keyframe, and when a      *)
(* picture was dropped nothing is sent that refers to it, whatever the     *)
(* congestion does.                                                        *)
IsDecoderFeed == Decoder!Spec
=============================================================================
