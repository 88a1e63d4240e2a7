-------------------------------- MODULE Alac ---------------------------------
(***************************************************************************)
(* The verbatim ALAC frames of src/rust/airfry/src/audio.rs: BitWriter,    *)
(* which packs fields of any width into bytes, and encode_alac_verbatim,   *)
(* which writes a frame's header and its samples with it.                  *)
(***************************************************************************)
EXTENDS Naturals, Sequences

CONSTANTS
  SizeBits,    \* the width of numSamples: 32 in the code, less for TLC's integers
  Bytes,       \* the bytes that PCM is made of
  FrameSizes   \* the samples of a frame

(* 2^n, for the shifts of a u32.                                           *)
Pow2(n) ==
  IF n = 31 THEN 2 * 1073741824
  ELSE << 1, 2, 4, 8, 16, 32, 64, 128, 256, 512, 1024, 2048, 4096, 8192, 16384,
          32768, 65536, 131072, 262144, 524288, 1048576, 2097152, 4194304,
          8388608, 16777216, 33554432, 67108864, 134217728, 268435456,
          536870912, 1073741824 >>[n + 1]

(* What a field of n bits can hold.                                        *)
FitsIn(value, n) == value \div Pow2(n - 1) <= 1

ASSUME SizeBitsAssumption == SizeBits \in 1..32
ASSUME BytesAssumption == Bytes \subseteq 0..255
ASSUME FrameSizesAssumption ==
         FrameSizes \subseteq Nat /\ \A n \in FrameSizes : FitsIn(n, SizeBits)

(* BitWriter: the bytes that are full, and the one that is being filled.   *)
NewWriter == [buf |-> <<>>, bitBuf |-> 0, bitPos |-> 0]

NextByte(w, byte) == [buf |-> Append(w.buf, byte), bitBuf |-> 0, bitPos |-> 0]

(* One pass of the loop in BitWriter::write, over the low nbits of val,    *)
(* the highest first: they fit in the byte that is being filled, or some   *)
(* of them fill it and the rest is for the next pass.  (The bits that are  *)
(* or'ed into bitBuf are zero there: + is |.)                              *)
Fits(s) ==
  LET w     == s.writer
      space == 8 - w.bitPos
      byte  == w.bitBuf + (s.val % Pow2(s.nbits)) * Pow2(space - s.nbits)
  IN  [writer |-> IF w.bitPos + s.nbits = 8
                    THEN NextByte(w, byte)
                    ELSE [buf |-> w.buf, bitBuf |-> byte, bitPos |-> w.bitPos + s.nbits],
       val |-> s.val, nbits |-> 0]

Fills(s) ==
  LET w     == s.writer
      space == 8 - w.bitPos
      shift == s.nbits - space
  IN  [writer |-> NextByte(w, w.bitBuf + ((s.val \div Pow2(shift)) % Pow2(space))),
       val |-> s.val % Pow2(shift), nbits |-> shift]

Pass(s) ==
  IF s.nbits = 0 THEN s
  ELSE IF s.nbits <= 8 - s.writer.bitPos THEN Fits(s) ELSE Fills(s)

(* BitWriter::write: 32 bits are in five bytes at most.                    *)
Write(w, val, nbits) ==
  Pass(Pass(Pass(Pass(Pass([writer |-> w, val |-> val, nbits |-> nbits]))))).writer

FlushWhole(w) == w.buf

(* BitWriter::flush: the last byte goes out with what there is of it.      *)
Flush(w) == IF w.bitPos > 0 THEN Append(w.buf, w.bitBuf) ELSE w.buf

(* The fields of a frame, each with its width: a channel pair (or a single *)
(* channel), its instance, twelve unused bits, hasSize, extraBytes,        *)
(* verbatim, numSamples, the samples of S16LE PCM, and the end.            *)
Fields(pcm, frameSize, channels) ==
  << <<IF channels = 2 THEN 1 ELSE 0, 3>>, <<0, 4>>, <<0, 12>>,
     <<1, 1>>, <<0, 2>>, <<1, 1>>, <<frameSize, SizeBits>> >>
  \o [i \in 1..(frameSize * channels) |-> <<pcm[2 * i - 1] + 256 * pcm[2 * i], 16>>]
  \o << <<7, 3>> >>

(* The writer when it has written the fields, one after the other.         *)
Written(fields) ==
  LET after[i \in 0..Len(fields)] ==
        IF i = 0 THEN NewWriter
        ELSE Write(after[i - 1], fields[i][1], fields[i][2])
  IN  after[Len(fields)]

(* encode_alac_verbatim                                                    *)
Encode(pcm, frameSize, channels) == Flush(Written(Fields(pcm, frameSize, channels)))

-----------------------------------------------------------------------------
(***************************************************************************)
(* What a receiver reads out of a frame, bit by bit.                       *)
(***************************************************************************)

Bit(bytes, k) == (bytes[(k \div 8) + 1] \div Pow2(7 - (k % 8))) % 2

(* The n bits from there on are those of the value, the highest first.     *)
Holds(bytes, from, n, value) ==
  /\ FitsIn(value, n)
  /\ \A j \in 1..n : Bit(bytes, from + j - 1) = (value \div Pow2(n - j)) % 2

(* A frame is of bytes, as long as its bits, and says that it has so many  *)
(* samples, which are those of the PCM, the high byte of each first, and   *)
(* nothing but the end follows: no field runs into the next one's bits.    *)
IsVerbatim(bytes, pcm, frameSize, channels) ==
  LET head == 23 + SizeBits
      all  == head + 16 * (frameSize * channels) + 3
  IN  /\ Len(bytes) = (all + 7) \div 8
      /\ \A k \in DOMAIN bytes : bytes[k] \in 0..255
      /\ Holds(bytes, 0, 3, channels - 1)
      /\ Holds(bytes, 3, 16, 0)
      /\ Holds(bytes, 19, 4, 9)
      /\ Holds(bytes, 23, SizeBits, frameSize)
      /\ \A i \in 1..(frameSize * channels) :
           /\ Holds(bytes, head + 16 * (i - 1), 8, pcm[2 * i])
           /\ Holds(bytes, head + 16 * (i - 1) + 8, 8, pcm[2 * i - 1])
      /\ Holds(bytes, all - 3, 3, 7)

(* It reads that out of every frame.                                       *)
AllVerbatim ==
  \A channels \in {1, 2}, frameSize \in FrameSizes :
    \A pcm \in [1..(2 * frameSize * channels) -> Bytes] :
      IsVerbatim(Encode(pcm, frameSize, channels), pcm, frameSize, channels)
=============================================================================
