-------------------------------- MODULE Codec --------------------------------
(***************************************************************************)
(* The sample arithmetic of codec/G711.cpp and codec/Resample.cpp: mu-law  *)
(* and A-law companding and the doubling of the sample rate.  Shifts and   *)
(* masks of the code are divisions and remainders here.                    *)
(***************************************************************************)
EXTENDS Integers, Sequences

Sample == -32768 .. 32767
Code   == 0 .. 255
Laws   == {"mu", "A"}

Magnitude(n) == IF n < 0 THEN -n ELSE n

\* Mutant of Segment: a value at the end of a segment is put into the next.
Segment_Strict(value, ends) ==
  LET above == {i \in 0 .. 7 : value < ends[i + 1]}
  IN  IF above = {} THEN 8 ELSE CHOOSE i \in above : \A j \in above : i <= j

\* seg: the first of the eight segments whose end is not below the value.
Segment(value, ends) ==
  LET above == {i \in 0 .. 7 : value <= ends[i + 1]}
  IN  IF above = {} THEN 8 ELSE CHOOSE i \in above : \A j \in above : i <= j

-----------------------------------------------------------------------------
(* mu-law: sign and magnitude with a bias, all bits complemented *)

MuBias == 132
MuClip == 32635
MuEnds == <<255, 511, 1023, 2047, 4095, 8191, 16383, 32767>>

EncodeMuLaw(sample) ==
  LET clipped == IF Magnitude(sample) > MuClip THEN MuClip ELSE Magnitude(sample)
      mag     == clipped + MuBias
      segment == Segment(mag, MuEnds)
      code    == IF segment = 8 THEN 127 ELSE 16 * segment + ((mag \div 2^(segment + 3)) % 16)
  IN  255 - (IF sample < 0 THEN 128 + code ELSE code)

DecodeMuLaw(byte) ==
  LET code == 255 - byte
      mag  == (8 * (code % 16) + MuBias) * 2^((code \div 16) % 8) - MuBias
  IN  IF code >= 128 THEN -mag ELSE mag

-----------------------------------------------------------------------------
(* A-law: 13 bits, the sign bit set for positive samples, even bits toggled *)

AEnds == <<31, 63, 127, 255, 511, 1023, 2047, 4095>>

\* byte ^ 0x55
ToggleEvenBits(byte) ==
  LET toggle(bit) == IF (byte \div bit) % 2 = 0 THEN bit ELSE -bit
  IN  byte + toggle(1) + toggle(4) + toggle(16) + toggle(64)

EncodeALaw(sample) ==
  LET pcm     == sample \div 8
      mag     == IF pcm >= 0 THEN pcm ELSE -pcm - 1
      segment == Segment(mag, AEnds)
      code    == IF segment = 8 THEN 127
                 ELSE 16 * segment + ((mag \div (IF segment < 2 THEN 2 ELSE 2^segment)) % 16)
  IN  ToggleEvenBits(IF pcm >= 0 THEN 128 + code ELSE code)

DecodeALaw(byte) ==
  LET code    == ToggleEvenBits(byte)
      t       == 16 * (code % 16)
      segment == (code \div 16) % 8
      mag     == IF segment = 0 THEN t + 8
                 ELSE IF segment = 1 THEN t + 264
                 ELSE (t + 264) * 2^(segment - 1)
  IN  IF code >= 128 THEN mag ELSE -mag

-----------------------------------------------------------------------------
(* Frames *)

Encode(law, pcm) ==
  [i \in DOMAIN pcm |-> IF law = "A" THEN EncodeALaw(pcm[i]) ELSE EncodeMuLaw(pcm[i])]

Decode(law, codes) ==
  [i \in DOMAIN codes |-> IF law = "A" THEN DecodeALaw(codes[i]) ELSE DecodeMuLaw(codes[i])]

\* Division of C, which rounds towards zero.
Halved(sum) == IF sum < 0 THEN -((-sum) \div 2) ELSE sum \div 2

\* upsample8kTo16k: after each sample the midpoint to the next one, and after the
\* last the last again.
Upsample(pcm) ==
  LET next(i) == IF i < Len(pcm) THEN pcm[i + 1] ELSE pcm[i]
  IN  [k \in 1 .. 2 * Len(pcm) |->
         LET i == (k + 1) \div 2
         IN  IF k % 2 = 1 THEN pcm[i] ELSE Halved(pcm[i] + next(i))]
=============================================================================
