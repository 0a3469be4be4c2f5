------------------------------ MODULE SeqArith ------------------------------
(***************************************************************************)
(* RTP sequence-number arithmetic: the 16-bit comparison helpers of        *)
(* RtpPacket.cpp and the unwrapping function extend, which JitterBuffer    *)
(* and RtpStats each define with the same body.                            *)
(*                                                                         *)
(* Half stands for 0x8000, half of the 16-bit sequence space, so that the  *)
(* wraparound can be reached in a small instance.                          *)
(***************************************************************************)
EXTENDS Integers

CONSTANT Half

ASSUME HalfAssumption == Half \in Nat \ {0}

SeqSpace == 2 * Half
SeqNum == 0 .. SeqSpace - 1

\* seqLess: a precedes b iff the forward gap is smaller than half the space.
SeqLess(a, b) == a # b /\ (b - a) % SeqSpace < Half

\* seqDiff: the gap b - a in two's complement (static_cast<int16_t>).
SeqDiff(a, b) ==
  LET gap == (b - a) % SeqSpace IN IF gap < Half THEN gap ELSE gap - SeqSpace

\* Mutant of SeqExtend: the backward correction loop is left out.
SeqExtend_NoBackward(seq, reference) ==
  LET candidate == (reference - (reference % SeqSpace)) + seq
  IN  IF candidate - reference > Half THEN candidate - SeqSpace ELSE candidate

\* extend: the multiple of SeqSpace is chosen that places seq within half a
\* space of the reference.  Neither loop of the code runs more than once, as
\* the first candidate is less than SeqSpace away.
SeqExtend(seq, reference) ==
  LET candidate == (reference - (reference % SeqSpace)) + seq
  IN  IF candidate - reference > Half THEN candidate - SeqSpace
      ELSE IF reference - candidate > Half THEN candidate + SeqSpace
      ELSE candidate
=============================================================================
