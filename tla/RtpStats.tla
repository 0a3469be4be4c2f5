------------------------------ MODULE RtpStats ------------------------------
(***************************************************************************)
(* sipdemo::RtpStats (RtpStats.h, RtpStats.cpp): the receiver's loss and   *)
(* reordering counters.  The interarrival-jitter estimate of update lines  *)
(* 29-38 is floating-point arithmetic on arrival times and is left out.    *)
(*                                                                         *)
(* The environment is a sender whose packets have true positions, of which *)
(* the receiver sees only the 16-bit remainder.                            *)
(***************************************************************************)
EXTENDS SeqArith, FiniteSets

CONSTANT MaxUpdates      \* bound of the runs on the calls of update

ASSUME MaxUpdatesAssumption == MaxUpdates \in Nat

VARIABLES
  started, baseExt, maxExt, received, reordered,
  pos,                \* history: true position of the packet that came last
  seen,               \* history: true positions of the packets that came
  late                \* history: packets that came after a later one

vars == <<started, baseExt, maxExt, received, reordered, pos, seen, late>>

Init ==
  /\ started = FALSE
  /\ baseExt = 0 /\ maxExt = 0
  /\ received = 0 /\ reordered = 0
  /\ pos = 0 /\ seen = {} /\ late = 0

Unwrap(seq) == IF started THEN SeqExtend(seq, maxExt) ELSE seq

MaxAfter(ext) == IF started /\ ext < maxExt THEN maxExt ELSE ext

ReorderedAfter(ext) ==
  IF started /\ ext < maxExt THEN reordered + 1 ELSE reordered

\* Mutant of ReceivedAfter: an overtaken packet is not counted.
ReceivedAfter_InOrderOnly(ext) ==
  IF started /\ ext < maxExt THEN received ELSE received + 1

ReceivedAfter(ext) == received + 1

Update(seq) ==
  LET ext == Unwrap(seq)
  IN  /\ started' = TRUE
      /\ baseExt' = IF started THEN baseExt ELSE ext
      /\ maxExt' = MaxAfter(ext)
      /\ reordered' = ReorderedAfter(ext)
      /\ received' = ReceivedAfter(ext)

Expected == IF started THEN maxExt - baseExt + 1 ELSE 0

Lost == IF Expected > received THEN Expected - received ELSE 0

\* The first packet: its number is its position.
First(p) ==
  /\ ~started
  /\ Update(p)
  /\ pos' = p /\ seen' = {p} /\ late' = 0

\* A later packet, less than half a space from the newest: new, overtaken, or a
\* duplicate.
Following(p) ==
  /\ started
  /\ received < MaxUpdates
  /\ Update(p % SeqSpace)
  /\ pos' = p
  /\ seen' = seen \union {p}
  /\ late' = IF \E q \in seen : p < q THEN late + 1 ELSE late

Reset ==
  /\ started' = FALSE
  /\ baseExt' = 0 /\ maxExt' = 0
  /\ received' = 0 /\ reordered' = 0
  /\ pos' = 0 /\ seen' = {} /\ late' = 0

Next ==
  \/ \E p \in SeqNum : First(p)
  \/ \E p \in (maxExt - Half + 1) .. (maxExt + Half - 1) : Following(p)
  \/ Reset

Spec == Init /\ [][Next]_vars

-----------------------------------------------------------------------------
TypeOK ==
  /\ started \in BOOLEAN
  /\ baseExt \in Nat /\ maxExt \in Nat
  /\ received \in Nat /\ reordered \in Nat
  /\ pos \in Int /\ late \in Nat
  /\ seen \subseteq Int /\ IsFiniteSet(seen)

\* However often the 16-bit number has wrapped, update's maxExt is the true
\* position of the newest packet and the base that of the first, so expected()
\* is the true length of the stream seen.
UnwrapExact ==
  started => /\ baseExt \in seen /\ maxExt \in seen
             /\ \A p \in seen : p <= maxExt

\* The loss reported is never more than the positions between the first and the
\* newest packet that really did not come.  (It may be less: a duplicate makes
\* up for a missing packet.)
LossNeverOverstated ==
  started => Lost <= Cardinality((baseExt .. maxExt) \ seen)

\* reordered() counts exactly the packets that came after one sent later.
ReorderedExact == reordered = late

\* seqLess and seqDiff on the 16-bit numbers say what < and - say of the true
\* positions, on both sides of the wrap.
SerialOrderExact ==
  LET a == pos % SeqSpace
      b == maxExt % SeqSpace
  IN  started => /\ SeqLess(a, b) <=> pos < maxExt
                 /\ SeqDiff(a, b) = maxExt - pos
=============================================================================
