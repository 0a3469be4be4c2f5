---------------------------- MODULE RtpStreamProofs ---------------------------
(***************************************************************************)
(* The media stream, for every size of the sequence space and calls of any *)
(* length.                                                                 *)
(*                                                                         *)
(*   - The sequence-number operators: the unwrapping of extend is exact,   *)
(*     and seqLess and seqDiff give the true order, for positions less     *)
(*     than half a space apart.                                            *)
(*   - RtpStats: its safety properties, for any number of packets.         *)
(*   - rtp_sender: what it prints is true, whatever it drops and holds     *)
(*     back, and whatever the link and the receiver do.                    *)
(*   - parse: it finds the payload in every header a phone may use, and    *)
(*     refuses the strays.                                                 *)
(*   - The codec: what both companders give back of each of the 65536      *)
(*     samples, and what doubling the rate keeps; so that what recvLoop    *)
(*     hears is what was spoken.                                           *)
(*   - The whole stream implements RtpStats, so what is proved of RtpStats *)
(*     holds of what recvLoop counts; and without faults of the link the   *)
(*     loss reported is accounted for, packet by packet.                   *)
(***************************************************************************)
EXTENDS RtpStream, FiniteSetTheorems, TLAPS

-----------------------------------------------------------------------------
(* Sequence arithmetic *)

\* Division with remainder by the size of the sequence space.
LEMMA DivMod ==
  ASSUME NEW p \in Int
  PROVE  /\ SeqSpace \in Nat \ {0}
         /\ p % SeqSpace \in SeqNum
         /\ p \div SeqSpace \in Int
         /\ p \in Nat => p \div SeqSpace \in Nat
         /\ p = SeqSpace * (p \div SeqSpace) + (p % SeqSpace)
<1>1. SeqSpace \in Nat \ {0}
  BY HalfAssumption DEF SeqSpace
<1> DEFINE M == SeqSpace
<1>2. M \in Nat \ {0}
  BY <1>1
<1> HIDE DEF M
<1>3. /\ p % M \in 0 .. M - 1
      /\ p \div M \in Int
      /\ p \in Nat => p \div M \in Nat
      /\ p = M * (p \div M) + (p % M)
  BY <1>2
<1> QED
  BY <1>1, <1>3 DEF M, SeqNum

\* Two positions less than half a space apart lie in the same cycle of the
\* sequence numbers or in neighbouring ones.
LEMMA NeighbouringCycles ==
  ASSUME NEW p \in Int, NEW ref \in Nat, p - ref < Half, ref - p < Half
  PROVE  LET M  == SeqSpace
             at == M * (ref \div M)
         IN  /\ at \in Nat
             /\ ref = at + (ref % M)
             /\ \/ p = at + (p % M)
                \/ p = at + M + (p % M)
                \/ p = (at - M) + (p % M)
<1> DEFINE M == SeqSpace
           P == p \div M
           R == ref \div M
           a == p % M
           b == ref % M
           k == P - R
<1>1. /\ M \in Nat \ {0} /\ M = 2 * Half /\ Half \in Nat
      /\ P \in Int /\ a \in 0 .. M - 1 /\ p = M * P + a
      /\ R \in Nat /\ b \in 0 .. M - 1 /\ ref = M * R + b
  <2>1. p \in Int /\ ref \in Int
    OBVIOUS
  <2> QED
    BY <2>1, DivMod, HalfAssumption DEF SeqNum, SeqSpace
<1> HIDE DEF M, P, R, a, b
<1>2. k \in Int /\ M * P = M * R + M * k /\ M * k \in Int
  BY <1>1
<1>3. M * k < 2 * M /\ M * k > -(2 * M)
  BY <1>1, <1>2
<1>4. k < 2
  <2>1. k >= 2 => M * k >= 2 * M
    BY <1>1, <1>2
  <2> QED
    BY <2>1, <1>2, <1>3, <1>1
<1>5. k > -2
  <2>1. k <= -2 => M * k <= -(2 * M)
    BY <1>1, <1>2
  <2> QED
    BY <2>1, <1>2, <1>3, <1>1
<1>6. k = 0 \/ k = 1 \/ k = -1
  BY <1>2, <1>4, <1>5
<1>7. M * R \in Nat
  BY <1>1
<1>8. \/ M * P = M * R
      \/ M * P = M * R + M
      \/ M * P = M * R - M
  BY <1>1, <1>2, <1>6
<1> QED
  BY <1>1, <1>7, <1>8 DEF M, P, R, a, b

\* extend recovers the true position of a packet less than half a space from
\* its reference, in whichever cycle the two lie.
THEOREM SeqExtendExact ==
  ASSUME NEW p \in Int, NEW ref \in Nat, p - ref < Half, ref - p < Half
  PROVE  SeqExtend(p % SeqSpace, ref) = p
<1> DEFINE at == SeqSpace * (ref \div SeqSpace)
           a == p % SeqSpace
           b == ref % SeqSpace
<1>1. /\ at \in Nat /\ ref = at + b
      /\ p = at + a \/ p = at + SeqSpace + a \/ p = (at - SeqSpace) + a
  BY NeighbouringCycles
<1>2. a \in Nat /\ b \in Nat /\ SeqSpace = 2 * Half
  <2>1. p \in Int /\ ref \in Int
    OBVIOUS
  <2> QED
    BY <2>1, DivMod, HalfAssumption DEF SeqNum, SeqSpace
<1>3. SeqExtend(a, ref) =
        LET candidate == (ref - b) + a
        IN  IF candidate - ref > Half THEN candidate - SeqSpace
            ELSE IF ref - candidate > Half THEN candidate + SeqSpace
            ELSE candidate
  BY DEF SeqExtend
<1> HIDE DEF at, a, b
<1>4. SeqExtend(a, ref) = p
  BY <1>1, <1>2, <1>3, HalfAssumption
<1> QED
  BY <1>4 DEF a

\* Remainders of numbers between -SeqSpace and SeqSpace.
LEMMA SmallMod ==
  ASSUME NEW x \in Int, -SeqSpace < x, x < SeqSpace
  PROVE  x % SeqSpace = IF x >= 0 THEN x ELSE x + SeqSpace
<1> DEFINE M == SeqSpace
<1>1. M \in Nat \ {0} /\ -M < x /\ x < M
  BY HalfAssumption DEF SeqSpace
<1> HIDE DEF M
<1>2. x % M \in 0 .. M - 1 /\ x \div M \in Int /\ x = M * (x \div M) + (x % M)
  BY <1>1
<1>3. x >= 0 => x \div M = 0
  BY <1>1, <1>2
<1>4. x < 0 => x \div M = -1
  BY <1>1, <1>2
<1>5. x % M = IF x >= 0 THEN x ELSE x + M
  BY <1>1, <1>2, <1>3, <1>4
<1> QED
  BY <1>5 DEF M

\* seqDiff is the true distance, and seqLess the true order, of positions less
\* than half a space apart.
THEOREM SerialExact ==
  ASSUME NEW p \in Int, NEW ref \in Nat, p - ref < Half, ref - p < Half
  PROVE  /\ SeqDiff(p % SeqSpace, ref % SeqSpace) = ref - p
         /\ SeqLess(p % SeqSpace, ref % SeqSpace) <=> p < ref
<1> DEFINE at == SeqSpace * (ref \div SeqSpace)
           a == p % SeqSpace
           b == ref % SeqSpace
<1>1. /\ at \in Nat /\ ref = at + b
      /\ p = at + a \/ p = at + SeqSpace + a \/ p = (at - SeqSpace) + a
  BY NeighbouringCycles
<1>2. /\ a \in 0 .. SeqSpace - 1 /\ b \in 0 .. SeqSpace - 1
      /\ SeqSpace = 2 * Half /\ SeqSpace \in Nat
  <2>1. p \in Int /\ ref \in Int
    OBVIOUS
  <2> QED
    BY <2>1, DivMod, HalfAssumption DEF SeqNum, SeqSpace
<1> HIDE DEF at, a, b
<1>3. (b - a) % SeqSpace = IF b - a >= 0 THEN b - a ELSE (b - a) + SeqSpace
  <2>1. b - a \in Int /\ -SeqSpace < b - a /\ b - a < SeqSpace
    BY <1>2
  <2> QED
    BY <2>1, SmallMod
<1> DEFINE gap == (b - a) % SeqSpace
<1>4. gap \in 0 .. SeqSpace - 1
  BY <1>2, <1>3
<1>5. /\ SeqDiff(a, b) = IF gap < Half THEN gap ELSE gap - SeqSpace
      /\ SeqLess(a, b) <=> a # b /\ gap < Half
  BY DEF SeqDiff, SeqLess
<1> HIDE DEF gap
<1>6. gap = IF b - a >= 0 THEN b - a ELSE (b - a) + SeqSpace
  BY <1>3 DEF gap
<1>7. SeqDiff(a, b) = ref - p
  BY <1>1, <1>2, <1>4, <1>5, <1>6, HalfAssumption
<1>8. SeqLess(a, b) <=> p < ref
  BY <1>1, <1>2, <1>4, <1>5, <1>6, HalfAssumption
<1> QED
  BY <1>7, <1>8 DEF a, b

-----------------------------------------------------------------------------
(* RtpStats *)

\* The inductive invariant: unwrapping stays exact, duplicates make received at
\* least the number of distinct packets, and a fresh object has zero counters.
Fresh == ~started => received = 0 /\ reordered = 0 /\ late = 0 /\ seen = {}

CountsEach == Cardinality(seen) <= received

NearNewest == started => pos <= maxExt /\ maxExt - pos < Half

IInv == /\ TypeOK /\ UnwrapExact /\ ReorderedExact
        /\ Fresh /\ CountsEach /\ NearNewest

LEMMA InitIInv == Init => IInv
<1> SUFFICES ASSUME Init PROVE IInv
  OBVIOUS
<1>1. Cardinality({}) = 0 /\ IsFiniteSet({})
  BY FS_EmptySet
<1>2. TypeOK
  <2>1. seen \subseteq Int /\ IsFiniteSet(seen)
    BY <1>1 DEF Init
  <2>2. started \in BOOLEAN /\ pos \in Int
    <3>1. pos \in Nat
      BY DEF Init
    <3>2. started \in BOOLEAN
      BY DEF Init
    <3> QED
      BY <3>1, <3>2
  <2>3. /\ baseExt \in Nat /\ maxExt \in Nat
        /\ received \in Nat /\ reordered \in Nat /\ late \in Nat
    BY DEF Init
  <2> QED
    BY <2>1, <2>2, <2>3 DEF TypeOK
<1>3. CountsEach
  BY <1>1 DEF Init, CountsEach
<1>4. UnwrapExact /\ ReorderedExact /\ Fresh /\ NearNewest
  BY DEF Init, UnwrapExact, ReorderedExact, Fresh, NearNewest
<1> QED
  BY <1>2, <1>3, <1>4 DEF IInv

\* Adding a position to the set of those seen.
LEMMA SeenGrows ==
  ASSUME TypeOK, CountsEach, NEW p \in Int
  PROVE  /\ IsFiniteSet(seen \union {p})
         /\ Cardinality(seen \union {p}) <= received + 1
<1>1. Cardinality(seen) \in Nat /\ received \in Nat /\ Cardinality(seen) <= received
  BY FS_CardinalityType DEF TypeOK, CountsEach
<1>2. /\ IsFiniteSet(seen \union {p})
      /\ Cardinality(seen \union {p}) = Cardinality(seen)
         \/ Cardinality(seen \union {p}) = Cardinality(seen) + 1
  BY FS_AddElement DEF TypeOK
<1> QED
  BY <1>1, <1>2

LEMMA StepIInv == IInv /\ [Next]_vars => IInv'
<1> SUFFICES ASSUME IInv, [Next]_vars
             PROVE  IInv'
  OBVIOUS
<1>1. ASSUME NEW p \in SeqNum, First(p)
      PROVE  IInv'
  <2>1. p \in Nat
    BY HalfAssumption DEF SeqNum, SeqSpace
  <2>2. /\ started' = TRUE /\ baseExt' = p /\ maxExt' = p
        /\ reordered' = 0 /\ received' = 1
        /\ pos' = p /\ seen' = {p} /\ late' = 0
    BY <1>1 DEF First, Update, Unwrap, MaxAfter, ReorderedAfter, ReceivedAfter,
       IInv, Fresh
  <2>3. IsFiniteSet({p}) /\ Cardinality({p}) = 1
    BY FS_Singleton
  <2> QED
    BY <2>1, <2>2, <2>3, HalfAssumption DEF IInv, TypeOK, UnwrapExact,
       ReorderedExact, Fresh, CountsEach, NearNewest
<1>2. ASSUME NEW p \in (maxExt - Half + 1) .. (maxExt + Half - 1), Following(p)
      PROVE  IInv'
  <2>1. /\ p \in Int /\ maxExt \in Nat
        /\ p - maxExt < Half /\ maxExt - p < Half
    BY HalfAssumption DEF IInv, TypeOK
  <2>2. started /\ SeqExtend(p % SeqSpace, maxExt) = p
    BY <1>2, <2>1, SeqExtendExact DEF Following
  <2>3. /\ started' = TRUE /\ baseExt' = baseExt
        /\ maxExt' = IF p < maxExt THEN maxExt ELSE p
        /\ reordered' = IF p < maxExt THEN reordered + 1 ELSE reordered
        /\ received' = received + 1
        /\ pos' = p /\ seen' = seen \union {p}
        /\ late' = IF \E q \in seen : p < q THEN late + 1 ELSE late
    BY <1>2, <2>2 DEF Following, Update, Unwrap, MaxAfter, ReorderedAfter,
       ReceivedAfter
  <2>4. /\ baseExt \in seen /\ maxExt \in seen /\ seen \subseteq Int
        /\ \A q \in seen : q <= maxExt
    BY <2>2 DEF IInv, UnwrapExact, TypeOK
  <2>5. (\E q \in seen : p < q) <=> p < maxExt
    BY <2>1, <2>4
  <2>6. IsFiniteSet(seen') /\ Cardinality(seen') <= received'
    BY <2>1, <2>3, SeenGrows DEF IInv
  <2>7. maxExt' \in Nat /\ maxExt <= maxExt' /\ p <= maxExt' /\ maxExt' - p < Half
    BY <2>1, <2>3, HalfAssumption
  <2>8. TypeOK'
    BY <2>1, <2>3, <2>4, <2>6, <2>7 DEF IInv, TypeOK
  <2>9. UnwrapExact'
    BY <2>1, <2>3, <2>4, <2>7 DEF UnwrapExact
  <2>10. ReorderedExact' /\ Fresh' /\ CountsEach' /\ NearNewest'
    BY <2>3, <2>5, <2>6, <2>7 DEF IInv, ReorderedExact, Fresh, CountsEach,
       NearNewest
  <2> QED
    BY <2>8, <2>9, <2>10 DEF IInv
<1>3. CASE Reset
  <2>1. Init'
    BY <1>3 DEF Reset, Init
  <2> QED
    BY <2>1, InitIInv, PTL
<1>4. CASE UNCHANGED vars
  BY <1>4 DEF vars, IInv, TypeOK, UnwrapExact, ReorderedExact, Fresh,
     CountsEach, NearNewest
<1> QED
  BY <1>1, <1>2, <1>3, <1>4 DEF Next

\* Unwrapping is exact and the reordering count right in every reachable state.
THEOREM StatsExact == Spec => [](TypeOK /\ UnwrapExact /\ ReorderedExact)
<1>1. Spec => []IInv
  BY InitIInv, StepIInv, PTL DEF Spec
<1> QED
  BY <1>1, PTL DEF IInv

\* The loss reported never exceeds the loss there was.
THEOREM LossBounded == Spec => []LossNeverOverstated
<1>1. IInv => LossNeverOverstated
  <2> SUFFICES ASSUME IInv, started
               PROVE  Lost <= Cardinality((baseExt .. maxExt) \ seen)
    BY DEF LossNeverOverstated
  <2> DEFINE range == baseExt .. maxExt
  <2>1. /\ baseExt \in Nat /\ maxExt \in Nat /\ received \in Nat
        /\ baseExt <= maxExt /\ IsFiniteSet(seen)
    BY DEF IInv, TypeOK, UnwrapExact
  <2>2. IsFiniteSet(range) /\ Cardinality(range) = maxExt - baseExt + 1
    BY <2>1, FS_Interval
  <2> HIDE DEF range
  <2>3. /\ IsFiniteSet(range \cap seen)
        /\ Cardinality(range \cap seen) <= Cardinality(seen)
    BY <2>1, FS_Subset
  <2>4. /\ IsFiniteSet(range \ seen)
        /\ Cardinality(range \ seen) = Cardinality(range) - Cardinality(range \cap seen)
    BY <2>2, FS_Difference
  <2>5. Cardinality(seen) \in Nat /\ Cardinality(range \cap seen) \in Nat
        /\ Cardinality(range \ seen) \in Nat
    BY <2>1, <2>3, <2>4, FS_CardinalityType
  <2>6. Cardinality(seen) <= received
    BY DEF IInv, CountsEach
  <2>7. Lost = IF maxExt - baseExt + 1 > received
                THEN maxExt - baseExt + 1 - received ELSE 0
    <3>1. Expected = maxExt - baseExt + 1
      BY DEF Expected
    <3> QED
      BY <2>1, <3>1 DEF Lost
  <2>8. Lost <= Cardinality(range \ seen)
    BY <2>1, <2>2, <2>3, <2>4, <2>5, <2>6, <2>7
  <2> QED
    BY <2>8 DEF range
<1> QED
  BY <1>1, InitIInv, StepIInv, PTL DEF Spec

\* seqLess and seqDiff agree with the true order across the wrap.
THEOREM OrderExact == Spec => []SerialOrderExact
<1>1. IInv => SerialOrderExact
  <2> SUFFICES ASSUME IInv, started
               PROVE  /\ SeqLess(pos % SeqSpace, maxExt % SeqSpace) <=> pos < maxExt
                      /\ SeqDiff(pos % SeqSpace, maxExt % SeqSpace) = maxExt - pos
    BY DEF SerialOrderExact
  <2>1. /\ pos \in Int /\ maxExt \in Nat
        /\ pos - maxExt < Half /\ maxExt - pos < Half
    BY HalfAssumption DEF IInv, TypeOK, NearNewest
  <2> QED
    BY <2>1, SerialExact
<1> QED
  BY <1>1, InitIInv, StepIInv, PTL DEF Spec

-----------------------------------------------------------------------------
(* rtp_sender *)

\* Of the first n elements of s: none comes twice, what is overtaken is overtaken
\* by its successor only, those that are, and all.
Distinct(s, n)      == \A i, j \in 1 .. n : s[i] = s[j] => i = j
NearlyOrdered(s, n) == \A i, j \in 1 .. n : i < j /\ s[i] > s[j] => j = i + 1
Overtaken(s, n)     == {i \in 1 .. n - 1 : s[i] > s[i + 1]}
Elements(s, n)      == {s[i] : i \in 1 .. n}

\* t continues s with numbers that are not below n.
Continues(s, t, n, bound) ==
  \A i \in 1 .. n : s[i] \in Nat /\ s[i] < bound /\ t[i] = s[i]

-----------------------------------------------------------------------------
(* The two ways in which the log grows *)

LEMMA AppendNewest ==
  ASSUME NEW n \in Nat, NEW x \in Nat, NEW s, NEW t,
         Continues(s, t, n, x), t[n + 1] = x,
         Distinct(s, n), NearlyOrdered(s, n)
  PROVE  /\ Distinct(t, n + 1) /\ NearlyOrdered(t, n + 1)
         /\ Overtaken(t, n + 1) = Overtaken(s, n)
         /\ Elements(t, n + 1) = Elements(s, n) \union {x}
<1>1. ASSUME NEW i \in 1 .. n
      PROVE  s[i] \in Nat /\ s[i] < x /\ t[i] = s[i]
  BY DEF Continues
<1>2. \A i \in 1 .. n + 1 : i \in 1 .. n \/ i = n + 1
  OBVIOUS
<1>3. Distinct(t, n + 1)
  BY <1>1, <1>2 DEF Distinct
<1>4. NearlyOrdered(t, n + 1)
  BY <1>1, <1>2 DEF NearlyOrdered
<1>5. Overtaken(t, n + 1) = Overtaken(s, n)
  <2>1. ASSUME NEW i
        PROVE  i \in Overtaken(t, n + 1) <=> i \in Overtaken(s, n)
    <3>1. CASE i \in 1 .. n - 1
      <4>1. t[i] = s[i] /\ t[i + 1] = s[i + 1]
        BY <1>1, <3>1
      <4> QED BY <3>1, <4>1 DEF Overtaken
    <3>2. CASE i = n
      <4>1. i \in 1 .. n => ~(t[i] > t[i + 1])
        BY <1>1, <3>2
      <4> QED BY <3>2, <4>1 DEF Overtaken
    <3>3. CASE i \notin 1 .. n
      BY <3>3 DEF Overtaken
    <3> QED BY <3>1, <3>2, <3>3
  <2> QED BY <2>1
<1>6. Elements(t, n + 1) = Elements(s, n) \union {x}
  BY <1>1, <1>2 DEF Elements
<1> QED BY <1>3, <1>4, <1>5, <1>6

LEMMA AppendSwapped ==
  ASSUME NEW n \in Nat, NEW h \in Nat, NEW x \in Nat, h < x, NEW s, NEW t,
         Continues(s, t, n, h), t[n + 1] = x, t[n + 2] = h,
         Distinct(s, n), NearlyOrdered(s, n)
  PROVE  /\ Distinct(t, n + 2) /\ NearlyOrdered(t, n + 2)
         /\ Overtaken(t, n + 2) = Overtaken(s, n) \union {n + 1}
         /\ Elements(t, n + 2) = Elements(s, n) \union {x, h}
<1>1. ASSUME NEW i \in 1 .. n
      PROVE  s[i] \in Nat /\ s[i] < h /\ s[i] < x /\ t[i] = s[i]
  BY DEF Continues
<1>2. \A i \in 1 .. n + 2 : i \in 1 .. n \/ i = n + 1 \/ i = n + 2
  OBVIOUS
<1>3. Distinct(t, n + 2)
  BY <1>1, <1>2 DEF Distinct
<1>4. NearlyOrdered(t, n + 2)
  BY <1>1, <1>2 DEF NearlyOrdered
<1>5. Overtaken(t, n + 2) = Overtaken(s, n) \union {n + 1}
  <2>1. ASSUME NEW i
        PROVE  i \in Overtaken(t, n + 2) <=> i \in Overtaken(s, n) \/ i = n + 1
    <3>1. CASE i \in 1 .. n - 1
      <4>1. t[i] = s[i] /\ t[i + 1] = s[i + 1]
        BY <1>1, <3>1
      <4> QED BY <3>1, <4>1 DEF Overtaken
    <3>2. CASE i = n
      <4>1. i \in 1 .. n => ~(t[i] > t[i + 1])
        BY <1>1, <3>2
      <4> QED BY <3>2, <4>1 DEF Overtaken
    <3>3. CASE i = n + 1
      BY <3>3 DEF Overtaken
    <3>4. CASE i \notin 1 .. n + 1
      BY <3>4 DEF Overtaken
    <3> QED BY <3>1, <3>2, <3>3, <3>4
  <2> QED BY <2>1
<1>6. Elements(t, n + 2) = Elements(s, n) \union {x, h}
  <2>1. ASSUME NEW v PROVE v \in Elements(t, n + 2) <=> v \in Elements(s, n) \/ v = x \/ v = h
    BY <1>1, <1>2 DEF Elements
  <2> QED BY <2>1
<1> QED BY <1>3, <1>4, <1>5, <1>6

-----------------------------------------------------------------------------
(* The inductive invariant *)

Elapsed == Elements(log, Len(log))
Held    == IF holding THEN {held.at} ELSE {}

SenderType ==
  /\ call.total \in Nat
  /\ next \in 1 .. call.total + 1
  /\ holding \in BOOLEAN
  /\ sent \in Nat /\ swapped \in Nat
  /\ log \in Seq(Nat)

Orderly ==
  /\ Distinct(log, Len(log)) /\ NearlyOrdered(log, Len(log))
  /\ sent = Len(log)
  /\ IsFiniteSet(Overtaken(log, Len(log)))
  /\ swapped = Cardinality(Overtaken(log, Len(log)))

\* What the loop has come by is dropped, sent or held, and one of them only; while
\* a packet is held everything sent is older.
Accounted ==
  /\ 1 .. next - 1 = dropped \union Elapsed \union Held
  /\ dropped \intersect (Elapsed \union Held) = {}
  /\ holding => /\ held.at \in 1 .. next - 1
                /\ \A i \in 1 .. Len(log) : log[i] < held.at

SInv == SenderType /\ Orderly /\ Accounted

LEMMA InitSInv == StreamInit => SInv
<1> SUFFICES ASSUME StreamInit PROVE SInv
  OBVIOUS
<1>1. call.total \in Nat \ {0}
  BY StreamAssumption DEF StreamInit, Calls
<1>2. /\ next = 1 /\ holding = FALSE /\ sent = 0 /\ swapped = 0
      /\ dropped = {} /\ log = <<>>
  BY DEF StreamInit
<1>3. Overtaken(log, 0) = {} /\ Elements(log, 0) = {} /\ Len(log) = 0
  BY <1>2 DEF Overtaken, Elements
<1>4. SenderType
  <2>1. call.total \in Nat /\ next \in 1 .. call.total + 1
    BY <1>1, <1>2
  <2>2. log \in Seq(Nat)
    BY <1>2
  <2> QED BY <1>2, <2>1, <2>2 DEF SenderType
<1>5. Orderly
  <2>1. Distinct(log, 0) /\ NearlyOrdered(log, 0)
    BY DEF Distinct, NearlyOrdered
  <2>2. IsFiniteSet({}) /\ Cardinality({}) = 0
    BY FS_EmptySet
  <2> QED BY <1>2, <1>3, <2>1, <2>2 DEF Orderly
<1>6. Accounted
  BY <1>2, <1>3 DEF Accounted, Elapsed, Held
<1> QED BY <1>4, <1>5, <1>6 DEF SInv

\* What a step of the sender needs to know of the log.
LEMMA LogFacts ==
  ASSUME SInv
  PROVE  /\ Len(log) \in Nat
         /\ \A i \in 1 .. Len(log) : log[i] \in Nat /\ log[i] \in 1 .. next - 1
<1>1. Len(log) \in Nat /\ \A i \in 1 .. Len(log) : log[i] \in Nat
  BY DEF SInv, SenderType
<1>2. \A i \in 1 .. Len(log) : log[i] \in Elapsed
  BY DEF Elapsed, Elements
<1> QED BY <1>1, <1>2 DEF SInv, Accounted

\* A newer packet than all that were sent is sent.
LEMMA LogAppend ==
  ASSUME SInv, NEW x \in Nat, \A i \in 1 .. Len(log) : log[i] < x,
         log' = Append(log, x), sent' = sent + 1, swapped' = swapped
  PROVE  log' \in Seq(Nat) /\ Orderly' /\ Elapsed' = Elapsed \union {x}
<1> DEFINE n == Len(log)
<1>1. log \in Seq(Nat)
  BY DEF SInv, SenderType
<1>2. /\ n \in Nat /\ Len(log') = n + 1 /\ log'[n + 1] = x /\ log' \in Seq(Nat)
      /\ \A i \in 1 .. n : log'[i] = log[i]
  BY <1>1
<1>3. Continues(log, log', n, x)
  BY <1>2, LogFacts DEF Continues
<1>4. /\ Distinct(log, n) /\ NearlyOrdered(log, n) /\ sent = n
      /\ IsFiniteSet(Overtaken(log, n)) /\ swapped = Cardinality(Overtaken(log, n))
  BY DEF SInv, Orderly
<1> HIDE DEF n
<1>5. /\ Distinct(log', n + 1) /\ NearlyOrdered(log', n + 1)
      /\ Overtaken(log', n + 1) = Overtaken(log, n)
      /\ Elements(log', n + 1) = Elements(log, n) \union {x}
  <2>1. \A m, y \in Nat : \A a, b :
           Continues(a, b, m, y) /\ b[m + 1] = y /\ Distinct(a, m) /\ NearlyOrdered(a, m)
           => /\ Distinct(b, m + 1) /\ NearlyOrdered(b, m + 1)
              /\ Overtaken(b, m + 1) = Overtaken(a, m)
              /\ Elements(b, m + 1) = Elements(a, m) \union {y}
    BY AppendNewest
  <2>2. /\ n \in Nat /\ x \in Nat
        /\ Continues(log, log', n, x) /\ log'[n + 1] = x
        /\ Distinct(log, n) /\ NearlyOrdered(log, n)
    BY <1>2, <1>3, <1>4
  <2> QED BY ONLY <2>1, <2>2
<1>6. Orderly'
  BY <1>2, <1>4, <1>5 DEF Orderly
<1>7. Elapsed' = Elapsed \union {x}
  BY <1>2, <1>5 DEF Elapsed, n
<1> QED BY <1>2, <1>6, <1>7

\* The newest packet is sent and the held one behind it.
LEMMA LogSwap ==
  ASSUME SInv, NEW x \in Nat, NEW h \in Nat, h < x,
         \A i \in 1 .. Len(log) : log[i] < h,
         log' = log \o <<x, h>>, sent' = sent + 2, swapped' = swapped + 1
  PROVE  log' \in Seq(Nat) /\ Orderly' /\ Elapsed' = Elapsed \union {x, h}
<1> DEFINE n == Len(log)
<1>1. log \in Seq(Nat)
  BY DEF SInv, SenderType
<1>2. /\ n \in Nat /\ Len(log') = n + 2 /\ log' \in Seq(Nat)
      /\ log'[n + 1] = x /\ log'[n + 2] = h
      /\ \A i \in 1 .. n : log'[i] = log[i]
  BY <1>1
<1>3. Continues(log, log', n, h)
  BY <1>2, LogFacts DEF Continues
<1>4. /\ Distinct(log, n) /\ NearlyOrdered(log, n) /\ sent = n
      /\ IsFiniteSet(Overtaken(log, n)) /\ swapped = Cardinality(Overtaken(log, n))
  BY DEF SInv, Orderly
<1> HIDE DEF n
<1>5. /\ Distinct(log', n + 2) /\ NearlyOrdered(log', n + 2)
      /\ Overtaken(log', n + 2) = Overtaken(log, n) \union {n + 1}
      /\ Elements(log', n + 2) = Elements(log, n) \union {x, h}
  <2>1. \A m, g, y \in Nat : \A a, b :
           /\ g < y /\ Continues(a, b, m, g) /\ b[m + 1] = y /\ b[m + 2] = g
           /\ Distinct(a, m) /\ NearlyOrdered(a, m)
           => /\ Distinct(b, m + 2) /\ NearlyOrdered(b, m + 2)
              /\ Overtaken(b, m + 2) = Overtaken(a, m) \union {m + 1}
              /\ Elements(b, m + 2) = Elements(a, m) \union {y, g}
    BY AppendSwapped
  <2>2. /\ n \in Nat /\ x \in Nat /\ h \in Nat /\ h < x
        /\ Continues(log, log', n, h) /\ log'[n + 1] = x /\ log'[n + 2] = h
        /\ Distinct(log, n) /\ NearlyOrdered(log, n)
    BY <1>2, <1>3, <1>4
  <2> QED BY ONLY <2>1, <2>2
<1>6. n + 1 \notin Overtaken(log, n)
  BY <1>2 DEF Overtaken
<1>7. /\ IsFiniteSet(Overtaken(log, n) \union {n + 1})
      /\ Cardinality(Overtaken(log, n) \union {n + 1}) = Cardinality(Overtaken(log, n)) + 1
  BY <1>4, <1>6, FS_AddElement
<1>8. Orderly'
  BY <1>2, <1>4, <1>5, <1>7 DEF Orderly
<1>9. Elapsed' = Elapsed \union {x, h}
  BY <1>2, <1>5 DEF Elapsed, n
<1> QED BY <1>2, <1>8, <1>9

-----------------------------------------------------------------------------
(* The steps *)

\* Steps of the link and of the receiver, and steps without any.
LEMMA OthersKeep ==
  ASSUME SInv, UNCHANGED <<call, senderVars>>
  PROVE  SInv'
BY DEF SInv, SenderType, Orderly, Accounted, Elapsed, Held, senderVars

\* What Iterate does to the bookkeeping, whichever branch it is.
LEMMA IterateFacts ==
  ASSUME SInv, Iterate
  PROVE  /\ call' = call /\ call.total \in Nat
         /\ next \in Nat /\ next >= 1 /\ next <= call.total /\ next' = next + 1
         /\ 1 .. next' - 1 = (1 .. next - 1) \union {next}
         /\ next \notin 1 .. next - 1
BY DEF SInv, SenderType, Iterate

LEMMA DropKeeps ==
  ASSUME SInv, Drop
  PROVE  SInv'
<1>1. Iterate /\ dropped' = dropped \union {next}
      /\ UNCHANGED <<holding, held, sent, swapped, log>>
  BY DEF Drop
<1>2. SenderType'
  BY <1>1, IterateFacts DEF SInv, SenderType
<1>3. Orderly' /\ Elapsed' = Elapsed /\ Held' = Held
  BY <1>1 DEF SInv, Orderly, Elapsed, Held
<1>4. Accounted'
  BY <1>1, <1>3, IterateFacts DEF SInv, Accounted
<1> QED BY <1>2, <1>3, <1>4 DEF SInv

LEMMA HoldKeeps ==
  ASSUME SInv, Hold
  PROVE  SInv'
<1>1. /\ Iterate /\ holding = FALSE /\ holding' = TRUE
      /\ UNCHANGED <<sent, swapped, dropped, log>>
  BY DEF Hold, SInv, SenderType
<1>2. held'.at = next
  BY DEF Hold, Datagram
<1>3. SenderType'
  BY <1>1, IterateFacts DEF SInv, SenderType
<1>4. Orderly' /\ Elapsed' = Elapsed /\ Held = {} /\ Held' = {next}
  BY <1>1, <1>2 DEF SInv, Orderly, Elapsed, Held
<1>5. \A i \in 1 .. Len(log) : log[i] < next
  BY LogFacts, IterateFacts, <1>1
<1>6. Accounted'
  <2>1. 1 .. next' - 1 = dropped' \union Elapsed' \union Held'
    BY <1>1, <1>4, IterateFacts DEF SInv, Accounted
  <2>2. dropped' \intersect (Elapsed' \union Held') = {}
    BY <1>1, <1>4, IterateFacts DEF SInv, Accounted
  <2>3. /\ held'.at \in 1 .. next' - 1
        /\ \A i \in 1 .. Len(log') : log'[i] < held'.at
    BY <1>1, <1>2, <1>5, IterateFacts
  <2> QED BY <2>1, <2>2, <2>3 DEF Accounted
<1> QED BY <1>3, <1>4, <1>6 DEF SInv

LEMMA SendKeeps ==
  ASSUME SInv, Send
  PROVE  SInv'
<1>1. /\ Iterate /\ holding = FALSE /\ holding' = holding
      /\ log' = Append(log, next) /\ sent' = sent + 1
      /\ swapped' = swapped /\ dropped' = dropped
  BY DEF Send, SInv, SenderType
<1>2. next \in Nat /\ \A i \in 1 .. Len(log) : log[i] < next
  BY LogFacts, IterateFacts, <1>1
<1>3. log' \in Seq(Nat) /\ Orderly' /\ Elapsed' = Elapsed \union {next}
  BY <1>1, <1>2, LogAppend
<1>4. SenderType'
  BY <1>1, <1>3, IterateFacts DEF SInv, SenderType
<1>5. Held = {} /\ Held' = {}
  BY <1>1 DEF Held
<1>6. Accounted'
  BY <1>1, <1>3, <1>5, IterateFacts DEF SInv, Accounted
<1> QED BY <1>3, <1>4, <1>6 DEF SInv

LEMMA SendAndReleaseKeeps ==
  ASSUME SInv, SendAndRelease
  PROVE  SInv'
<1>1. /\ Iterate /\ holding = TRUE /\ holding' = FALSE
      /\ log' = log \o <<next, held.at>> /\ sent' = sent + 2
      /\ swapped' = swapped + 1 /\ dropped' = dropped
  BY DEF SendAndRelease, Release, SInv, SenderType
<1>2. /\ next \in Nat /\ held.at \in 1 .. next - 1
      /\ \A i \in 1 .. Len(log) : log[i] < held.at
  BY IterateFacts, <1>1 DEF SInv, Accounted
<1>3. held.at \in Nat /\ held.at < next
  BY <1>2
<1>4. log' \in Seq(Nat) /\ Orderly' /\ Elapsed' = Elapsed \union {next, held.at}
  BY <1>1, <1>2, <1>3, LogSwap
<1>5. SenderType'
  <2>1. /\ call' = call /\ call.total \in Nat
        /\ next \in Nat /\ next <= call.total /\ next' = next + 1
    BY <1>1, IterateFacts
  <2>2. /\ call'.total \in Nat /\ next' \in 1 .. call'.total + 1
    BY <2>1
  <2>3. holding' \in BOOLEAN
    BY <1>1
  <2>4. sent' = sent + 2 /\ swapped' = swapped + 1 /\ sent \in Nat /\ swapped \in Nat
    BY <1>1 DEF SInv, SenderType
  <2>5. sent' \in Nat /\ swapped' \in Nat
    BY <2>4
  <2> QED BY <1>4, <2>2, <2>3, <2>5 DEF SenderType
<1>6. Held = {held.at} /\ Held' = {}
  BY <1>1 DEF Held
<1>7. Accounted'
  <2>1. /\ 1 .. next - 1 = dropped \union Elapsed \union {held.at}
        /\ dropped \intersect (Elapsed \union {held.at}) = {}
    BY <1>6 DEF SInv, Accounted
  <2>2. next \notin dropped
    BY <2>1, IterateFacts, <1>1
  <2>3. 1 .. next' - 1 = dropped \union Elapsed \union {held.at} \union {next}
    BY <2>1, IterateFacts, <1>1
  <2>4. /\ 1 .. next' - 1 = dropped' \union Elapsed' \union Held'
        /\ dropped' \intersect (Elapsed' \union Held') = {}
    BY <1>1, <1>4, <1>6, <2>1, <2>2, <2>3
  <2> QED BY <1>1, <2>4 DEF Accounted
<1> QED BY <1>4, <1>5, <1>7 DEF SInv

LEMMA FlushKeeps ==
  ASSUME SInv, Flush
  PROVE  SInv'
<1>1. /\ holding = TRUE /\ holding' = FALSE
      /\ log' = Append(log, held.at) /\ sent' = sent + 1
      /\ UNCHANGED <<call, next, swapped, dropped>>
  BY DEF Flush, SInv, SenderType
<1>2. /\ next \in Nat /\ held.at \in 1 .. next - 1
      /\ \A i \in 1 .. Len(log) : log[i] < held.at
  BY <1>1 DEF SInv, SenderType, Accounted
<1>3. held.at \in Nat
  BY <1>2
<1>4. log' \in Seq(Nat) /\ Orderly' /\ Elapsed' = Elapsed \union {held.at}
  BY <1>1, <1>2, <1>3, LogAppend
<1>5. SenderType'
  <2>1. sent' = sent + 1 /\ sent \in Nat
    BY <1>1 DEF SInv, SenderType
  <2>2. sent' \in Nat
    BY <2>1
  <2>3. /\ UNCHANGED <<call, next, swapped>> /\ holding' \in BOOLEAN
    BY <1>1
  <2> QED BY <1>4, <2>2, <2>3 DEF SInv, SenderType
<1>6. Held = {held.at} /\ Held' = {}
  BY <1>1 DEF Held
<1>7. Accounted'
  BY <1>1, <1>4, <1>6 DEF SInv, Accounted
<1> QED BY <1>4, <1>5, <1>7 DEF SInv

LEMMA StepSInv ==
  ASSUME SInv, [StreamNext]_streamVars
  PROVE  SInv'
<1>1. CASE Drop
  BY <1>1, DropKeeps
<1>2. CASE SendAndRelease
  BY <1>2, SendAndReleaseKeeps
<1>3. CASE Hold
  BY <1>3, HoldKeeps
<1>4. CASE Send
  BY <1>4, SendKeeps
<1>5. CASE Flush
  BY <1>5, FlushKeeps
<1>6. CASE Lose \/ Duplicate \/ Overtake
  BY <1>6, OthersKeep DEF Lose, Duplicate, Overtake, Fault
<1>7. CASE Ignore \/ Hear
  <2>1. Arrive
    BY <1>7 DEF Ignore, Hear
  <2> QED BY <2>1, OthersKeep DEF Arrive
<1>8. CASE UNCHANGED streamVars
  BY <1>8, OthersKeep DEF streamVars
<1> QED BY <1>1, <1>2, <1>3, <1>4, <1>5, <1>6, <1>7, <1>8 DEF StreamNext

-----------------------------------------------------------------------------
LEMMA SInvAccounts ==
  ASSUME SInv
  PROVE  SenderAccounts
<1>1. log \in Seq(Nat) /\ DOMAIN log = 1 .. Len(log) /\ Len(log) \in Nat
  BY DEF SInv, SenderType
<1>2. Distinct(log, Len(log)) /\ NearlyOrdered(log, Len(log)) /\ sent = Len(log)
      /\ swapped = Cardinality(Overtaken(log, Len(log)))
  BY DEF SInv, Orderly
<1>3. IsInjective(log)
  BY <1>1, <1>2 DEF Distinct, IsInjective
<1>4. ToSet(log) = Elapsed
  BY <1>1 DEF ToSet, Elapsed, Elements
<1>5. dropped \intersect ToSet(log) = {}
  BY <1>4 DEF SInv, Accounted
<1>6. ASSUME SenderDone
      PROVE  dropped \union ToSet(log) = 1 .. call.total
  <2>1. Held = {} /\ next = call.total + 1 /\ call.total \in Nat
    BY <1>6 DEF SenderDone, Held, SInv, SenderType
  <2>2. next - 1 = call.total
    BY <2>1
  <2> QED BY <1>4, <2>1, <2>2 DEF SInv, Accounted
<1>7. \A i, j \in 1 .. Len(log) : i < j /\ log[i] > log[j] => j = i + 1
  BY <1>2 DEF NearlyOrdered
<1>8. swapped = Cardinality({i \in 1 .. Len(log) - 1 : log[i] > log[i + 1]})
  BY <1>2 DEF Overtaken
<1> QED BY <1>2, <1>3, <1>5, <1>6, <1>7, <1>8 DEF SenderAccounts

\* However long the call and whatever the options drop and hold back, no packet is
\* sent twice or forgotten, a held packet is overtaken by one packet only, and the
\* totals rtp_sender prints at the end are the true ones.
THEOREM SenderTrue == StreamSpec => []SenderAccounts
<1>1. StreamInit => SInv
  BY InitSInv
<1>2. SInv /\ [StreamNext]_streamVars => SInv'
  BY StepSInv
<1>3. SInv => SenderAccounts
  BY SInvAccounts
<1> QED BY <1>1, <1>2, <1>3, PTL DEF StreamSpec

-----------------------------------------------------------------------------
(* What the sender makes of a frame                                            *)

\* Adding to a remainder is adding to the number.
LEMMA ModShift ==
  ASSUME NEW x \in Int, NEW y \in Int
  PROVE  ((x % SeqSpace) + y) % SeqSpace = (x + y) % SeqSpace
<1> DEFINE M == SeqSpace
           r == x % M
           q == x \div M
           z == r + y
           k == ((x + y) \div M) - q - (z \div M)
<1>1. M \in Nat \ {0} /\ r \in 0 .. M - 1 /\ q \in Int /\ x = M * q + r
  BY DivMod DEF SeqNum
<1>2. z \in Int /\ z % M \in 0 .. M - 1 /\ z \div M \in Int /\ z = M * (z \div M) + (z % M)
  <2>1. z \in Int
    BY <1>1
  <2> HIDE DEF z, M
  <2> QED BY <1>1, <2>1
<1>3. /\ x + y \in Int /\ (x + y) % M \in 0 .. M - 1 /\ (x + y) \div M \in Int
      /\ x + y = M * ((x + y) \div M) + ((x + y) % M)
  BY DivMod DEF SeqNum
<1>4. x + y = M * q + z
  BY <1>1
<1> DEFINE a == z % M
           b == (x + y) % M
           A == z \div M
           B == (x + y) \div M
<1>5. a \in 0 .. M - 1 /\ b \in 0 .. M - 1 /\ A \in Int /\ B \in Int
      /\ z = M * A + a /\ x + y = M * B + b
  BY <1>2, <1>3
<1> HIDE DEF M, r, q, z, a, b, A, B
<1>6. M * (B - q - A) = a - b
  BY <1>1, <1>2, <1>4, <1>5
<1> DEFINE n == B - q - A
<1>7. n \in Int /\ M * n = a - b /\ M * n < M /\ M * n > -M
  BY <1>1, <1>5, <1>6
<1> HIDE DEF n
<1>8. n = 0
  <2>1. n >= 1 => M * n >= M
    BY <1>1, <1>7
  <2>2. n <= -1 => M * n <= -M
    BY <1>1, <1>7
  <2> QED BY <1>1, <1>7, <2>1, <2>2
<1>9. a = b
  BY <1>1, <1>5, <1>7, <1>8
<1> QED BY <1>9 DEF a, b, z, r, M

\* The sequence number of frame i, and its datagram.
Number(i) == (call.start + (i - 1)) % SeqSpace

Sound(i) ==
  IF i = call.key THEN Packet(TRUE, EventPT, Number(i), <<5, 10, 0, 0>>)
  ELSE Packet(i = 1, IF call.law = "A" THEN 8 ELSE 0, Number(i), Encode(call.law, Frame(i)))

Made(i) == [at |-> i, dg |-> Dress(Serialize(Sound(i)), call.style)]

Datagrams ==
  {Made(i) : i \in 1 .. call.total} \union {[at |-> NoIndex, dg |-> s] : s \in Stray}

CallType ==
  /\ call.total \in Nat \ {0} /\ call.total <= MaxTotal
  /\ call.start \in SeqNum /\ call.style \in Styles

LEMMA CallsTyped == ASSUME call \in Calls PROVE CallType
BY StreamAssumption, HalfAssumption DEF Calls, CallType, Styles, SeqNum, SeqSpace

\* A packet without CSRC list is its header and its payload.
LEMMA Serialized ==
  ASSUME NEW m, NEW pt \in 0 .. 127, NEW s, NEW b, <<>> \o b = b
  PROVE  Serialize(Packet(m, pt, s, b)) =
           [head |-> [version |-> 2, padding |-> FALSE, extension |-> FALSE, cc |-> 0,
                      marker |-> m, payloadType |-> pt, sequence |-> s],
            rest |-> b]
<1> DEFINE e == <<>>
           d == SubSeq(e, 1, 4 * 0)
<1>1. Len(e) = 0 /\ 0 \div 4 = 0 /\ d = <<>>
  OBVIOUS
<1>3. d \o b = b
  BY <1>1
<1>4. pt % 128 = pt
  OBVIOUS
<1>5. ~(0 > 60)
  OBVIOUS
<1> DEFINE pkt == Packet(m, pt, s, b)
<1>6. /\ pkt.csrc = e /\ pkt.payload = b /\ pkt.padding = FALSE /\ pkt.extension = FALSE
      /\ pkt.marker = m /\ pkt.payloadType = pt /\ pkt.sequence = s
  BY DEF Packet
<1> HIDE DEF pkt, e
<1>7. (IF Len(pkt.csrc) > 60 THEN 15 ELSE Len(pkt.csrc) \div 4) = 0
  BY <1>1, <1>5, <1>6
<1> HIDE DEF d
<1>8. Serialize(pkt) =
        [head |-> [version |-> 2, padding |-> pkt.padding, extension |-> pkt.extension,
                   cc |-> 0, marker |-> pkt.marker,
                   payloadType |-> pkt.payloadType % 128, sequence |-> pkt.sequence],
         rest |-> SubSeq(pkt.csrc, 1, 4 * 0) \o pkt.payload]
  BY <1>7 DEF Serialize
<1>9. SubSeq(pkt.csrc, 1, 4 * 0) \o pkt.payload = b
  BY <1>3, <1>6 DEF d
<1> QED BY <1>4, <1>6, <1>8, <1>9 DEF pkt

\* Nothing of a stray datagram is taken for a packet.
LEMMA StrayRefused ==
  ASSUME NEW s \in Stray
  PROVE  Parse(s) = NoPacket
<1> DEFINE two == <<200, 200>>
           dg == Serialize(Packet(FALSE, 0, 0, two))
           long == <<0, 0, 0, 2>> \o two
           zero == <<0, 0>>
<1>1. two \in Seq(Int) /\ Len(two) = 2 /\ two[2] = 200 /\ two # <<>>
  OBVIOUS
<1>2. Len(long) = 6 /\ long[3] = 0 /\ long[4] = 2
  OBVIOUS
<1>3. Len(zero) = 2 /\ zero[2] = 0 /\ zero # <<>>
  OBVIOUS
<1>4. dg = [head |-> [version |-> 2, padding |-> FALSE, extension |-> FALSE, cc |-> 0,
                      marker |-> FALSE, payloadType |-> 0, sequence |-> 0],
            rest |-> two]
  <2>1. <<>> \o two = two /\ 0 \in 0 .. 127
    BY <1>1
  <2> HIDE DEF two
  <2> QED BY <2>1, Serialized
<1> DEFINE h == dg.head
<1>5. s \in {[head |-> [h EXCEPT !.version = 0], rest |-> dg.rest],
             [head |-> [h EXCEPT !.cc = 1], rest |-> dg.rest],
             [head |-> [h EXCEPT !.extension = TRUE], rest |-> dg.rest],
             [head |-> [h EXCEPT !.extension = TRUE], rest |-> <<0, 0, 0, 2>> \o dg.rest],
             [head |-> [h EXCEPT !.padding = TRUE], rest |-> dg.rest],
             [head |-> [h EXCEPT !.padding = TRUE], rest |-> <<0, 0>>]}
  BY DEF Stray
<1>6. dg.rest = two /\ <<0, 0, 0, 2>> \o dg.rest = long
  <2>1. dg.rest = two
    <3> HIDE DEF dg, two
    <3> QED BY <1>4
  <2> QED BY <2>1
<1>7. h = [version |-> 2, padding |-> FALSE, extension |-> FALSE, cc |-> 0,
           marker |-> FALSE, payloadType |-> 0, sequence |-> 0]
  <2> HIDE DEF dg, two
  <2> QED BY <1>4
<1> HIDE DEF h, dg, two, long, zero
<1>8. \/ s.head.version = 0
      \/ s.head.cc = 1 /\ Len(s.rest) = 2
      \/ s.head.extension /\ s.head.cc = 0 /\ Len(s.rest) = 2
      \/ s.head.extension /\ s.head.cc = 0 /\ Len(s.rest) = 6 /\ s.rest[3] = 0 /\ s.rest[4] = 2
      \/ s.head.padding /\ ~s.head.extension /\ s.head.cc = 0 /\ Len(s.rest) = 2
         /\ s.rest # <<>> /\ s.rest[2] \in {200, 0}
  <2>1. CASE s = [head |-> [h EXCEPT !.version = 0], rest |-> dg.rest]
    BY <2>1, <1>7
  <2>2. CASE s = [head |-> [h EXCEPT !.cc = 1], rest |-> dg.rest]
    BY <2>2, <1>1, <1>6, <1>7
  <2>3. CASE s = [head |-> [h EXCEPT !.extension = TRUE], rest |-> dg.rest]
    BY <2>3, <1>1, <1>6, <1>7
  <2>4. CASE s = [head |-> [h EXCEPT !.extension = TRUE], rest |-> long]
    BY <2>4, <1>2, <1>7
  <2>5. CASE s = [head |-> [h EXCEPT !.padding = TRUE], rest |-> dg.rest]
    BY <2>5, <1>1, <1>6, <1>7
  <2>6. CASE s = [head |-> [h EXCEPT !.padding = TRUE], rest |-> zero]
    BY <2>6, <1>3, <1>7
  <2> QED BY <1>5, <1>6, <2>1, <2>2, <2>3, <2>4, <2>5, <2>6 DEF zero
<1>9. ~WellFormed(s.head, s.rest)
  <2> DEFINE h0 == s.head
             r  == s.rest
  <2>1. /\ h0.cc = 0 => CsrcBytes(h0) = 0
        /\ h0.cc = 1 => CsrcBytes(h0) = 4
    BY DEF CsrcBytes
  <2>2. CASE h0.version = 0
    BY <2>2 DEF WellFormed
  <2>6. CASE h0.cc = 1 /\ Len(r) = 2
    <3>1. ~(Len(r) >= CsrcBytes(h0))
      BY <2>1, <2>6
    <3> QED BY <3>1 DEF WellFormed
  <2>3. CASE h0.extension /\ h0.cc = 0 /\ Len(r) = 2
    BY <2>1, <2>3 DEF WellFormed, ExtensionFits
  <2>4. CASE h0.extension /\ h0.cc = 0 /\ Len(r) = 6 /\ r[3] = 0 /\ r[4] = 2
    <3>1. ExtensionWords(h0, r) = 2
      BY <2>1, <2>4 DEF ExtensionWords
    <3>2. PayloadStart(h0, r) = 12
      BY <2>1, <2>4, <3>1 DEF PayloadStart
    <3> QED BY <2>4, <3>2 DEF WellFormed
  <2>5. CASE h0.padding /\ ~h0.extension /\ h0.cc = 0 /\ Len(r) = 2
             /\ r # <<>> /\ r[2] \in {200, 0}
    <3>1. PayloadStart(h0, r) = 0
      BY <2>1, <2>5 DEF PayloadStart
    <3>2. PadLength(h0, r) \in {200, 0}
      BY <2>5 DEF PadLength
    <3> QED BY <2>5, <3>1, <3>2 DEF WellFormed
  <2> QED BY <1>8, <2>2, <2>3, <2>4, <2>5, <2>6
<1> QED BY <1>9 DEF Parse

-----------------------------------------------------------------------------
(* Parsing what the sender sent *)

\* The payload lies between what a phone puts before and behind it.
LEMMA Middle ==
  ASSUME NEW S, NEW a \in Seq(S), NEW b \in Seq(S), NEW c \in Seq(S)
  PROVE  SubSeq((a \o b) \o c, Len(a) + 1, Len((a \o b) \o c) - Len(c)) = b
<1> DEFINE w == (a \o b) \o c
           v == SubSeq(w, Len(a) + 1, Len(w) - Len(c))
<1>1. /\ Len(a) \in Nat /\ Len(b) \in Nat /\ Len(c) \in Nat
      /\ w \in Seq(S) /\ Len(w) = Len(a) + Len(b) + Len(c)
      /\ \A i \in 1 .. Len(b) : w[Len(a) + i] = b[i]
  OBVIOUS
<1> HIDE DEF w
<1>2. /\ v \in Seq(S) /\ Len(v) = Len(b)
      /\ \A i \in 1 .. Len(b) : v[i] = w[Len(a) + i]
  BY <1>1
<1> HIDE DEF v
<1>3. v = b
  BY <1>1, <1>2
<1> QED BY <1>3 DEF v, w

\* Some bytes; of what is not interpreted here.
Bytes(b) == \E S : Int \subseteq S /\ b \in Seq(S)

\* Parse gives the header fields recvLoop looks at, and the payload.
ReadsAs(dg, pt, s, b) ==
  LET pkt == Parse(dg)
  IN  pkt # NoPacket /\ pkt.payloadType = pt /\ pkt.sequence = s /\ pkt.payload = b

\* Whatever a phone puts around the payload, parse finds the payload, and the header
\* fields that recvLoop reads.
THEOREM PayloadFound ==
  ASSUME NEW b, Bytes(b),
         NEW m, NEW pt \in 0 .. 127, NEW s, NEW style \in Styles
  PROVE  ReadsAs(Dress(Serialize(Packet(m, pt, s, b)), style), pt, s, b)
<1>0. PICK S : Int \subseteq S /\ b \in Seq(S)
  BY DEF Bytes
<1> DEFINE plain == Serialize(Packet(m, pt, s, b))
           csrc == <<1, 2, 3, 4>>
           ext  == <<9, 9, 0, 1, 5, 6, 7, 8>>
           pad  == <<0, 2>>
           none == <<>>
           dg   == Dress(plain, style)
           h    == dg.head
           r    == dg.rest
<1>1. plain = [head |-> [version |-> 2, padding |-> FALSE, extension |-> FALSE, cc |-> 0,
                         marker |-> m, payloadType |-> pt, sequence |-> s],
               rest |-> b]
  <2>1. <<>> \o b = b
    BY <1>0
  <2> QED BY <2>1, Serialized
<1> HIDE DEF plain
<1>2. plain.rest = b
  BY <1>1
<1>3. /\ csrc \in Seq(S) /\ Len(csrc) = 4
      /\ ext \in Seq(S) /\ Len(ext) = 8 /\ ext[3] = 0 /\ ext[4] = 1
      /\ pad \in Seq(S) /\ Len(pad) = 2 /\ pad[2] = 2
      /\ none \in Seq(S) /\ Len(none) = 0 /\ b \in Seq(S)
  BY <1>0
<1>9. ASSUME NEW x \in Seq(S), NEW y \in Seq(S)
      PROVE  /\ x \o y \in Seq(S)
             /\ Len(x) \in Nat /\ Len(y) \in Nat /\ Len(x \o y) = Len(x) + Len(y)
             /\ \A i \in 1 .. Len(x) : (x \o y)[i] = x[i]
             /\ \A i \in 1 .. Len(y) : (x \o y)[Len(x) + i] = y[i]
  OBVIOUS
<1> DEFINE both == csrc \o ext
<1> HIDE DEF csrc, ext, pad, none
<1>10. /\ Len(b) \in Nat
       /\ Len(csrc \o b) = Len(b) + 4
       /\ Len(ext \o b) = Len(b) + 8 /\ (ext \o b)[3] = 0 /\ (ext \o b)[4] = 1
       /\ Len(b \o pad) = Len(b) + 2 /\ (b \o pad)[Len(b) + 2] = 2
       /\ both \in Seq(S) /\ Len(both) = 12 /\ both[7] = 0 /\ both[8] = 1
  <2>1. Len(b) \in Nat /\ Len(csrc \o b) = Len(csrc) + Len(b)
    BY <1>3, <1>9
  <2>2. /\ Len(ext \o b) = Len(ext) + Len(b)
        /\ \A i \in 1 .. Len(ext) : (ext \o b)[i] = ext[i]
    BY <1>3, <1>9
  <2>3. /\ Len(b \o pad) = Len(b) + Len(pad)
        /\ \A i \in 1 .. Len(pad) : (b \o pad)[Len(b) + i] = pad[i]
    BY <1>3, <1>9
  <2>4. /\ both \in Seq(S) /\ Len(both) = Len(csrc) + Len(ext)
        /\ \A i \in 1 .. Len(ext) : both[Len(csrc) + i] = ext[i]
    BY <1>3, <1>9
  <2> HIDE DEF both
  <2>5. both[7] = ext[3] /\ both[8] = ext[4]
    <3>1. both[4 + 3] = ext[3] /\ both[4 + 4] = ext[4]
      BY ONLY <1>3, <2>4
    <3> QED BY ONLY <3>1
  <2>6. (ext \o b)[3] = 0 /\ (ext \o b)[4] = 1
    BY ONLY <1>3, <2>2
  <2>7. (b \o pad)[Len(b) + 2] = 2
    BY ONLY <1>3, <2>3
  <2>8. Len(csrc \o b) = Len(b) + 4 /\ Len(ext \o b) = Len(b) + 8 /\ Len(b \o pad) = Len(b) + 2
        /\ Len(both) = 12
    BY ONLY <1>3, <2>1, <2>2, <2>3, <2>4
  <2> QED BY ONLY <1>3, <2>1, <2>4, <2>5, <2>6, <2>7, <2>8
<1> HIDE DEF both
<1> DEFINE around == (both \o b) \o pad
<1>11. /\ Len(around) = Len(b) + 14 /\ around[Len(b) + 14] = 2
       /\ around[7] = 0 /\ around[8] = 1
  <2> DEFINE u == both \o b
  <2>1. /\ u \in Seq(S) /\ Len(u) = Len(both) + Len(b)
        /\ \A i \in 1 .. Len(both) : u[i] = both[i]
    <3>1. both \in Seq(S) /\ b \in Seq(S)
      BY ONLY <1>0, <1>10
    <3> QED BY ONLY <3>1, <1>9
  <2> HIDE DEF u
  <2>2. /\ Len(u \o pad) = Len(u) + Len(pad)
        /\ \A i \in 1 .. Len(u) : (u \o pad)[i] = u[i]
        /\ \A i \in 1 .. Len(pad) : (u \o pad)[Len(u) + i] = pad[i]
    <3>1. u \in Seq(S) /\ pad \in Seq(S)
      BY ONLY <1>3, <2>1
    <3> QED BY ONLY <3>1, <1>9
  <2>3. Len(u) = Len(b) + 12 /\ u[7] = 0 /\ u[8] = 1
    BY ONLY <1>10, <2>1
  <2>4. (u \o pad)[7] = 0 /\ (u \o pad)[8] = 1 /\ Len(u \o pad) = Len(b) + 14
    BY ONLY <1>3, <1>10, <2>2, <2>3
  <2>5. (u \o pad)[(Len(b) + 12) + 2] = 2
    BY ONLY <1>3, <2>2, <2>3
  <2>6. (Len(b) + 12) + 2 = Len(b) + 14
    BY ONLY <1>10
  <2> QED BY ONLY <2>4, <2>5, <2>6 DEF u
<1>12. \A z : Len(z) >= 1 => z # none
  BY <1>3
<1> HIDE DEF around
\* The bytes behind the header: what precedes the payload, the payload, the padding.
<1>4. \E a, c \in Seq(S) :
        /\ r = (a \o b) \o c
        /\ h.version = 2 /\ h.marker = m /\ h.payloadType = pt /\ h.sequence = s
        /\ WellFormed(h, r)
        /\ PayloadStart(h, r) = Len(a) /\ PadLength(h, r) = Len(c)
  <2>1. CASE style = "plain"
    <3>1. dg = plain
      BY <2>1 DEF Dress
    <3>2. h.version = 2 /\ h.marker = m /\ h.payloadType = pt /\ h.sequence = s
          /\ h.padding = FALSE /\ h.extension = FALSE /\ h.cc = 0 /\ r = b
      BY <3>1, <1>1
    <3>3. r = (none \o b) \o none
      BY <3>2, <1>3 DEF none
    <3>4. CsrcBytes(h) = 0 /\ PayloadStart(h, r) = 0 /\ PadLength(h, r) = 0
      BY <3>2 DEF CsrcBytes, PayloadStart, PadLength
    <3>5. WellFormed(h, r)
      BY <3>2, <3>4 DEF WellFormed
    <3> QED BY <1>3, <3>2, <3>3, <3>4, <3>5
  <2>2. CASE style = "csrc"
    <3>1. dg = [head |-> [plain.head EXCEPT !.cc = 1], rest |-> csrc \o b]
      BY <2>2, <1>2 DEF Dress, csrc
    <3>2. h.version = 2 /\ h.marker = m /\ h.payloadType = pt /\ h.sequence = s
          /\ h.padding = FALSE /\ h.extension = FALSE /\ h.cc = 1 /\ r = csrc \o b
      BY <3>1, <1>1
    <3>3. r = (csrc \o b) \o none
      BY <3>2, <1>3 DEF none
    <3>4. CsrcBytes(h) = 4 /\ PayloadStart(h, r) = 4 /\ PadLength(h, r) = 0
      BY <3>2 DEF CsrcBytes, PayloadStart, PadLength
    <3>5. Len(r) >= 4
      BY <3>2, <1>10
    <3>6. WellFormed(h, r)
      BY <3>2, <3>4, <3>5 DEF WellFormed
    <3> QED BY <1>3, <3>2, <3>3, <3>4, <3>6
  <2>3. CASE style = "extension"
    <3>1. dg = [head |-> [plain.head EXCEPT !.extension = TRUE], rest |-> ext \o b]
      BY <2>3, <1>2 DEF Dress, ext
    <3>2. h.version = 2 /\ h.marker = m /\ h.payloadType = pt /\ h.sequence = s
          /\ h.padding = FALSE /\ h.extension = TRUE /\ h.cc = 0 /\ r = ext \o b
      BY <3>1, <1>1
    <3>3. r = (ext \o b) \o none
      BY <3>2, <1>3 DEF none
    <3>4. Len(r) >= 8 /\ r[3] = 0 /\ r[4] = 1
      BY <3>2, <1>10
    <3>5. CsrcBytes(h) = 0 /\ ExtensionWords(h, r) = 1 /\ PadLength(h, r) = 0
      BY <3>2, <3>4 DEF CsrcBytes, ExtensionWords, PadLength
    <3>6. PayloadStart(h, r) = 8
      BY <3>2, <3>5 DEF PayloadStart
    <3>7. WellFormed(h, r)
      BY <3>2, <3>4, <3>5, <3>6 DEF WellFormed, ExtensionFits
    <3> QED BY <1>3, <3>2, <3>3, <3>5, <3>6, <3>7
  <2>4. CASE style = "padding"
    <3>1. dg = [head |-> [plain.head EXCEPT !.padding = TRUE], rest |-> b \o pad]
      BY <2>4, <1>2 DEF Dress, pad
    <3>2. h.version = 2 /\ h.marker = m /\ h.payloadType = pt /\ h.sequence = s
          /\ h.padding = TRUE /\ h.extension = FALSE /\ h.cc = 0 /\ r = b \o pad
      BY <3>1, <1>1
    <3>3. r = (none \o b) \o pad
      BY <3>2, <1>3 DEF none
    <3>4. Len(r) = Len(b) + 2 /\ r[Len(r)] = 2 /\ Len(r) >= 2 /\ r # none
      BY <3>2, <1>10, <1>12
    <3>5. CsrcBytes(h) = 0 /\ PayloadStart(h, r) = 0 /\ PadLength(h, r) = 2
      BY <3>2, <3>4 DEF CsrcBytes, PayloadStart, PadLength, none
    <3>6. WellFormed(h, r)
      <4>1. 2 \in 1 .. Len(r) - 0
        BY <3>4
      <4> QED BY <3>2, <3>4, <3>5, <4>1 DEF WellFormed
    <3> QED BY <1>3, <3>2, <3>3, <3>5, <3>6
  <2>5. CASE style = "all"
    <3>1. dg = [head |-> [plain.head EXCEPT !.cc = 1, !.extension = TRUE, !.padding = TRUE],
                rest |-> around]
      BY <2>5, <1>2 DEF Dress, csrc, ext, pad, both, around
    <3>2. h.version = 2 /\ h.marker = m /\ h.payloadType = pt /\ h.sequence = s
          /\ h.padding = TRUE /\ h.extension = TRUE /\ h.cc = 1
          /\ r = around
      <4> DEFINE g == [plain.head EXCEPT !.cc = 1, !.extension = TRUE, !.padding = TRUE]
      <4>1. g.version = 2 /\ g.marker = m /\ g.payloadType = pt /\ g.sequence = s
            /\ g.padding = TRUE /\ g.extension = TRUE /\ g.cc = 1
        BY <1>1
      <4> HIDE DEF g
      <4>2. h = g /\ r = around
        BY <3>1 DEF g
      <4> QED BY <4>1, <4>2
    <3>3. r = (both \o b) \o pad /\ both \in Seq(S) /\ Len(both) = 12
      BY <3>2, <1>10 DEF around
    <3>4. Len(r) = Len(b) + 14 /\ r[Len(r)] = 2 /\ r[7] = 0 /\ r[8] = 1 /\ r # none
          /\ Len(b) \in Nat
      BY <3>2, <1>10, <1>11, <1>12
    <3>5. CsrcBytes(h) = 4 /\ ExtensionWords(h, r) = 1 /\ PadLength(h, r) = 2
      BY <3>2, <3>4 DEF CsrcBytes, ExtensionWords, PadLength, none
    <3>6. PayloadStart(h, r) = 12
      BY <3>2, <3>5 DEF PayloadStart
    <3>7. WellFormed(h, r)
      <4>1. 2 \in 1 .. Len(r) - 12 /\ Len(r) >= 12
        BY <3>4
      <4> QED BY <3>2, <3>5, <3>6, <4>1 DEF WellFormed, ExtensionFits
    <3> QED BY <1>3, <3>2, <3>3, <3>5, <3>6, <3>7
  <2> QED BY <2>1, <2>2, <2>3, <2>4, <2>5 DEF Styles
<1> HIDE DEF dg
<1>5. PICK a, c \in Seq(S) :
        /\ r = (a \o b) \o c
        /\ h.version = 2 /\ h.marker = m /\ h.payloadType = pt /\ h.sequence = s
        /\ WellFormed(h, r)
        /\ PayloadStart(h, r) = Len(a) /\ PadLength(h, r) = Len(c)
  BY <1>4
<1>6. SubSeq(r, PayloadStart(h, r) + 1, Len(r) - PadLength(h, r)) = b
  <2>1. SubSeq((a \o b) \o c, Len(a) + 1, Len((a \o b) \o c) - Len(c)) = b
    BY <1>0, Middle
  <2> QED BY ONLY <1>5, <2>1
<1> DEFINE pkt == Parse(dg)
<1>7. pkt.payloadType = pt /\ pkt.sequence = s /\ pkt.payload = b
  BY <1>5, <1>6 DEF Parse
<1>8. NoPacket.payloadType = -1 /\ pt # -1
  BY DEF NoPacket
<1> HIDE DEF pkt
<1>13. pkt # NoPacket
  BY <1>7, <1>8
<1> QED BY <1>7, <1>13 DEF pkt, dg, plain, ReadsAs

LEMMA EncodedIsBytes ==
  ASSUME NEW law, NEW x, NEW y
  PROVE  Bytes(Encode(law, <<x, y>>))
<1> DEFINE e == Encode(law, <<x, y>>)
           S == Int \union {e[1], e[2]}
<1>1. DOMAIN <<x, y>> = 1 .. 2
  OBVIOUS
<1>2. \E F : e = [i \in 1 .. 2 |-> F[i]]
  <2> DEFINE F == [i \in 1 .. 2 |-> IF law = "A" THEN EncodeALaw(<<x, y>>[i])
                                    ELSE EncodeMuLaw(<<x, y>>[i])]
  <2>1. e = [i \in 1 .. 2 |-> F[i]]
    BY <1>1 DEF Encode
  <2> HIDE DEF F
  <2> QED BY <2>1
<1> HIDE DEF e
<1>3. PICK F : e = [i \in 1 .. 2 |-> F[i]]
  BY <1>2
<1>4. \A i \in 1 .. 2 : e[i] \in S
  <2>1. \A i \in 1 .. 2 : i = 1 \/ i = 2
    OBVIOUS
  <2> QED BY <2>1
<1> HIDE DEF S
<1>6. e \in Seq(S)
  <2>1. e = <<e[1], e[2]>>
    BY <1>3
  <2>2. e[1] \in S /\ e[2] \in S
    BY <1>4
  <2> DEFINE p == e[1]
             q == e[2]
  <2> HIDE DEF p, q
  <2>3. <<p, q>> \in Seq(S)
    BY <2>2 DEF p, q
  <2> QED BY <2>1, <2>3 DEF p, q
<1>7. Int \subseteq S
  BY DEF S
<1> QED BY <1>6, <1>7 DEF e, Bytes

\* The packet of every frame is read as what the sender made of it.
LEMMA MadeRead ==
  ASSUME CallType, NEW i \in 1 .. call.total
  PROVE  LET pkt == Parse(Made(i).dg)
         IN  /\ pkt # NoPacket
             /\ pkt.sequence = Number(i)
             /\ IsEvent(pkt) <=> i = call.key
             /\ pkt.payload = Sound(i).payload
<1> DEFINE pkt == Parse(Made(i).dg)
<1>1. CASE i = call.key
  <2> DEFINE b == <<5, 10, 0, 0>>
  <2>1. Bytes(b) /\ EventPT \in 0 .. 127
    <3>1. b \in Seq(Int)
      OBVIOUS
    <3>2. Int \subseteq Int
      OBVIOUS
    <3> HIDE DEF b
    <3>3. \E S : Int \subseteq S /\ b \in Seq(S)
      <4> WITNESS Int
      <4> QED BY <3>1, <3>2
    <3> QED BY <3>3 DEF EventPT, Bytes
  <2>2. Sound(i) = Packet(TRUE, EventPT, Number(i), b)
    BY <1>1 DEF Sound
  <2>3. Sound(i).payload = b
    BY <2>2 DEF Packet
  <2> HIDE DEF b
  <2>4. ReadsAs(Dress(Serialize(Packet(TRUE, EventPT, Number(i), b)), call.style),
                EventPT, Number(i), b)
    BY <2>1, PayloadFound DEF CallType
  <2>5. pkt # NoPacket /\ pkt.payloadType = EventPT /\ pkt.sequence = Number(i) /\ pkt.payload = b
    BY <2>2, <2>4 DEF ReadsAs, Made
  <2> QED BY <1>1, <2>3, <2>5 DEF IsEvent, EventPT
<1>2. CASE i # call.key
  <2> DEFINE b == Encode(call.law, Frame(i))
             pt == IF call.law = "A" THEN 8 ELSE 0
             m == i = 1
  <2>1. Bytes(b)
    BY EncodedIsBytes DEF Frame
  <2>2. Sound(i) = Packet(m, pt, Number(i), b)
    BY <1>2 DEF Sound
  <2>3. pt \in 0 .. 127 /\ pt # EventPT
    BY DEF EventPT
  <2> HIDE DEF b, pt, m
  <2>4. Sound(i).payload = b
    BY <2>2 DEF Packet
  <2>5. ReadsAs(Dress(Serialize(Packet(m, pt, Number(i), b)), call.style), pt, Number(i), b)
    BY <2>1, <2>3, PayloadFound DEF CallType
  <2>6. pkt # NoPacket /\ pkt.payloadType = pt /\ pkt.sequence = Number(i) /\ pkt.payload = b
    BY <2>2, <2>5 DEF ReadsAs, Made, m
  <2> QED BY <1>2, <2>3, <2>4, <2>6 DEF IsEvent
<1> QED BY <1>1, <1>2

-----------------------------------------------------------------------------
(* The link, and what the receiver takes from it *)

\* At most one datagram is none of the sender's: the one a call of one packet starts with.
WireType ==
  /\ wire \in Seq(Datagrams)
  /\ \A k \in 1 .. Len(wire) : wire[k].at = NoIndex => k = 1 /\ call.total = 1
  /\ faults \in 0 .. MaxFaults

Foreign == IF wire # <<>> /\ wire[1].at = NoIndex THEN 1 ELSE 0

\* Every datagram sent and held is the one its frame gives.
Packed ==
  /\ seq = Number(next)
  /\ holding => held = Made(held.at)

Waiting == IF holding THEN 1 ELSE 0
Pending == (call.total - (next - 1)) + Waiting

\* What is counted, under way or still to be sent is no more than the call has, and
\* the link has doubled.
Budget == received + Len(wire) + Pending <= call.total + faults + Foreign

\* The positions on the scale of RtpStats are the indices of the call, shifted.
Placed ==
  started => /\ firstAt \in 1 .. call.total
             /\ baseExt = Number(firstAt)
             /\ \A p \in seen : firstAt + (p - baseExt) \in 1 .. call.total

LinkInv == CallType /\ WireType /\ Packed /\ Budget /\ Placed

LEMMA DatagramTyped ==
  ASSUME NEW d \in Datagrams
  PROVE  \/ d.at \in 1 .. call.total /\ d = Made(d.at)
         \/ d.at = NoIndex /\ Parse(d.dg) = NoPacket
<1>1. CASE \E i \in 1 .. call.total : d = Made(i)
  <2>1. PICK i \in 1 .. call.total : d = Made(i)
    BY <1>1
  <2>2. d.at = i
    BY <2>1 DEF Made
  <2> QED BY <2>1, <2>2
<1>2. CASE \E s \in Stray : d = [at |-> NoIndex, dg |-> s]
  <2>1. PICK s \in Stray : d = [at |-> NoIndex, dg |-> s]
    BY <1>2
  <2>2. d.at = NoIndex /\ d.dg = s
    BY <2>1
  <2> QED BY <2>2, StrayRefused
<1> QED BY <1>1, <1>2 DEF Datagrams

LEMMA NumberTyped ==
  ASSUME CallType, NEW i \in Int
  PROVE  Number(i) \in SeqNum /\ Number(i) \in Nat
<1>1. call.start + (i - 1) \in Int
  BY HalfAssumption DEF CallType, SeqNum, SeqSpace
<1>2. Number(i) \in SeqNum
  BY <1>1, DivMod DEF Number
<1> QED BY <1>2, HalfAssumption DEF SeqNum, SeqSpace

\* Frames that are j apart have numbers that are j apart.
LEMMA NumberShift ==
  ASSUME CallType, NEW i \in Int, NEW j \in Int
  PROVE  (Number(i) + j) % SeqSpace = Number(i + j)
<1> DEFINE x == call.start + (i - 1)
<1>1. x \in Int
  BY HalfAssumption DEF CallType, SeqNum, SeqSpace
<1>2. x + j = call.start + ((i + j) - 1)
  BY <1>1, HalfAssumption DEF CallType, SeqNum, SeqSpace
<1> HIDE DEF x
<1>3. ((x % SeqSpace) + j) % SeqSpace = (x + j) % SeqSpace
  BY <1>1, ModShift
<1> QED BY <1>2, <1>3 DEF Number, x

-----------------------------------------------------------------------------
(* A packet that is counted is one RtpStats expects. *)
LEMMA CountIsUpdate ==
  ASSUME IInv, LinkInv, MaxTotal <= Half, MaxUpdates >= MaxTotal + MaxFaults,
         next \in 1 .. call.total + 1, holding \in BOOLEAN,
         NEW i \in 1 .. call.total, NEW pkt, pkt.sequence = Number(i),
         wire # <<>>, Foreign = 0, call' = call, Count(i, pkt)
  PROVE  Next /\ Placed' /\ received' = received + 1
<1>1. /\ call.total \in Nat /\ call.total <= Half /\ i \in Int /\ Half \in Nat
      /\ call.total <= MaxTotal
  BY StreamAssumption, HalfAssumption DEF LinkInv, CallType
<1>2. /\ Number(i) \in SeqNum /\ Number(i) \in Nat
  BY <1>1, NumberTyped DEF LinkInv
<1>3. /\ Update(Number(i))
      /\ pos' = Position(i, pkt)
      /\ seen' = seen \union {Position(i, pkt)}
      /\ late' = IF \E q \in seen : Position(i, pkt) < q THEN late + 1 ELSE late
      /\ firstAt' = IF started THEN firstAt ELSE i
  BY DEF Count
<1>4. received' = received + 1 /\ started' = TRUE
  BY <1>3 DEF Update, ReceivedAfter
<1>5. CASE ~started
  <2>1. Position(i, pkt) = Number(i) /\ seen = {} /\ late = 0
    BY <1>5 DEF Position, IInv, Fresh
  <2>2. seen' = {Number(i)} /\ pos' = Number(i) /\ late' = 0 /\ firstAt' = i
    BY <1>3, <1>5, <2>1
  <2>3. First(Number(i))
    BY <1>3, <1>5, <2>2 DEF First
  <2>4. baseExt' = Number(i)
    BY <1>3, <1>5 DEF Update, Unwrap
  <2> QED
    <3>1. Next
      BY <1>2, <2>3 DEF Next
    <3>2. i + (Number(i) - baseExt') = i
      BY <1>1, <1>2, <2>4
    <3>3. Number(i)' = Number(i)
      BY <1>1 DEF Number
    <3> QED BY <3>1, <3>2, <1>4, <2>2, <2>4 DEF Placed, Number
<1>6. CASE started
  <2> DEFINE p == baseExt + (i - firstAt)
  <2>1. /\ firstAt \in 1 .. call.total /\ baseExt = Number(firstAt) /\ baseExt \in Nat
        /\ \A q \in seen : firstAt + (q - baseExt) \in 1 .. call.total
        /\ maxExt \in seen /\ maxExt \in Nat
    BY <1>6 DEF LinkInv, Placed, IInv, TypeOK, UnwrapExact
  <2>2. Position(i, pkt) = p /\ p \in Int
    BY <1>1, <1>6, <2>1 DEF Position
  <2>3. p % SeqSpace = Number(i)
    <3>1. /\ firstAt \in Int /\ i - firstAt \in Int /\ firstAt + (i - firstAt) = i
      BY <1>1, <2>1
    <3> QED BY <2>1, <3>1, NumberShift DEF LinkInv
  <2>4. p \in (maxExt - Half + 1) .. (maxExt + Half - 1)
    <3>1. firstAt + (maxExt - baseExt) \in 1 .. call.total
      BY <2>1
    <3> DEFINE m == firstAt + (maxExt - baseExt)
    <3>2. m \in 1 .. call.total /\ firstAt \in Int /\ p - maxExt = i - m
      BY <1>1, <2>1
    <3>3. p - maxExt < Half /\ maxExt - p < Half
      <4> HIDE DEF m, p
      <4> QED BY <1>1, <2>1, <2>2, <3>2
    <3> HIDE DEF p
    <3> QED BY <1>1, <2>1, <2>2, <3>3
  <2>5. received < MaxUpdates
    <3>1. received + Len(wire) + Pending <= call.total + faults
          /\ Pending >= 0 /\ Pending \in Int
      <4>1. Pending \in Nat
        BY <1>1 DEF Pending, Waiting
      <4>2. received \in Nat /\ Len(wire) \in Nat /\ faults \in Int
        BY DEF LinkInv, WireType, IInv, TypeOK
      <4> QED BY <1>1, <4>1, <4>2 DEF LinkInv, Budget
    <3>2. Len(wire) >= 1 /\ Len(wire) \in Nat
      BY DEF LinkInv, WireType
    <3>3. faults \in Nat /\ faults <= MaxFaults /\ MaxFaults \in Nat /\ received \in Nat
          /\ MaxTotal \in Nat
      BY StreamAssumption DEF LinkInv, WireType, IInv, TypeOK
    <3> QED BY <1>1, <3>1, <3>2, <3>3, MaxUpdatesAssumption
  <2>6. Following(p)
    BY <1>3, <1>6, <2>2, <2>3, <2>5 DEF Following
  <2>7. Next
    BY <2>4, <2>6 DEF Next
  <2>8. baseExt' = baseExt /\ firstAt' = firstAt /\ seen' = seen \union {p}
    BY <1>3, <1>6, <2>2 DEF Update
  <2>9. firstAt + (p - baseExt) = i
    BY <1>1, <2>1
  <2> HIDE DEF p
  <2> QED BY <1>4, <2>1, <2>7, <2>8, <2>9 DEF Placed, Number
<1> QED BY <1>4, <1>5, <1>6

LEMMA InitLinkInv == StreamInit => LinkInv
<1> SUFFICES ASSUME StreamInit PROVE LinkInv
  OBVIOUS
<1>1. CallType
  BY CallsTyped DEF StreamInit
<1>2. /\ next = 1 /\ seq = call.start /\ holding = FALSE /\ faults = 0
      /\ started = FALSE /\ received = 0
  BY DEF StreamInit, Init
<1>3. \/ wire = <<>>
      \/ call.total = 1 /\ \E s \in Stray : wire = <<[at |-> NoIndex, dg |-> s]>>
  BY DEF StreamInit
<1>4. WireType /\ Budget
  <2>1. faults \in 0 .. MaxFaults
    BY <1>2, StreamAssumption
  <2>2. Pending = call.total /\ call.total \in Nat
    BY <1>1, <1>2 DEF Pending, Waiting, CallType
  <2>3. CASE wire = <<>>
    <3>1. Len(wire) = 0 /\ wire \in Seq(Datagrams)
      BY <2>3
    <3> QED BY <2>1, <2>2, <2>3, <3>1, <1>2 DEF WireType, Budget, Foreign
  <2>4. CASE call.total = 1 /\ \E s \in Stray : wire = <<[at |-> NoIndex, dg |-> s]>>
    <3>1. PICK s \in Stray : wire = <<[at |-> NoIndex, dg |-> s]>>
      BY <2>4
    <3> DEFINE d == [at |-> NoIndex, dg |-> s]
    <3>2. d \in Datagrams /\ d.at = NoIndex
      BY DEF Datagrams
    <3> HIDE DEF d
    <3>3. wire = <<d>>
      BY <3>1 DEF d
    <3>4. wire \in Seq(Datagrams) /\ Len(wire) = 1 /\ wire # <<>> /\ wire[1] = d
      BY <3>2, <3>3
    <3>5. Foreign = 1
      BY <3>2, <3>4 DEF Foreign
    <3> QED BY <2>1, <2>2, <2>4, <3>4, <3>5, <1>2 DEF WireType, Budget
  <2> QED BY <1>3, <2>3, <2>4
<1>5. Packed
  <2>1. call.start \in SeqNum /\ 0 <= call.start /\ call.start < SeqSpace /\ call.start \in Int
        /\ SeqSpace \in Nat
    BY <1>1, HalfAssumption DEF CallType, SeqNum, SeqSpace
  <2>2. call.start % SeqSpace = call.start
    BY <2>1, SmallMod
  <2>3. Number(next) = call.start
    <3>1. call.start + (1 - 1) = call.start
      BY <2>1
    <3> QED BY <1>2, <2>2, <3>1 DEF Number
  <2> QED BY <1>2, <2>3 DEF Packed
<1> QED BY <1>1, <1>2, <1>4, <1>5 DEF LinkInv, Placed

\* What is left alone when the receiver and the call stand still.
LEMMA Unmoved ==
  ASSUME LinkInv, UNCHANGED <<call, firstAt, vars>>
  PROVE  CallType' /\ Placed' /\ Datagrams' = Datagrams /\ received' = received
         /\ \A i : Made(i)' = Made(i) /\ Number(i)' = Number(i)
<1>1. call' = call
  OBVIOUS
<1>2. CallType' /\ received' = received
  BY <1>1 DEF LinkInv, CallType, vars
<1>3. \A i : Made(i)' = Made(i) /\ Number(i)' = Number(i)
  BY <1>1 DEF Made, Sound, Number, Frame
<1>4. Datagrams' = Datagrams
  BY <1>1, <1>3 DEF Datagrams
<1>5. Placed'
  BY <1>1 DEF LinkInv, Placed, Number, vars
<1> QED BY <1>2, <1>3, <1>4, <1>5

\* A held packet stays what it is.
LEMMA StaysPacked ==
  ASSUME LinkInv, call' = call, held' = held, holding' => holding, seq' = Number(next')
  PROVE  Packed'
<1>1. Made(held.at)' = Made(held.at) /\ Number(next)' = Number(next')
  BY DEF Made, Sound, Number, Frame
<1> QED BY <1>1 DEF LinkInv, Packed

\* Sending one or two datagrams of the sender's behind those under way.
LEMMA WireAppend ==
  ASSUME LinkInv, call' = call, faults' = faults, Datagrams' = Datagrams,
         NEW d \in Datagrams, d.at # NoIndex, wire' = Append(wire, d)
  PROVE  WireType' /\ Len(wire') = Len(wire) + 1 /\ Foreign' = Foreign
<1>1. /\ wire \in Seq(Datagrams) /\ wire' \in Seq(Datagrams) /\ wire' # <<>>
      /\ Len(wire) \in Nat /\ Len(wire') = Len(wire) + 1 /\ wire'[Len(wire) + 1] = d
      /\ \A k \in 1 .. Len(wire) : wire'[k] = wire[k]
  BY DEF LinkInv, WireType
<1>2. \A k \in 1 .. Len(wire') : wire'[k].at = NoIndex => k = 1 /\ call.total = 1
  <2>1. \A k \in 1 .. Len(wire') : k \in 1 .. Len(wire) \/ k = Len(wire) + 1
    BY <1>1
  <2> QED BY <1>1, <2>1 DEF LinkInv, WireType
<1>3. WireType'
  BY <1>1, <1>2 DEF LinkInv, WireType
<1>4. Foreign' = Foreign
  <2>1. wire = <<>> <=> Len(wire) = 0
    BY <1>1
  <2>2. CASE wire = <<>>
    BY <1>1, <2>1, <2>2 DEF Foreign
  <2>3. CASE wire # <<>>
    <3>1. wire'[1] = wire[1]
      BY <1>1, <2>1, <2>3
    <3> QED BY <1>1, <2>3, <3>1 DEF Foreign
  <2> QED BY <2>2, <2>3
<1> QED BY <1>1, <1>3, <1>4

LEMMA WireAppendTwo ==
  ASSUME LinkInv, call' = call, faults' = faults, Datagrams' = Datagrams,
         NEW d \in Datagrams, NEW e \in Datagrams,
         d.at # NoIndex, e.at # NoIndex, wire' = wire \o <<d, e>>
  PROVE  WireType' /\ Len(wire') = Len(wire) + 2 /\ Foreign' = Foreign
<1>1. /\ wire \in Seq(Datagrams) /\ wire' \in Seq(Datagrams) /\ wire' # <<>>
      /\ Len(wire) \in Nat /\ Len(wire') = Len(wire) + 2
      /\ wire'[Len(wire) + 1] = d /\ wire'[Len(wire) + 2] = e
      /\ \A k \in 1 .. Len(wire) : wire'[k] = wire[k]
  BY DEF LinkInv, WireType
<1>2. \A k \in 1 .. Len(wire') : wire'[k].at = NoIndex => k = 1 /\ call.total = 1
  <2>1. \A k \in 1 .. Len(wire') : k \in 1 .. Len(wire) \/ k = Len(wire) + 1 \/ k = Len(wire) + 2
    BY <1>1
  <2> QED BY <1>1, <2>1 DEF LinkInv, WireType
<1>3. WireType'
  BY <1>1, <1>2 DEF LinkInv, WireType
<1>4. Foreign' = Foreign
  <2>1. wire = <<>> <=> Len(wire) = 0
    BY <1>1
  <2>2. CASE wire = <<>>
    BY <1>1, <2>1, <2>2 DEF Foreign
  <2>3. CASE wire # <<>>
    <3>1. wire'[1] = wire[1]
      BY <1>1, <2>1, <2>3
    <3> QED BY <1>1, <2>3, <3>1 DEF Foreign
  <2> QED BY <2>2, <2>3
<1> QED BY <1>1, <1>3, <1>4

\* What comes behind the first datagram is the sender's.
LEMMA WireTail ==
  ASSUME LinkInv, call' = call, faults' \in 0 .. MaxFaults, Datagrams' = Datagrams,
         wire # <<>>, wire' = Tail(wire)
  PROVE  WireType' /\ Len(wire') = Len(wire) - 1 /\ Foreign' = 0
<1>1. /\ wire \in Seq(Datagrams) /\ wire' \in Seq(Datagrams)
      /\ Len(wire) \in Nat /\ Len(wire) >= 1 /\ Len(wire') = Len(wire) - 1
      /\ \A k \in 1 .. Len(wire') : wire'[k] = wire[k + 1]
  BY DEF LinkInv, WireType
<1>2. \A k \in 1 .. Len(wire') : wire'[k].at # NoIndex
  <2>1. \A k \in 1 .. Len(wire') : k + 1 \in 1 .. Len(wire) /\ k + 1 # 1
    BY <1>1
  <2> QED BY <1>1, <2>1 DEF LinkInv, WireType
<1>3. WireType'
  BY <1>1, <1>2 DEF WireType
<1>4. wire' # <<>> => 1 \in 1 .. Len(wire')
  BY <1>1
<1> QED BY <1>1, <1>2, <1>3, <1>4 DEF Foreign

\* An iteration of the sender's loop.
LEMMA IteratePacked ==
  ASSUME SInv, LinkInv, Iterate
  PROVE  /\ seq' = Number(next')
         /\ Datagram(next) = Made(next)
         /\ Made(next) \in Datagrams /\ Made(next).at = next /\ next # NoIndex
<1>1. /\ next \in Nat /\ next >= 1 /\ next <= call.total /\ next' = next + 1
      /\ seq' = (seq + 1) % SeqSpace /\ call.total \in Nat
  BY IterateFacts DEF Iterate
<1>2. seq = Number(next)
  BY DEF LinkInv, Packed
<1>3. (Number(next) + 1) % SeqSpace = Number(next + 1)
  BY <1>1, NumberShift DEF LinkInv
<1>4. Datagram(next) = Made(next)
  BY <1>2 DEF Datagram, Made, Sound
<1>5. next \in 1 .. call.total /\ next # NoIndex
  BY <1>1 DEF NoIndex
<1> QED BY <1>1, <1>2, <1>3, <1>4, <1>5 DEF Made, Datagrams

StreamInv == IInv /\ SInv /\ LinkInv

\* What the arithmetic of the budget needs to know.
LEMMA Quantities ==
  ASSUME StreamInv
  PROVE  /\ call.total \in Nat /\ next \in Nat /\ next >= 1 /\ next <= call.total + 1
         /\ holding \in BOOLEAN /\ received \in Nat /\ Len(wire) \in Nat
         /\ faults \in Nat /\ MaxFaults \in Nat /\ Foreign \in 0 .. 1 /\ Waiting \in 0 .. 1
BY StreamAssumption
   DEF StreamInv, IInv, TypeOK, SInv, SenderType, LinkInv, WireType, Foreign, Waiting

LEMMA Waits ==
  /\ holding' = holding => Waiting' = Waiting
  /\ holding = TRUE => Waiting = 1
  /\ holding = FALSE => Waiting = 0
  /\ holding' = FALSE => Waiting' = 0
  /\ holding' = TRUE => Waiting' = 1
BY DEF Waiting

LEMMA BudgetNow ==
  ASSUME StreamInv
  PROVE  received + Len(wire) + ((call.total - (next - 1)) + Waiting)
           <= call.total + faults + Foreign
BY DEF StreamInv, LinkInv, Budget, Pending

\* A datagram more is under way for a packet less to come or a fault more.
LEMMA BudgetKept ==
  ASSUME StreamInv, call' = call,
         /\ received' \in Int /\ Len(wire') \in Int /\ next' \in Int
         /\ Waiting' \in Int /\ faults' \in Int /\ Foreign' \in Int,
         (received' - received) + (Len(wire') - Len(wire)) + (Waiting' - Waiting)
           <= (next' - next) + (faults' - faults) + (Foreign' - Foreign)
  PROVE  Budget'
<1> DEFINE t == call.total
           a == received
           b == Len(wire)
           c == next
           d == Waiting
           e == faults
           g == Foreign
           a1 == received'
           b1 == Len(wire')
           c1 == next'
           d1 == Waiting'
           e1 == faults'
           g1 == Foreign'
<1>1. t \in Int /\ a \in Int /\ b \in Int /\ c \in Int /\ d \in Int /\ e \in Int /\ g \in Int
  BY ONLY StreamInv, Quantities
<1>2. a + b + ((t - (c - 1)) + d) <= t + e + g
  BY ONLY StreamInv, BudgetNow
<1>3. Budget' <=> a1 + b1 + ((t - (c1 - 1)) + d1) <= t + e1 + g1
  BY ONLY call' = call DEF Budget, Pending
<1>4. /\ a1 \in Int /\ b1 \in Int /\ c1 \in Int /\ d1 \in Int /\ e1 \in Int /\ g1 \in Int
      /\ (a1 - a) + (b1 - b) + (d1 - d) <= (c1 - c) + (e1 - e) + (g1 - g)
  OBVIOUS
<1> HIDE DEF t, a, b, c, d, e, g, a1, b1, c1, d1, e1, g1
<1>5. a1 + b1 + ((t - (c1 - 1)) + d1) <= t + e1 + g1
  BY ONLY <1>1, <1>2, <1>4
<1> QED BY ONLY <1>3, <1>5

LEMMA DropLinks ==
  ASSUME StreamInv, Drop
  PROVE  LinkInv'
<1>1. Iterate /\ UNCHANGED <<call, firstAt, vars, faults, holding, held, wire>>
  BY DEF Drop, Iterate
<1>2. /\ CallType' /\ Placed' /\ Datagrams' = Datagrams /\ received' = received
      /\ \A i : Made(i)' = Made(i) /\ Number(i)' = Number(i)
  BY <1>1, Unmoved DEF StreamInv
<1>3. WireType' /\ Foreign' = Foreign
  BY <1>1, <1>2 DEF StreamInv, LinkInv, WireType, Foreign
<1>4. Packed'
  BY <1>1, IteratePacked, StaysPacked DEF StreamInv
<1>5. Budget'
  <2>1. /\ Len(wire') = Len(wire) /\ next' = next + 1 /\ Waiting' = Waiting
        /\ faults' = faults /\ received' = received /\ Foreign' = Foreign
        /\ call' = call
    BY <1>1, <1>2, <1>3, Quantities, Waits DEF Iterate
  <2>2. /\ received \in Int /\ Len(wire) \in Int /\ next \in Int
        /\ Waiting \in Int /\ faults \in Int /\ Foreign \in Int
    BY ONLY StreamInv, Quantities
  <2>3. /\ received' \in Int /\ Len(wire') \in Int /\ next' \in Int
        /\ Waiting' \in Int /\ faults' \in Int /\ Foreign' \in Int
    BY ONLY <2>1, <2>2
  <2>4. (received' - received) + (Len(wire') - Len(wire)) + (Waiting' - Waiting)
          <= (next' - next) + (faults' - faults) + (Foreign' - Foreign)
    BY ONLY <2>1, <2>2
  <2> QED BY <2>1, <2>3, <2>4, BudgetKept
<1> QED BY <1>2, <1>3, <1>4, <1>5 DEF LinkInv

LEMMA HoldLinks ==
  ASSUME StreamInv, Hold
  PROVE  LinkInv'
<1>1. /\ Iterate /\ UNCHANGED <<call, firstAt, vars, faults, wire>>
      /\ holding = FALSE /\ holding' = TRUE /\ held' = Datagram(next)
  BY Quantities DEF Hold, Iterate
<1>2. /\ CallType' /\ Placed' /\ Datagrams' = Datagrams /\ received' = received
      /\ \A i : Made(i)' = Made(i) /\ Number(i)' = Number(i)
  BY <1>1, Unmoved DEF StreamInv
<1>3. WireType' /\ Foreign' = Foreign
  BY <1>1, <1>2 DEF StreamInv, LinkInv, WireType, Foreign
<1>4. Packed'
  <2>1. held' = Made(next) /\ held'.at = next
    BY <1>1, IteratePacked DEF StreamInv
  <2> QED BY <1>1, <1>2, <2>1, IteratePacked DEF StreamInv, Packed, Number, Made, Sound, Frame
<1>5. Budget'
  <2>1. /\ Len(wire') = Len(wire) /\ next' = next + 1 /\ Waiting' = Waiting + 1
        /\ faults' = faults /\ received' = received /\ Foreign' = Foreign
        /\ call' = call
    BY <1>1, <1>2, <1>3, Quantities, Waits DEF Iterate
  <2>2. /\ received \in Int /\ Len(wire) \in Int /\ next \in Int
        /\ Waiting \in Int /\ faults \in Int /\ Foreign \in Int
    BY ONLY StreamInv, Quantities
  <2>3. /\ received' \in Int /\ Len(wire') \in Int /\ next' \in Int
        /\ Waiting' \in Int /\ faults' \in Int /\ Foreign' \in Int
    BY ONLY <2>1, <2>2
  <2>4. (received' - received) + (Len(wire') - Len(wire)) + (Waiting' - Waiting)
          <= (next' - next) + (faults' - faults) + (Foreign' - Foreign)
    BY ONLY <2>1, <2>2
  <2> QED BY <2>1, <2>3, <2>4, BudgetKept
<1> QED BY <1>2, <1>3, <1>4, <1>5 DEF LinkInv

LEMMA SendLinks ==
  ASSUME StreamInv, Send
  PROVE  LinkInv'
<1>1. /\ Iterate /\ UNCHANGED <<call, firstAt, vars, faults, holding, held>>
      /\ holding = FALSE /\ wire' = Append(wire, Datagram(next))
  BY Quantities DEF Send, Iterate
<1>2. /\ CallType' /\ Placed' /\ Datagrams' = Datagrams /\ received' = received
      /\ \A i : Made(i)' = Made(i) /\ Number(i)' = Number(i)
  BY <1>1, Unmoved DEF StreamInv
<1>3. WireType' /\ Len(wire') = Len(wire) + 1 /\ Foreign' = Foreign
  BY <1>1, <1>2, IteratePacked, WireAppend DEF StreamInv
<1>4. Packed'
  BY <1>1, IteratePacked, StaysPacked DEF StreamInv
<1>5. Budget'
  <2>1. /\ Len(wire') = Len(wire) + 1 /\ next' = next + 1 /\ Waiting' = Waiting
        /\ faults' = faults /\ received' = received /\ Foreign' = Foreign
        /\ call' = call
    BY <1>1, <1>2, <1>3, Quantities, Waits DEF Iterate
  <2>2. /\ received \in Int /\ Len(wire) \in Int /\ next \in Int
        /\ Waiting \in Int /\ faults \in Int /\ Foreign \in Int
    BY ONLY StreamInv, Quantities
  <2>3. /\ received' \in Int /\ Len(wire') \in Int /\ next' \in Int
        /\ Waiting' \in Int /\ faults' \in Int /\ Foreign' \in Int
    BY ONLY <2>1, <2>2
  <2>4. (received' - received) + (Len(wire') - Len(wire)) + (Waiting' - Waiting)
          <= (next' - next) + (faults' - faults) + (Foreign' - Foreign)
    BY ONLY <2>1, <2>2
  <2> QED BY <2>1, <2>3, <2>4, BudgetKept
<1> QED BY <1>2, <1>3, <1>4, <1>5 DEF LinkInv

\* The packet held back is one of the sender's.
LEMMA HeldMade ==
  ASSUME StreamInv, holding
  PROVE  held = Made(held.at) /\ held \in Datagrams /\ held.at # NoIndex
<1>1. held = Made(held.at) /\ held.at \in 1 .. next - 1
  BY DEF StreamInv, LinkInv, Packed, SInv, Accounted
<1>2. held.at \in 1 .. call.total /\ held.at # NoIndex
  BY <1>1, Quantities DEF NoIndex
<1> QED BY <1>1, <1>2 DEF Datagrams

LEMMA SendAndReleaseLinks ==
  ASSUME StreamInv, SendAndRelease
  PROVE  LinkInv'
<1>1. /\ Iterate /\ UNCHANGED <<call, firstAt, vars, faults>>
      /\ holding = TRUE /\ holding' = FALSE /\ wire' = wire \o <<Datagram(next), held>>
  BY Quantities DEF SendAndRelease, Release, Iterate
<1>2. /\ CallType' /\ Placed' /\ Datagrams' = Datagrams /\ received' = received
      /\ \A i : Made(i)' = Made(i) /\ Number(i)' = Number(i)
  BY <1>1, Unmoved DEF StreamInv
<1>3. WireType' /\ Len(wire') = Len(wire) + 2 /\ Foreign' = Foreign
  BY <1>1, <1>2, IteratePacked, HeldMade, WireAppendTwo DEF StreamInv
<1>4. Packed'
  BY <1>1, <1>2, IteratePacked DEF StreamInv, Packed, Number
<1>5. Budget'
  <2>1. /\ Len(wire') = Len(wire) + 2 /\ next' = next + 1 /\ Waiting' = Waiting + (-1)
        /\ faults' = faults /\ received' = received /\ Foreign' = Foreign
        /\ call' = call
    BY <1>1, <1>2, <1>3, Quantities, Waits DEF Iterate
  <2>2. /\ received \in Int /\ Len(wire) \in Int /\ next \in Int
        /\ Waiting \in Int /\ faults \in Int /\ Foreign \in Int
    BY ONLY StreamInv, Quantities
  <2>3. /\ received' \in Int /\ Len(wire') \in Int /\ next' \in Int
        /\ Waiting' \in Int /\ faults' \in Int /\ Foreign' \in Int
    BY ONLY <2>1, <2>2
  <2>4. (received' - received) + (Len(wire') - Len(wire)) + (Waiting' - Waiting)
          <= (next' - next) + (faults' - faults) + (Foreign' - Foreign)
    BY ONLY <2>1, <2>2
  <2> QED BY <2>1, <2>3, <2>4, BudgetKept
<1> QED BY <1>2, <1>3, <1>4, <1>5 DEF LinkInv

LEMMA FlushLinks ==
  ASSUME StreamInv, Flush
  PROVE  LinkInv'
<1>1. /\ UNCHANGED <<call, firstAt, vars, faults, next, seq>>
      /\ holding = TRUE /\ holding' = FALSE /\ wire' = Append(wire, held)
  BY Quantities DEF Flush
<1>2. /\ CallType' /\ Placed' /\ Datagrams' = Datagrams /\ received' = received
      /\ \A i : Made(i)' = Made(i) /\ Number(i)' = Number(i)
  BY <1>1, Unmoved DEF StreamInv
<1>3. WireType' /\ Len(wire') = Len(wire) + 1 /\ Foreign' = Foreign
  BY <1>1, <1>2, HeldMade, WireAppend DEF StreamInv
<1>4. Packed'
  BY <1>1, <1>2 DEF StreamInv, LinkInv, Packed, Number
<1>5. Budget'
  <2>1. /\ Len(wire') = Len(wire) + 1 /\ next' = next /\ Waiting' = Waiting + (-1)
        /\ faults' = faults /\ received' = received /\ Foreign' = Foreign
        /\ call' = call
    BY <1>1, <1>2, <1>3, Quantities, Waits
  <2>2. /\ received \in Int /\ Len(wire) \in Int /\ next \in Int
        /\ Waiting \in Int /\ faults \in Int /\ Foreign \in Int
    BY ONLY StreamInv, Quantities
  <2>3. /\ received' \in Int /\ Len(wire') \in Int /\ next' \in Int
        /\ Waiting' \in Int /\ faults' \in Int /\ Foreign' \in Int
    BY ONLY <2>1, <2>2
  <2>4. (received' - received) + (Len(wire') - Len(wire)) + (Waiting' - Waiting)
          <= (next' - next) + (faults' - faults) + (Foreign' - Foreign)
    BY ONLY <2>1, <2>2
  <2> QED BY <2>1, <2>3, <2>4, BudgetKept
<1> QED BY <1>2, <1>3, <1>4, <1>5 DEF LinkInv

-----------------------------------------------------------------------------
(* The link *)

\* No stray datagram is about in a call of several packets.
LEMMA FaultFacts ==
  ASSUME StreamInv, Fault
  PROVE  /\ UNCHANGED <<call, senderVars, firstAt, vars>>
         /\ faults' = faults + 1 /\ faults' \in 0 .. MaxFaults
         /\ \A k \in 1 .. Len(wire) : wire[k].at # NoIndex
         /\ CallType' /\ Placed' /\ Packed' /\ Datagrams' = Datagrams
         /\ received' = received
<1>1. /\ UNCHANGED <<call, senderVars, firstAt, vars>>
      /\ faults' = faults + 1 /\ faults < MaxFaults /\ call.total > 1
  BY DEF Fault
<1>2. faults' \in 0 .. MaxFaults
  BY <1>1, Quantities
<1>3. \A k \in 1 .. Len(wire) : wire[k].at # NoIndex
  BY <1>1 DEF StreamInv, LinkInv, WireType
<1>4. /\ CallType' /\ Placed' /\ Datagrams' = Datagrams /\ received' = received
      /\ \A i : Made(i)' = Made(i) /\ Number(i)' = Number(i)
  BY <1>1, Unmoved DEF StreamInv
<1>5. Packed'
  <2>1. seq' = Number(next')
    BY <1>1 DEF StreamInv, LinkInv, Packed, senderVars
  <2> QED BY <1>1, <2>1, StaysPacked DEF StreamInv, senderVars
<1> QED BY <1>1, <1>2, <1>3, <1>4, <1>5

LEMMA LoseLinks ==
  ASSUME StreamInv, Lose
  PROVE  LinkInv'
<1>1. Fault /\ wire # <<>> /\ wire' = Tail(wire)
  BY DEF Lose
<1>2. WireType' /\ Len(wire') = Len(wire) - 1 /\ Foreign' = 0
  BY <1>1, FaultFacts, WireTail DEF StreamInv
<1>3. Foreign = 0
  <2>1. 1 \in 1 .. Len(wire)
    BY <1>1 DEF StreamInv, LinkInv, WireType
  <2> QED BY <1>1, <2>1, FaultFacts DEF Foreign
<1>4. Budget'
  <2>1. /\ Len(wire') = Len(wire) + (-1) /\ next' = next /\ Waiting' = Waiting
        /\ faults' = faults + 1 /\ received' = received /\ Foreign' = Foreign
        /\ call' = call
    BY <1>1, <1>2, <1>3, FaultFacts, Quantities, Waits DEF senderVars
  <2>2. /\ received \in Int /\ Len(wire) \in Int /\ next \in Int
        /\ Waiting \in Int /\ faults \in Int /\ Foreign \in Int
    BY ONLY StreamInv, Quantities
  <2>3. /\ received' \in Int /\ Len(wire') \in Int /\ next' \in Int
        /\ Waiting' \in Int /\ faults' \in Int /\ Foreign' \in Int
    BY ONLY <2>1, <2>2
  <2>4. (received' - received) + (Len(wire') - Len(wire)) + (Waiting' - Waiting)
          <= (next' - next) + (faults' - faults) + (Foreign' - Foreign)
    BY ONLY <2>1, <2>2
  <2> QED BY <2>1, <2>3, <2>4, BudgetKept
<1> QED BY <1>1, <1>2, <1>4, FaultFacts DEF LinkInv

LEMMA DuplicateLinks ==
  ASSUME StreamInv, Duplicate
  PROVE  LinkInv'
<1>1. Fault /\ wire # <<>> /\ wire' = Append(wire, wire[1])
  BY DEF Duplicate
<1>2. /\ wire \in Seq(Datagrams) /\ Len(wire) \in Nat /\ 1 \in 1 .. Len(wire)
      /\ wire[1] \in Datagrams
  BY <1>1 DEF StreamInv, LinkInv, WireType
<1> DEFINE d == wire[1]
           n == Len(wire)
<1>3. d \in Datagrams /\ n \in Nat /\ d.at # NoIndex
  BY <1>1, <1>2, FaultFacts
<1>4. /\ wire' \in Seq(Datagrams) /\ Len(wire') = n + 1 /\ wire'[n + 1] = d
      /\ \A k \in 1 .. n : wire'[k] = wire[k]
  <2>1. wire' = Append(wire, d) /\ wire \in Seq(Datagrams)
    BY <1>1, <1>2
  <2> HIDE DEF d
  <2> QED BY <1>3, <2>1
<1>5. \A k \in 1 .. Len(wire') : wire'[k].at # NoIndex
  <2>1. \A k \in 1 .. Len(wire') : k \in 1 .. n \/ k = n + 1
    BY <1>3, <1>4
  <2> QED BY <1>1, <1>3, <1>4, <2>1, FaultFacts
<1>6. 1 \in 1 .. Len(wire')
  BY <1>3, <1>4
<1>7. Foreign = 0 /\ Foreign' = 0
  BY <1>1, <1>2, <1>5, <1>6, FaultFacts DEF Foreign
<1>8. WireType'
  BY <1>1, <1>4, <1>5, FaultFacts DEF WireType
<1>9. Budget'
  <2>1. /\ Len(wire') = Len(wire) + 1 /\ next' = next /\ Waiting' = Waiting
        /\ faults' = faults + 1 /\ received' = received /\ Foreign' = Foreign
        /\ call' = call
    BY <1>1, <1>3, <1>4, <1>7, FaultFacts, Quantities, Waits DEF senderVars
  <2>2. /\ received \in Int /\ Len(wire) \in Int /\ next \in Int
        /\ Waiting \in Int /\ faults \in Int /\ Foreign \in Int
    BY ONLY StreamInv, Quantities
  <2>3. /\ received' \in Int /\ Len(wire') \in Int /\ next' \in Int
        /\ Waiting' \in Int /\ faults' \in Int /\ Foreign' \in Int
    BY ONLY <2>1, <2>2
  <2>4. (received' - received) + (Len(wire') - Len(wire)) + (Waiting' - Waiting)
          <= (next' - next) + (faults' - faults) + (Foreign' - Foreign)
    BY ONLY <2>1, <2>2
  <2> QED BY <2>1, <2>3, <2>4, BudgetKept
<1> QED BY <1>1, <1>8, <1>9, FaultFacts DEF LinkInv

LEMMA OvertakeLinks ==
  ASSUME StreamInv, Overtake
  PROVE  LinkInv'
<1> DEFINE n == Len(wire)
           a == wire[1]
           b == wire[2]
           t == SubSeq(wire, 3, n)
<1>1. Fault /\ n >= 2 /\ wire' = <<b, a>> \o t
  BY DEF Overtake
<1>2. /\ wire \in Seq(Datagrams) /\ n \in Nat /\ a \in Datagrams /\ b \in Datagrams
  BY <1>1 DEF StreamInv, LinkInv, WireType
<1>3. /\ t \in Seq(Datagrams) /\ Len(t) = n - 2
      /\ \A k \in 1 .. n - 2 : t[k] = wire[k + 2]
  BY <1>1, <1>2
<1>4. a.at # NoIndex /\ b.at # NoIndex
      /\ \A k \in 1 .. n - 2 : wire[k + 2].at # NoIndex
  BY <1>1, <1>2, FaultFacts
<1> HIDE DEF a, b, t
<1>5. /\ wire' \in Seq(Datagrams) /\ Len(wire') = n /\ wire'[1] = b /\ wire'[2] = a
      /\ \A k \in 3 .. n : wire'[k] = t[k - 2]
  BY <1>1, <1>2, <1>3
<1>6. \A k \in 1 .. Len(wire') : wire'[k].at # NoIndex
  <2>1. ASSUME NEW k \in 3 .. n
        PROVE  wire'[k].at # NoIndex
    <3>1. k - 2 \in 1 .. n - 2 /\ (k - 2) + 2 = k
      BY <1>2
    <3> QED BY <1>3, <1>4, <1>5, <3>1
  <2>2. \A k \in 1 .. Len(wire') : k = 1 \/ k = 2 \/ k \in 3 .. n
    BY <1>2, <1>5
  <2> QED BY <1>4, <1>5, <2>1, <2>2
<1>7. 1 \in 1 .. Len(wire') /\ 1 \in 1 .. Len(wire)
  BY <1>1, <1>2, <1>5
<1>8. Foreign = 0 /\ Foreign' = 0
  BY <1>1, <1>6, <1>7, FaultFacts DEF Foreign
<1>9. WireType'
  BY <1>1, <1>5, <1>6, FaultFacts DEF WireType
<1>10. Budget'
  <2>1. /\ Len(wire') = Len(wire) /\ next' = next /\ Waiting' = Waiting
        /\ faults' = faults + 1 /\ received' = received /\ Foreign' = Foreign
        /\ call' = call
    BY <1>1, <1>2, <1>5, <1>8, FaultFacts, Quantities, Waits DEF senderVars
  <2>2. /\ received \in Int /\ Len(wire) \in Int /\ next \in Int
        /\ Waiting \in Int /\ faults \in Int /\ Foreign \in Int
    BY ONLY StreamInv, Quantities
  <2>3. /\ received' \in Int /\ Len(wire') \in Int /\ next' \in Int
        /\ Waiting' \in Int /\ faults' \in Int /\ Foreign' \in Int
    BY ONLY <2>1, <2>2
  <2>4. (received' - received) + (Len(wire') - Len(wire)) + (Waiting' - Waiting)
          <= (next' - next) + (faults' - faults) + (Foreign' - Foreign)
    BY ONLY <2>1, <2>2
  <2> QED BY <2>1, <2>3, <2>4, BudgetKept
<1> QED BY <1>1, <1>9, <1>10, FaultFacts DEF LinkInv

-----------------------------------------------------------------------------
(* The receiver *)

LEMMA ArriveLinks ==
  ASSUME StreamInv, Arrive, received' \in Int, received' - received <= 1 - Foreign
  PROVE  WireType' /\ Packed' /\ Budget'
<1>1. /\ wire # <<>> /\ wire' = Tail(wire) /\ UNCHANGED <<call, senderVars, faults>>
  BY DEF Arrive
<1>2. Datagrams' = Datagrams
  BY <1>1 DEF Datagrams, Made, Sound, Number, Frame
<1>3. WireType' /\ Len(wire') = Len(wire) - 1 /\ Foreign' = 0
  <2>1. call' = call /\ faults' \in 0 .. MaxFaults
    BY <1>1 DEF StreamInv, LinkInv, WireType
  <2> QED BY <1>1, <1>2, <2>1, WireTail DEF StreamInv
<1>4. Packed'
  <2>1. /\ call' = call /\ held' = held /\ (holding' => holding)
    BY <1>1 DEF senderVars
  <2>2. seq' = Number(next')
    BY <1>1 DEF StreamInv, LinkInv, Packed, senderVars
  <2> QED BY <2>1, <2>2, StaysPacked DEF StreamInv
<1>5. Budget'
  <2>1. /\ Len(wire') = Len(wire) - 1 /\ next' = next /\ Waiting' = Waiting
        /\ faults' = faults /\ Foreign' = 0 /\ call' = call
    BY <1>1, <1>3, Waits DEF senderVars
  <2>2. /\ received \in Int /\ Len(wire) \in Int /\ next \in Int
        /\ Waiting \in Int /\ faults \in Int /\ Foreign \in Int
    BY ONLY StreamInv, Quantities
  <2>3. /\ received' \in Int /\ Len(wire') \in Int /\ next' \in Int
        /\ Waiting' \in Int /\ faults' \in Int /\ Foreign' \in Int
    BY <2>1, <2>2
  <2>4. (received' - received) + (Len(wire') - Len(wire)) + (Waiting' - Waiting)
          <= (next' - next) + (faults' - faults) + (Foreign' - Foreign)
    <3>1. received' - received <= 1 - Foreign /\ received' \in Int
      OBVIOUS
    <3>2. /\ Len(wire') - Len(wire) = -1 /\ Waiting' - Waiting = 0 /\ next' - next = 0
          /\ faults' - faults = 0 /\ Foreign' - Foreign = 0 - Foreign
      BY ONLY <2>1, <2>2
    <3>3. received' - received \in Int /\ 0 - Foreign \in Int /\ 1 - Foreign = (0 - Foreign) + 1
      BY ONLY <2>2, <3>1
    <3> DEFINE u == received' - received
               v == 0 - Foreign
               x == Len(wire') - Len(wire)
               y == Waiting' - Waiting
               z == next' - next
               t == faults' - faults
               f == Foreign' - Foreign
    <3>4. u \in Int /\ v \in Int /\ u <= v + 1 /\ x = -1 /\ y = 0 /\ z = 0 /\ t = 0 /\ f = v
      BY ONLY <3>1, <3>2, <3>3
    <3> HIDE DEF u, v, x, y, z, t, f
    <3>5. u + x + y <= z + t + f
      BY ONLY <3>4
    <3> QED BY ONLY <3>5 DEF u, x, y, z, t, f
  <2> QED BY <2>1, <2>3, <2>4, BudgetKept
<1> QED BY <1>3, <1>4, <1>5

\* What the first datagram is, when it is read.
LEMMA FirstRead ==
  ASSUME StreamInv, wire # <<>>, Parse(wire[1].dg) # NoPacket
  PROVE  /\ wire[1].at \in 1 .. call.total
         /\ Parse(wire[1].dg).sequence = Number(wire[1].at)
         /\ Foreign = 0
<1> DEFINE d == wire[1]
<1>1. d \in Datagrams
  BY DEF StreamInv, LinkInv, WireType
<1>2. /\ d.at \in 1 .. call.total /\ d = Made(d.at)
  <2> HIDE DEF d
  <2>1. Parse(d.dg) # NoPacket
    BY DEF d
  <2> QED BY <1>1, <2>1, DatagramTyped
<1>3. call.total \in Nat
  BY Quantities
<1>4. d.at # NoIndex
  BY <1>2, <1>3 DEF NoIndex
<1>5. Parse(d.dg).sequence = Number(d.at)
  <2>1. \A i \in 1 .. call.total :
           Parse(Made(i).dg) # NoPacket => Parse(Made(i).dg).sequence = Number(i)
    BY MadeRead DEF StreamInv, LinkInv
  <2> HIDE DEF d
  <2>2. Parse(d.dg) # NoPacket
    BY DEF d
  <2> QED BY <1>2, <2>1, <2>2
<1> QED BY <1>2, <1>4, <1>5 DEF Foreign

\* Every step of the receiver is one of RtpStats or none.
LEMMA HearLinks ==
  ASSUME StreamInv, MaxTotal <= Half, MaxUpdates >= MaxTotal + MaxFaults, Hear
  PROVE  LinkInv' /\ [Next]_vars
<1> DEFINE i == wire[1].at
           pkt == Parse(wire[1].dg)
<1>1. /\ Arrive /\ wire # <<>> /\ pkt # NoPacket /\ UNCHANGED <<call, senderVars, faults>>
      /\ IF IsEvent(pkt) THEN UNCHANGED <<firstAt, vars>> ELSE Count(i, pkt)
  BY DEF Hear, Arrive
<1>2. i \in 1 .. call.total /\ pkt.sequence = Number(i) /\ Foreign = 0
  BY <1>1, FirstRead
<1>3. CallType'
  BY <1>1 DEF StreamInv, LinkInv, CallType
<1> HIDE DEF i, pkt
<1>4. CASE IsEvent(pkt)
  <2>1. UNCHANGED <<firstAt, vars>>
    BY <1>1, <1>4
  <2>2. Placed' /\ received' = received
    BY <1>1, <2>1, Unmoved DEF StreamInv
  <2>3. received' \in Int /\ received' - received <= 1 - Foreign
    BY <1>2, <2>2, Quantities
  <2> QED BY <1>1, <1>3, <2>1, <2>2, <2>3, ArriveLinks DEF LinkInv
<1>5. CASE ~IsEvent(pkt)
  <2>1. next \in 1 .. call.total + 1 /\ holding \in BOOLEAN
    BY DEF StreamInv, SInv, SenderType
  <2>2. Count(i, pkt) /\ call' = call
    BY <1>1, <1>5
  <2>3. Next /\ Placed' /\ received' = received + 1
    BY <1>1, <1>2, <2>1, <2>2, CountIsUpdate DEF StreamInv
  <2>4. received' \in Int /\ received' - received <= 1 - Foreign
    BY <1>2, <2>3, Quantities
  <2> QED BY <1>1, <1>3, <2>3, <2>4, ArriveLinks DEF LinkInv
<1> QED BY <1>4, <1>5

LEMMA IgnoreLinks ==
  ASSUME StreamInv, Ignore
  PROVE  LinkInv' /\ UNCHANGED vars
<1>1. Arrive /\ UNCHANGED <<firstAt, vars>> /\ call' = call
  BY DEF Ignore, Arrive
<1>2. CallType' /\ Placed' /\ received' = received
  BY <1>1, Unmoved DEF StreamInv
<1>3. received' \in Int /\ received' - received <= 1 - Foreign
  BY <1>2, Quantities
<1> QED BY <1>1, <1>2, <1>3, ArriveLinks DEF LinkInv

-----------------------------------------------------------------------------
\* Every step of the stream is a step of RtpStats or leaves it alone.
LEMMA StepStreamInv ==
  ASSUME MaxTotal <= Half, MaxUpdates >= MaxTotal + MaxFaults,
         StreamInv, [StreamNext]_streamVars
  PROVE  StreamInv' /\ [Next]_vars
<1>1. SInv'
  BY StepSInv DEF StreamInv
<1>2. LinkInv' /\ [Next]_vars
  <2>1. CASE Drop
    BY <2>1, DropLinks DEF Drop, Iterate
  <2>2. CASE SendAndRelease
    BY <2>2, SendAndReleaseLinks DEF SendAndRelease, Iterate
  <2>3. CASE Hold
    BY <2>3, HoldLinks DEF Hold, Iterate
  <2>4. CASE Send
    BY <2>4, SendLinks DEF Send, Iterate
  <2>5. CASE Flush
    BY <2>5, FlushLinks DEF Flush
  <2>6. CASE Lose
    BY <2>6, LoseLinks DEF Lose, Fault
  <2>7. CASE Duplicate
    BY <2>7, DuplicateLinks DEF Duplicate, Fault
  <2>8. CASE Overtake
    BY <2>8, OvertakeLinks DEF Overtake, Fault
  <2>9. CASE Ignore
    BY <2>9, IgnoreLinks
  <2>10. CASE Hear
    BY <2>10, HearLinks
  <2>11. CASE UNCHANGED streamVars
    <3>1. UNCHANGED <<call, senderVars, wire, faults, firstAt, vars>>
      BY <2>11 DEF streamVars
    <3>2. /\ CallType' /\ Placed' /\ Datagrams' = Datagrams /\ received' = received
      BY <3>1, Unmoved DEF StreamInv
    <3>3. WireType' /\ Foreign' = Foreign
      BY <3>1, <3>2 DEF StreamInv, LinkInv, WireType, Foreign
    <3>4. Packed'
      <4>1. seq' = Number(next') /\ holding' = holding /\ held' = held
        BY <3>1 DEF StreamInv, LinkInv, Packed, senderVars, Number
      <4> QED BY <3>1, <4>1, StaysPacked DEF StreamInv
    <3>5. Budget'
      <4>1. Pending' = Pending /\ Len(wire') = Len(wire)
        BY <3>1, Waits DEF Pending, senderVars
      <4> QED BY <3>1, <3>2, <3>3, <4>1 DEF StreamInv, LinkInv, Budget
    <3> QED BY <3>1, <3>2, <3>3, <3>4, <3>5 DEF LinkInv
  <2> QED BY <2>1, <2>2, <2>3, <2>4, <2>5, <2>6, <2>7, <2>8, <2>9, <2>10, <2>11 DEF StreamNext
<1>3. IInv'
  BY <1>2, StepIInv DEF StreamInv
<1> QED BY <1>1, <1>2, <1>3 DEF StreamInv

\* What recvLoop hands to update is a stream as RtpStats takes it to be, whatever
\* the sender drops and swaps, wherever in the sequence space it starts, and
\* whatever the link loses, doubles and lets overtake, in a call of up to half the
\* sequence space.  MaxUpdates bounds what update is called for in module RtpStats:
\* it has to leave room for the call and what the link doubles.
THEOREM StreamIsCounted ==
  ASSUME MaxTotal <= Half, MaxUpdates >= MaxTotal + MaxFaults
  PROVE  StreamSpec => ImplementsRtpStats
<1>1. StreamInit => StreamInv /\ Init
  BY InitIInv, InitSInv, InitLinkInv DEF StreamInit, StreamInv
<1>2. StreamInv /\ [StreamNext]_streamVars => StreamInv' /\ [Next]_vars
  BY StepStreamInv
<1> QED BY <1>1, <1>2, PTL DEF StreamSpec, Spec, ImplementsRtpStats

\* So the loss the receiver reports is never more than the loss there was, and its
\* positions are the true ones, of everything that rtp_sender sends over such a link.
THEOREM StreamLossBounded ==
  ASSUME MaxTotal <= Half, MaxUpdates >= MaxTotal + MaxFaults
  PROVE  StreamSpec => [](UnwrapExact /\ LossNeverOverstated)
<1>1. StreamSpec => Spec
  BY StreamIsCounted DEF ImplementsRtpStats
<1> QED BY <1>1, StatsExact, LossBounded, PTL

-----------------------------------------------------------------------------
(* What came, behind a link that does nothing wrong *)

\* How much of the log has come.
Arrived == Len(log) - (Len(wire) - Foreign)

Place(i) == baseExt + (i - firstAt)

Spoken(n) == {k \in 1 .. n : log[k] # call.key}

\* What is under way is the rest of the log, in its order.
InStep ==
  /\ Arrived \in Nat
  /\ \A k \in 1 .. Len(wire) - Foreign : wire[k + Foreign].at = log[Arrived + k]

\* What came has been counted, each once, telephone events excepted; the first that
\* counts is the first that is no telephone event.
CountedOnce ==
  /\ ~started => Spoken(Arrived) = {}
  /\ started =>
       /\ \E f \in 1 .. Arrived : log[f] = firstAt /\ Spoken(f - 1) = {}
       /\ firstAt # call.key
       /\ seen = {Place(log[k]) : k \in Spoken(Arrived)}
       /\ received = Cardinality(seen)

Accounting == faults = 0 => InStep /\ CountedOnce

\* What the log and the wire are, for the steps below.
LEMMA Lengths ==
  ASSUME StreamInv
  PROVE  /\ log \in Seq(Nat) /\ Len(log) \in Nat /\ wire \in Seq(Datagrams) /\ Len(wire) \in Nat
         /\ Foreign \in 0 .. 1 /\ Foreign <= Len(wire)
         /\ Arrived \in Int /\ Arrived <= Len(log)
<1>1. /\ log \in Seq(Nat) /\ Len(log) \in Nat /\ wire \in Seq(Datagrams) /\ Len(wire) \in Nat
      /\ Foreign \in 0 .. 1
  BY Quantities DEF StreamInv, SInv, SenderType, LinkInv, WireType
<1>2. Foreign <= Len(wire)
  <2>1. wire # <<>> => Len(wire) >= 1
    BY <1>1
  <2> QED BY <1>1, <2>1 DEF Foreign
<1> QED BY <1>1, <1>2 DEF Arrived

LEMMA InitAccounting == StreamInit => Accounting
<1> SUFFICES ASSUME StreamInit PROVE Accounting
  OBVIOUS
<1>1. StreamInv
  BY InitIInv, InitSInv, InitLinkInv DEF StreamInit, StreamInv
<1>2. log = <<>> /\ Len(log) = 0 /\ started = FALSE
  BY DEF StreamInit, Init
<1>3. Len(wire) = Foreign
  <2>1. CASE wire = <<>>
    <3>1. Len(wire) = 0
      BY <2>1
    <3> QED BY <2>1, <3>1 DEF Foreign
  <2>2. CASE \E s \in Stray : wire = <<[at |-> NoIndex, dg |-> s]>>
    <3>1. PICK s \in Stray : wire = <<[at |-> NoIndex, dg |-> s]>>
      BY <2>2
    <3> DEFINE d == [at |-> NoIndex, dg |-> s]
    <3>2. d.at = NoIndex
      OBVIOUS
    <3> HIDE DEF d
    <3>3. wire = <<d>>
      BY <3>1 DEF d
    <3>4. Len(wire) = 1 /\ wire # <<>> /\ wire[1] = d
      BY <3>3
    <3> QED BY <3>2, <3>4 DEF Foreign
  <2> QED BY <2>1, <2>2 DEF StreamInit
<1>4. Arrived = 0
  <2>1. Len(wire) \in Int
    BY <1>1, Lengths
  <2> QED BY <1>2, <1>3, <2>1 DEF Arrived
<1>5. InStep
  <2>1. 1 .. Len(wire) - Foreign = {}
    BY <1>1, <1>3, Lengths
  <2> QED BY <1>4, <2>1 DEF InStep
<1>6. CountedOnce
  BY <1>2, <1>4 DEF CountedOnce, Spoken
<1> QED BY <1>5, <1>6 DEF Accounting

-----------------------------------------------------------------------------
\* Nothing that came is disturbed by what is sent behind it.
LEMMA CountedStays ==
  ASSUME StreamInv, CountedOnce, Arrived \in Nat, Arrived' = Arrived,
         UNCHANGED <<call, firstAt, vars>>,
         \A k \in 1 .. Arrived : log'[k] = log[k]
  PROVE  CountedOnce'
<1>1. \A n \in 0 .. Arrived : Spoken(n)' = Spoken(n)
  BY DEF Spoken
<1>2. call' = call /\ firstAt' = firstAt /\ started' = started /\ seen' = seen
      /\ received' = received /\ baseExt' = baseExt
  BY DEF vars
<1>3. ~started => Spoken(Arrived)' = {}
  BY <1>1 DEF CountedOnce
<1>4. ASSUME started
      PROVE  /\ \E f \in 1 .. Arrived : log'[f] = firstAt /\ Spoken(f - 1)' = {}
             /\ firstAt # call.key
             /\ seen = {Place(log[k])' : k \in Spoken(Arrived)}
             /\ received = Cardinality(seen)
  <2>1. PICK f \in 1 .. Arrived : log[f] = firstAt /\ Spoken(f - 1) = {}
    BY <1>4 DEF CountedOnce
  <2>2. f - 1 \in 0 .. Arrived
    OBVIOUS
  <2>3. \E g \in 1 .. Arrived : log'[g] = firstAt /\ Spoken(g - 1)' = {}
    BY <1>1, <2>1, <2>2
  <2>4. \A k \in Spoken(Arrived) : Place(log[k])' = Place(log[k])
    BY <1>2 DEF Spoken, Place
  <2> QED BY <1>4, <2>3, <2>4 DEF CountedOnce
<1> QED BY <1>1, <1>2, <1>3, <1>4 DEF CountedOnce

\* What is sent goes behind what is under way, in the log and on the wire.
LEMMA SentInStep ==
  ASSUME StreamInv, InStep, Foreign' = Foreign, NEW n \in 1 .. 2,
         Len(log') = Len(log) + n, Len(wire') = Len(wire) + n,
         \A k \in 1 .. Len(log) : log'[k] = log[k],
         \A k \in 1 .. Len(wire) : wire'[k] = wire[k],
         \A k \in 1 .. n : wire'[Len(wire) + k].at = log'[Len(log) + k]
  PROVE  InStep' /\ Arrived' = Arrived /\ \A k \in 1 .. Arrived : log'[k] = log[k]
<1> DEFINE a == Arrived
           w == Len(wire)
           g == Len(log)
           f == Foreign
<1>1. w \in Nat /\ g \in Nat /\ f \in 0 .. 1 /\ f <= w /\ a \in Nat /\ a = g - (w - f) /\ a <= g
  BY Lengths DEF InStep, Arrived
<1>2. Arrived' = a
  <2>1. Arrived' = (g + n) - ((w + n) - f)
    BY DEF Arrived
  <2> HIDE DEF a, w, g, f
  <2>2. (g + n) - ((w + n) - f) = a
    BY ONLY <1>1, n \in 1 .. 2
  <2> QED BY <2>1, <2>2
<1>3. \A k \in 1 .. a : log'[k] = log[k]
  <2>1. \A k \in 1 .. a : k \in 1 .. g
    BY <1>1
  <2> QED BY <2>1
<1>4. ASSUME NEW k \in 1 .. Len(wire') - Foreign'
      PROVE  wire'[k + Foreign'].at = log'[a + k]
  <2>1. k \in Int /\ k >= 1 /\ k <= (w + n) - f
    BY <1>1
  <2>2. CASE k <= w - f
    <3>1. k + f \in 1 .. w /\ a + k \in 1 .. g /\ k \in 1 .. w - f
      <4> HIDE DEF a, w, g, f
      <4> QED BY <1>1, <2>1, <2>2
    <3>2. wire[k + f].at = log[a + k]
      BY <3>1 DEF InStep
    <3>3. wire'[k + f] = wire[k + f] /\ log'[a + k] = log[a + k]
      BY <3>1
    <3> QED BY <3>2, <3>3
  <2>3. CASE k > w - f
    <3> DEFINE j == k - (w - f)
    <3>1. j \in 1 .. n /\ k + f = w + j /\ a + k = g + j
      <4> HIDE DEF a, w, g, f
      <4> QED BY <1>1, <2>1, <2>3
    <3>2. wire'[w + j].at = log'[g + j]
      BY <3>1
    <3> QED BY <3>1, <3>2
  <2> QED BY <1>1, <2>1, <2>2, <2>3
<1>5. InStep'
  BY <1>1, <1>2, <1>4 DEF InStep
<1> QED BY <1>2, <1>3, <1>5

LEMMA SendAccounts ==
  ASSUME StreamInv, Accounting, Send
  PROVE  Accounting'
<1> SUFFICES ASSUME faults' = 0 PROVE InStep' /\ CountedOnce'
  BY DEF Accounting
<1>1. /\ Iterate /\ UNCHANGED <<call, firstAt, vars, faults>>
      /\ wire' = Append(wire, Datagram(next)) /\ log' = Append(log, next)
  BY DEF Send, Iterate
<1>2. InStep /\ CountedOnce /\ Arrived \in Nat
  BY <1>1 DEF Accounting, InStep
<1>3. /\ Datagram(next) \in Datagrams /\ Datagram(next).at = next /\ next # NoIndex
  BY <1>1, IteratePacked DEF StreamInv
<1>4. Foreign' = Foreign
  <2>1. Datagrams' = Datagrams /\ call' = call /\ faults' = faults
    BY <1>1, Unmoved DEF StreamInv
  <2> QED BY <1>1, <1>3, <2>1, WireAppend DEF StreamInv
<1>5. /\ log \in Seq(Nat) /\ wire \in Seq(Datagrams) /\ next \in Nat
      /\ Len(log) \in Nat /\ Len(wire) \in Nat
  BY Lengths, Quantities
<1>6. /\ Len(log') = Len(log) + 1 /\ log'[Len(log) + 1] = next
      /\ \A k \in 1 .. Len(log) : log'[k] = log[k]
  BY <1>1, <1>5
<1>7. /\ Len(wire') = Len(wire) + 1 /\ wire'[Len(wire) + 1].at = next
      /\ \A k \in 1 .. Len(wire) : wire'[k] = wire[k]
  <2> DEFINE d == Datagram(next)
  <2>1. d \in Datagrams /\ d.at = next /\ wire' = Append(wire, d)
    BY <1>1, <1>3
  <2> HIDE DEF d
  <2> QED BY <1>5, <2>1
<1>8. 1 \in 1 .. 2 /\ \A k \in 1 .. 1 : wire'[Len(wire) + k].at = log'[Len(log) + k]
  BY <1>6, <1>7
<1>9. InStep' /\ Arrived' = Arrived /\ \A k \in 1 .. Arrived : log'[k] = log[k]
  BY <1>2, <1>4, <1>6, <1>7, <1>8, SentInStep
<1> QED BY <1>1, <1>2, <1>9, CountedStays

LEMMA FlushAccounts ==
  ASSUME StreamInv, Accounting, Flush
  PROVE  Accounting'
<1> SUFFICES ASSUME faults' = 0 PROVE InStep' /\ CountedOnce'
  BY DEF Accounting
<1>1. /\ UNCHANGED <<call, firstAt, vars, faults>> /\ holding
      /\ wire' = Append(wire, held) /\ log' = Append(log, held.at)
  BY DEF Flush
<1>2. InStep /\ CountedOnce /\ Arrived \in Nat
  BY <1>1 DEF Accounting, InStep
<1>3. held \in Datagrams /\ held.at # NoIndex /\ held.at \in Nat
  <2>1. held.at \in 1 .. next - 1 /\ next \in Nat
    BY <1>1, Quantities DEF StreamInv, SInv, Accounted
  <2> QED BY <1>1, <2>1, HeldMade
<1>4. Foreign' = Foreign
  <2>1. Datagrams' = Datagrams /\ call' = call /\ faults' = faults
    BY <1>1, Unmoved DEF StreamInv
  <2> QED BY <1>1, <1>3, <2>1, WireAppend DEF StreamInv
<1>5. /\ log \in Seq(Nat) /\ wire \in Seq(Datagrams)
      /\ Len(log) \in Nat /\ Len(wire) \in Nat
  BY Lengths
<1>6. /\ Len(log') = Len(log) + 1 /\ log'[Len(log) + 1] = held.at
      /\ \A k \in 1 .. Len(log) : log'[k] = log[k]
  BY <1>1, <1>3, <1>5
<1>7. /\ Len(wire') = Len(wire) + 1 /\ wire'[Len(wire) + 1].at = held.at
      /\ \A k \in 1 .. Len(wire) : wire'[k] = wire[k]
  BY <1>1, <1>3, <1>5
<1>8. 1 \in 1 .. 2 /\ \A k \in 1 .. 1 : wire'[Len(wire) + k].at = log'[Len(log) + k]
  BY <1>6, <1>7
<1>9. InStep' /\ Arrived' = Arrived /\ \A k \in 1 .. Arrived : log'[k] = log[k]
  BY <1>2, <1>4, <1>6, <1>7, <1>8, SentInStep
<1> QED BY <1>1, <1>2, <1>9, CountedStays

LEMMA SendAndReleaseAccounts ==
  ASSUME StreamInv, Accounting, SendAndRelease
  PROVE  Accounting'
<1> SUFFICES ASSUME faults' = 0 PROVE InStep' /\ CountedOnce'
  BY DEF Accounting
<1> DEFINE d == Datagram(next)
<1>1. /\ Iterate /\ UNCHANGED <<call, firstAt, vars, faults>> /\ holding
      /\ wire' = wire \o <<d, held>> /\ log' = log \o <<next, held.at>>
  BY DEF SendAndRelease, Iterate
<1>2. InStep /\ CountedOnce /\ Arrived \in Nat
  BY <1>1 DEF Accounting, InStep
<1>3. /\ held \in Datagrams /\ held.at # NoIndex /\ held.at \in Nat
      /\ d \in Datagrams /\ d.at = next /\ next # NoIndex /\ next \in Nat
  <2>1. held.at \in 1 .. next - 1 /\ next \in Nat
    BY <1>1, Quantities DEF StreamInv, SInv, Accounted
  <2> QED BY <1>1, <2>1, HeldMade, IteratePacked DEF StreamInv
<1> HIDE DEF d
<1>4. Foreign' = Foreign
  <2>1. Datagrams' = Datagrams /\ call' = call /\ faults' = faults
    BY <1>1, Unmoved DEF StreamInv
  <2> QED BY <1>1, <1>3, <2>1, WireAppendTwo DEF StreamInv
<1>5. /\ log \in Seq(Nat) /\ wire \in Seq(Datagrams)
      /\ Len(log) \in Nat /\ Len(wire) \in Nat
  BY Lengths
<1>6. /\ Len(log') = Len(log) + 2 /\ log'[Len(log) + 1] = next /\ log'[Len(log) + 2] = held.at
      /\ \A k \in 1 .. Len(log) : log'[k] = log[k]
  BY <1>1, <1>3, <1>5
<1>7. /\ Len(wire') = Len(wire) + 2
      /\ wire'[Len(wire) + 1].at = next /\ wire'[Len(wire) + 2].at = held.at
      /\ \A k \in 1 .. Len(wire) : wire'[k] = wire[k]
  BY <1>1, <1>3, <1>5
<1>8. 2 \in 1 .. 2 /\ \A k \in 1 .. 2 : wire'[Len(wire) + k].at = log'[Len(log) + k]
  <2>1. \A k \in 1 .. 2 : k = 1 \/ k = 2
    OBVIOUS
  <2> QED BY <1>6, <1>7, <2>1
<1>9. InStep' /\ Arrived' = Arrived /\ \A k \in 1 .. Arrived : log'[k] = log[k]
  BY <1>2, <1>4, <1>6, <1>7, <1>8, SentInStep
<1> QED BY <1>1, <1>2, <1>9, CountedStays

\* Steps that neither send nor receive anything.
LEMMA IdleAccounts ==
  ASSUME StreamInv, Accounting, UNCHANGED <<call, firstAt, vars, log, wire>>,
         faults' = faults
  PROVE  Accounting'
<1>1. Foreign' = Foreign /\ Arrived' = Arrived
  BY DEF Foreign, Arrived
<1>2. InStep => InStep'
  BY <1>1 DEF InStep
<1>3. InStep /\ CountedOnce => CountedOnce'
  BY <1>1, CountedStays DEF InStep
<1> QED BY <1>2, <1>3 DEF Accounting

\* A datagram that is ignored is none of the sender's.
LEMMA IgnoreAccounts ==
  ASSUME StreamInv, Accounting, Ignore
  PROVE  Accounting'
<1> SUFFICES ASSUME faults' = 0 PROVE InStep' /\ CountedOnce'
  BY DEF Accounting
<1>1. /\ UNCHANGED <<call, firstAt, vars, faults, log>>
      /\ wire # <<>> /\ wire' = Tail(wire) /\ Parse(wire[1].dg) = NoPacket
  BY DEF Ignore, Arrive, senderVars
<1>2. InStep /\ CountedOnce /\ Arrived \in Nat
  BY <1>1 DEF Accounting, InStep
<1>3. /\ wire \in Seq(Datagrams) /\ Len(wire) \in Nat /\ Len(log) \in Nat /\ Len(wire) >= 1
      /\ Len(wire') = Len(wire) - 1 /\ \A k \in 1 .. Len(wire) - 1 : wire'[k] = wire[k + 1]
  BY <1>1, Lengths
<1>4. wire[1].at = NoIndex
  <2> DEFINE d == wire[1]
  <2>1. d \in Datagrams
    BY <1>3
  <2>2. Parse(d.dg) = NoPacket
    BY <1>1
  <2> HIDE DEF d
  <2>3. d.at \in 1 .. call.total /\ d = Made(d.at) => Parse(d.dg) # NoPacket
    BY MadeRead DEF StreamInv, LinkInv
  <2>4. d.at = NoIndex
    BY <2>1, <2>2, <2>3, DatagramTyped
  <2> QED BY <2>4 DEF d
<1>5. Foreign = 1
  BY <1>1, <1>4 DEF Foreign
<1>6. Foreign' = 0
  <2>1. Datagrams' = Datagrams /\ call' = call /\ faults' \in 0 .. MaxFaults
    BY <1>1, Unmoved DEF StreamInv, LinkInv, WireType
  <2> QED BY <1>1, <2>1, WireTail DEF StreamInv
<1>7. Arrived' = Arrived
  BY <1>1, <1>3, <1>5, <1>6 DEF Arrived
<1>8. InStep'
  <2>1. ASSUME NEW k \in 1 .. Len(wire) - 1
        PROVE  wire'[k].at = log[Arrived + k]
    <3>1. wire[k + 1].at = log[Arrived + k]
      BY <1>2, <1>5 DEF InStep
    <3> QED BY <1>3, <3>1
  <2>2. Len(wire') - Foreign' = Len(wire) - 1 /\ \A k \in 1 .. Len(wire) - 1 : k + Foreign' = k
    BY <1>3, <1>6
  <2> QED BY <1>1, <1>2, <1>7, <2>1, <2>2 DEF InStep
<1> QED BY <1>1, <1>2, <1>7, <1>8, CountedStays

\* What counting a packet does to the histories.
LEMMA CountValues ==
  ASSUME IInv, NEW i, NEW pkt, pkt.sequence = Number(i), Count(i, pkt)
  PROVE  /\ started' = TRUE /\ received' = received + 1
         /\ ~started => /\ received = 0 /\ seen = {} /\ firstAt' = i
                        /\ baseExt' = Number(i) /\ seen' = {Number(i)}
         /\ started  => /\ firstAt' = firstAt /\ baseExt' = baseExt
                        /\ seen' = seen \union {Place(i)}
<1>1. /\ Update(Number(i))
      /\ seen' = seen \union {Position(i, pkt)}
      /\ firstAt' = IF started THEN firstAt ELSE i
  BY DEF Count
<1>2. started' = TRUE /\ received' = received + 1
  BY <1>1 DEF Update, ReceivedAfter
<1>3. CASE ~started
  <2>1. Position(i, pkt) = Number(i) /\ seen = {} /\ received = 0
    BY <1>3 DEF Position, IInv, Fresh
  <2>2. baseExt' = Number(i)
    BY <1>1, <1>3 DEF Update, Unwrap
  <2> QED BY <1>1, <1>2, <1>3, <2>1, <2>2
<1>4. CASE started
  <2>1. Position(i, pkt) = Place(i)
    BY <1>4 DEF Position, Place
  <2>2. baseExt' = baseExt
    BY <1>1, <1>4 DEF Update
  <2> QED BY <1>1, <1>2, <1>4, <2>1, <2>2
<1> QED BY <1>3, <1>4

LEMMA HearAccounts ==
  ASSUME StreamInv, Accounting, Hear
  PROVE  Accounting'
<1> SUFFICES ASSUME faults' = 0 PROVE InStep' /\ CountedOnce'
  BY DEF Accounting
<1> DEFINE i == wire[1].at
           pkt == Parse(wire[1].dg)
<1>0. PICK n : n = Arrived
  OBVIOUS
<1>1. /\ UNCHANGED <<call, faults, log>>
      /\ wire # <<>> /\ wire' = Tail(wire) /\ pkt # NoPacket
      /\ IF IsEvent(pkt) THEN UNCHANGED <<firstAt, vars>> ELSE Count(i, pkt)
  BY DEF Hear, Arrive, senderVars
<1>2. InStep /\ CountedOnce /\ n \in Nat /\ n = Arrived
  BY <1>0, <1>1 DEF Accounting, InStep
<1>3. /\ wire \in Seq(Datagrams) /\ Len(wire) \in Nat /\ Len(wire) >= 1
      /\ log \in Seq(Nat) /\ Len(log) \in Nat
      /\ Len(wire') = Len(wire) - 1 /\ \A k \in 1 .. Len(wire) - 1 : wire'[k] = wire[k + 1]
  BY <1>1, Lengths
<1>4. i \in 1 .. call.total /\ pkt.sequence = Number(i) /\ Foreign = 0 /\ wire[1] = Made(i)
  <2>1. i \in 1 .. call.total /\ pkt.sequence = Number(i) /\ Foreign = 0
    BY <1>1, FirstRead
  <2>2. i # NoIndex
    BY <2>1, Quantities DEF NoIndex
  <2>3. wire[1] \in Datagrams
    BY <1>3
  <2> DEFINE d == wire[1]
  <2>4. d \in Datagrams /\ d.at # NoIndex
    BY <2>2, <2>3
  <2> HIDE DEF d
  <2>5. d = Made(d.at)
    BY <2>4, DatagramTyped
  <2> QED BY <2>1, <2>5 DEF d
<1>5. IsEvent(pkt) <=> i = call.key
  <2>1. pkt = Parse(Made(i).dg)
    BY <1>4
  <2> HIDE DEF i, pkt
  <2> QED BY <1>4, <2>1, MadeRead DEF StreamInv, LinkInv
<1>6. Foreign' = 0
  <2>1. /\ call' = call /\ faults' \in 0 .. MaxFaults
    BY <1>1 DEF StreamInv, LinkInv, WireType
  <2>2. Datagrams' = Datagrams
    BY <2>1 DEF Datagrams, Made, Sound, Number, Frame
  <2> QED BY <1>1, <2>1, <2>2, WireTail DEF StreamInv
<1>7. Arrived' = n + 1 /\ log[n + 1] = i /\ n + 1 <= Len(log)
  <2>1. Arrived' = Len(log) - (Len(wire) - 1) /\ n = Len(log) - Len(wire)
    BY <1>1, <1>2, <1>3, <1>4, <1>6 DEF Arrived
  <2>2. 1 \in 1 .. Len(wire) - Foreign /\ 1 + Foreign = 1
    BY <1>3, <1>4
  <2>3. wire[1].at = log[n + 1]
    BY <1>2, <2>2 DEF InStep
  <2> QED BY <1>3, <2>1, <2>3
<1>8. InStep'
  <2>1. ASSUME NEW k \in 1 .. Len(wire) - 1
        PROVE  wire'[k].at = log[(n + 1) + k]
    <3>1. k + 1 \in 1 .. Len(wire) - Foreign /\ (k + 1) + Foreign = k + 1
      BY <1>3, <1>4
    <3>2. wire[k + 1].at = log[n + (k + 1)]
      BY <1>2, <3>1 DEF InStep
    <3>3. n + (k + 1) = (n + 1) + k
      BY <1>2
    <3> QED BY <1>3, <3>2, <3>3
  <2>2. Len(wire') - Foreign' = Len(wire) - 1 /\ \A k \in 1 .. Len(wire) - 1 : k + Foreign' = k
    BY <1>3, <1>6
  <2>3. n + 1 \in Nat
    BY <1>2
  <2> QED BY <1>1, <1>7, <2>1, <2>2, <2>3 DEF InStep
<1> HIDE DEF i, pkt
<1>9. /\ \A m \in Nat : Spoken(m)' = Spoken(m)
      /\ Spoken(n + 1) = IF i = call.key THEN Spoken(n) ELSE Spoken(n) \union {n + 1}
      /\ Spoken(Arrived)' = Spoken(n + 1)
  <2>1. \A k \in 1 .. n + 1 : k \in 1 .. n \/ k = n + 1
    BY <1>2
  <2>2. \A k \in 1 .. n : k \in 1 .. n + 1
    BY <1>2
  <2>3. n + 1 \in 1 .. n + 1
    BY <1>2
  <2>4. Spoken(n + 1) = IF i = call.key THEN Spoken(n) ELSE Spoken(n) \union {n + 1}
    <3> QED BY <1>7, <2>1, <2>2, <2>3 DEF Spoken
  <2> QED BY <1>1, <1>7, <2>4 DEF Spoken
<1>10. CASE i = call.key
  <2>1. UNCHANGED <<firstAt, vars>>
    BY <1>1, <1>5, <1>10
  <2>2. ~started => Spoken(Arrived)' = {}
    BY <1>2, <1>9, <1>10 DEF CountedOnce
  <2>3. ASSUME started
        PROVE  /\ \E f \in 1 .. n + 1 : log[f] = firstAt /\ Spoken(f - 1)' = {}
               /\ firstAt # call.key
               /\ seen = {Place(log[k]) : k \in Spoken(n + 1)}
               /\ received = Cardinality(seen)
    <3>1. PICK f \in 1 .. n : log[f] = firstAt /\ Spoken(f - 1) = {}
      BY <1>2, <2>3 DEF CountedOnce
    <3>2. f \in 1 .. n + 1 /\ f - 1 \in Nat
      BY <1>2
    <3> QED BY <1>2, <1>9, <1>10, <2>3, <3>1, <3>2 DEF CountedOnce
  <2>4. \A x : Place(x)' = baseExt + (x - firstAt)
    BY <2>1 DEF Place, vars
  <2> QED BY <1>1, <1>7, <1>8, <1>9, <2>1, <2>2, <2>3 DEF CountedOnce, vars, Place
<1>11. CASE i # call.key
  <2>1. Count(i, pkt)
    BY <1>1, <1>5, <1>11
  <2>2. /\ started' = TRUE /\ received' = received + 1
        /\ ~started => /\ received = 0 /\ seen = {} /\ firstAt' = i
                       /\ baseExt' = Number(i) /\ seen' = {Number(i)}
        /\ started  => /\ firstAt' = firstAt /\ baseExt' = baseExt
                       /\ seen' = seen \union {Place(i)}
    BY <1>4, <2>1, CountValues DEF StreamInv
  <2>3. CASE ~started
    <3>1. Spoken(n) = {} /\ Spoken(n + 1) = {n + 1}
      BY <1>2, <1>9, <1>11, <2>3 DEF CountedOnce
    <3>2. /\ n + 1 \in 1 .. Arrived' /\ log'[n + 1] = firstAt'
          /\ Spoken((n + 1) - 1)' = {}
      <4>1. (n + 1) - 1 = n /\ n \in Nat /\ n + 1 \in 1 .. n + 1
        BY <1>2
      <4>2. Spoken(n)' = {}
        BY <1>9, <3>1, <4>1
      <4> QED BY <1>1, <1>7, <2>2, <2>3, <4>1, <4>2
    <3>3. firstAt' # call'.key
      BY <1>1, <1>11, <2>2, <2>3
    <3>4. seen' = {Place(log[k])' : k \in Spoken(Arrived)'}
      <4>1. Place(log[n + 1])' = Number(i)
        <5>1. log'[n + 1] = i /\ firstAt' = i /\ baseExt' = Number(i)
          BY <1>1, <1>7, <2>2, <2>3
        <5>2. Number(i) + (i - i) = Number(i)
          <6>1. i \in Int
            BY <1>4, Quantities
          <6>2. Number(i) \in Nat
            BY <6>1, NumberTyped DEF StreamInv, LinkInv
          <6> QED BY <6>1, <6>2
        <5> QED BY <5>1, <5>2 DEF Place
      <4>2. Spoken(Arrived)' = {n + 1}
        BY <1>9, <3>1
      <4> QED BY <2>2, <2>3, <4>1, <4>2
    <3>5. received' = Cardinality(seen')
      <4>1. Cardinality({Number(i)}) = 1
        BY FS_Singleton
      <4> QED BY <2>2, <2>3, <4>1
    <3>6. \E f \in 1 .. Arrived' : log'[f] = firstAt' /\ Spoken(f - 1)' = {}
      BY <3>2
    <3> QED BY <1>8, <2>2, <3>3, <3>4, <3>5, <3>6 DEF CountedOnce
  <2>4. CASE started
    <3>1. PICK f \in 1 .. n : log[f] = firstAt /\ Spoken(f - 1) = {}
      BY <1>2, <2>4 DEF CountedOnce
    <3>2. \E g \in 1 .. Arrived' : log'[g] = firstAt' /\ Spoken(g - 1)' = {}
      <4>1. f \in 1 .. n + 1 /\ f - 1 \in Nat
        BY <1>2
      <4> QED BY <1>1, <1>7, <1>9, <2>2, <2>4, <3>1, <4>1
    <3>3. firstAt' # call'.key
      BY <1>1, <1>2, <2>2, <2>4 DEF CountedOnce
    <3>4. \A x : Place(x)' = baseExt' + (x' - firstAt')
      BY DEF Place
    <3>5. seen' = {Place(log[k]) : k \in Spoken(n + 1)}
      <4>1. seen = {Place(log[k]) : k \in Spoken(n)}
        BY <1>2, <2>4 DEF CountedOnce
      <4>2. Spoken(n + 1) = Spoken(n) \union {n + 1} /\ log[n + 1] = i
        BY <1>7, <1>9, <1>11
      <4> QED BY <2>2, <2>4, <4>1, <4>2
    <3>6. \A k \in Spoken(n + 1) : Place(log[k])' = Place(log[k])
      BY <1>1, <2>2, <2>4 DEF Place
    <3>7. seen' = {Place(log[k])' : k \in Spoken(Arrived)'}
      BY <1>9, <3>5, <3>6
    <3>8. Place(i) \notin seen
      <4>1. ASSUME NEW k \in Spoken(n) PROVE Place(log[k]) # Place(i)
        <5>1. k \in 1 .. Len(log) /\ n + 1 \in 1 .. Len(log) /\ k # n + 1
          BY <1>2, <1>3, <1>7 DEF Spoken
        <5>2. log[k] # log[n + 1]
          BY <5>1 DEF StreamInv, SInv, Orderly, Distinct
        <5>3. log[k] \in Int /\ i \in Int /\ baseExt \in Int /\ firstAt \in Int
          <6>1. log[k] \in Nat
            BY <1>3, <5>1
          <6>2. baseExt \in Nat /\ firstAt \in 1 .. call.total
            BY <2>4 DEF StreamInv, IInv, TypeOK, LinkInv, Placed
          <6> QED BY <1>4, <6>1, <6>2, Quantities
        <5> QED BY <1>7, <5>2, <5>3 DEF Place
      <4> QED BY <1>2, <2>4, <4>1 DEF CountedOnce
    <3>9. received' = Cardinality(seen')
      <4>1. IsFiniteSet(seen) /\ received = Cardinality(seen)
        BY <1>2, <2>4 DEF StreamInv, IInv, TypeOK, CountedOnce
      <4>2. Cardinality(seen \union {Place(i)}) = Cardinality(seen) + 1
        BY <3>8, <4>1, FS_AddElement
      <4> QED BY <2>2, <2>4, <4>1, <4>2
    <3> QED BY <1>8, <2>2, <3>2, <3>3, <3>7, <3>9 DEF CountedOnce
  <2> QED BY <2>3, <2>4
<1> QED BY <1>8, <1>10, <1>11

LEMMA StepAccounting ==
  ASSUME StreamInv, Accounting, [StreamNext]_streamVars
  PROVE  Accounting'
<1>1. CASE Drop
  BY <1>1, IdleAccounts DEF Drop, Iterate
<1>2. CASE SendAndRelease
  BY <1>2, SendAndReleaseAccounts
<1>3. CASE Hold
  BY <1>3, IdleAccounts DEF Hold, Iterate
<1>4. CASE Send
  BY <1>4, SendAccounts
<1>5. CASE Flush
  BY <1>5, FlushAccounts
<1>6. CASE Lose \/ Duplicate \/ Overtake
  <2>1. faults' = faults + 1 /\ faults \in Nat
    BY <1>6, Quantities DEF Lose, Duplicate, Overtake, Fault
  <2>2. faults' # 0
    BY <2>1
  <2> QED BY <2>2 DEF Accounting
<1>7. CASE Ignore
  BY <1>7, IgnoreAccounts
<1>8. CASE Hear
  BY <1>8, HearAccounts
<1>9. CASE UNCHANGED streamVars
  BY <1>9, IdleAccounts DEF streamVars, senderVars
<1> QED BY <1>1, <1>2, <1>3, <1>4, <1>5, <1>6, <1>7, <1>8, <1>9 DEF StreamNext

\* At most one packet is seen from before the first that is counted: the one that
\* was held back and overtaken by it.
LEMMA FewEarly ==
  ASSUME StreamInv, CountedOnce, started, Arrived \in Nat
  PROVE  LET early == {p \in seen : p < baseExt}
         IN  IsFiniteSet(early) /\ Cardinality(early) <= 1
<1> DEFINE early == {p \in seen : p < baseExt}
<1>1. PICK f \in 1 .. Arrived : log[f] = firstAt /\ Spoken(f - 1) = {}
  BY DEF CountedOnce
<1>2. seen = {Place(log[k]) : k \in Spoken(Arrived)} /\ firstAt # call.key
  BY DEF CountedOnce
<1> DEFINE x == Place(log[f + 1])
<1>3. early \subseteq {x}
  <2> SUFFICES ASSUME NEW k \in Spoken(Arrived), Place(log[k]) < baseExt
               PROVE  k = f + 1
    BY <1>2
  <2>1. k \in 1 .. Len(log) /\ f \in 1 .. Len(log) /\ log[k] # call.key
    BY Lengths DEF Spoken
  <2>2. log[k] \in Nat /\ log[f] \in Nat /\ baseExt \in Nat
    BY <2>1, Lengths DEF StreamInv, IInv, TypeOK
  <2>3. log[k] < log[f]
    BY <1>1, <2>2 DEF Place
  <2>4. k > f
    <3>1. CASE k < f
      <4>1. k \in Spoken(f - 1)
        BY <1>1, <2>1, <3>1 DEF Spoken
      <4> QED BY <1>1, <4>1
    <3>2. CASE k = f
      BY <2>2, <2>3, <3>2
    <3> QED BY <2>1, <3>1, <3>2
  <2>5. NearlyOrdered(log, Len(log))
    BY DEF StreamInv, SInv, Orderly
  <2> QED BY <2>1, <2>2, <2>3, <2>4, <2>5 DEF NearlyOrdered
<1>4. IsFiniteSet({x}) /\ Cardinality({x}) = 1
  BY FS_Singleton
<1> HIDE DEF x, early
<1>5. IsFiniteSet(early) /\ Cardinality(early) <= Cardinality({x})
  BY <1>3, <1>4, FS_Subset
<1> QED BY <1>4, <1>5 DEF early

\* At the end a position from the first to the newest was seen, or its frame was
\* dropped or sent a telephone event.
LEMMA SilentUnseen ==
  ASSUME StreamInv, Accounting, SenderDone, wire = <<>>, faults = 0, started
  PROVE  LET index(p) == firstAt + (p - baseExt)
         IN  {p \in baseExt .. maxExt : index(p) \in dropped \union {call.key}}
               = (baseExt .. maxExt) \ seen
<1> DEFINE index(p) == firstAt + (p - baseExt)
<1>1. Arrived = Len(log) /\ Len(log) \in Nat
  <2>1. Len(wire) = 0 /\ Foreign = 0
    BY DEF Foreign
  <2> QED BY <2>1, Lengths DEF Arrived
<1>2. /\ seen = {Place(log[k]) : k \in Spoken(Len(log))}
      /\ firstAt \in 1 .. call.total /\ call.total \in Nat
      /\ baseExt \in Nat /\ maxExt \in Nat /\ maxExt \in seen
      /\ index(maxExt) \in 1 .. call.total
  BY <1>1, Quantities
     DEF Accounting, CountedOnce, StreamInv, LinkInv, Placed, IInv, TypeOK, UnwrapExact
<1>3. /\ 1 .. call.total = dropped \union Elapsed /\ dropped \intersect Elapsed = {}
  <2>1. Held = {} /\ next - 1 = call.total
    BY <1>2 DEF SenderDone, Held
  <2> QED BY <2>1 DEF StreamInv, SInv, Accounted
<1>4. \A k \in 1 .. Len(log) : log[k] \in Nat /\ log[k] \in Elapsed
  BY Lengths DEF Elapsed, Elements
<1>5. ASSUME NEW p \in baseExt .. maxExt
      PROVE  p \in seen <=> index(p) \notin dropped \union {call.key}
  <2>1. p \in Int /\ p >= baseExt /\ p <= maxExt /\ index(p) \in 1 .. call.total
    BY <1>2
  <2>2. ASSUME p \in seen
        PROVE  index(p) \notin dropped \union {call.key}
    <3>1. PICK k \in Spoken(Len(log)) : p = Place(log[k])
      BY <1>2, <2>2
    <3>2. k \in 1 .. Len(log) /\ log[k] # call.key
      BY DEF Spoken
    <3>3. index(p) = log[k]
      BY <1>2, <1>4, <3>1, <3>2 DEF Place
    <3> QED BY <1>3, <1>4, <3>2, <3>3
  <2>3. ASSUME index(p) \notin dropped \union {call.key}
        PROVE  p \in seen
    <3>1. index(p) \in Elapsed /\ index(p) # call.key
      BY <1>3, <2>1, <2>3
    <3>2. PICK k \in 1 .. Len(log) : log[k] = index(p)
      BY <3>1 DEF Elapsed, Elements
    <3>3. k \in Spoken(Len(log))
      BY <3>1, <3>2 DEF Spoken
    <3>4. Place(log[k]) = p
      BY <1>2, <2>1, <3>2 DEF Place
    <3> QED BY <1>2, <3>3, <3>4
  <2> QED BY <2>2, <2>3
<1> HIDE DEF index
<1>6. {p \in baseExt .. maxExt : index(p) \in dropped \union {call.key}}
        = (baseExt .. maxExt) \ seen
  BY <1>5
<1> QED BY <1>6 DEF index

LEMMA AccountingExact ==
  ASSUME StreamInv, Accounting
  PROVE  LossAccounted
<1> SUFFICES ASSUME SenderDone, wire = <<>>, faults = 0, started
    PROVE  LET index(p) == firstAt + (p - baseExt)
               silent   == {p \in baseExt .. maxExt : index(p) \in dropped \union {call.key}}
               early    == {p \in seen : p < baseExt}
               missing  == Cardinality(silent) - Cardinality(early)
           IN  /\ Cardinality(early) <= 1
               /\ Lost = IF missing > 0 THEN missing ELSE 0
  BY DEF LossAccounted
<1> DEFINE range  == baseExt .. maxExt
           silent == {p \in range : firstAt + (p - baseExt) \in dropped \union {call.key}}
           early  == {p \in seen : p < baseExt}
<1>1. silent = range \ seen
  BY SilentUnseen
<1>2. Cardinality(early) <= 1
  <2>1. Arrived \in Nat /\ CountedOnce
    BY DEF Accounting, InStep
  <2> QED BY <2>1, FewEarly
<1>3. /\ baseExt \in Nat /\ maxExt \in Nat /\ baseExt <= maxExt
      /\ IsFiniteSet(seen) /\ seen \subseteq Int /\ \A p \in seen : p <= maxExt
      /\ received = Cardinality(seen)
  BY DEF StreamInv, IInv, TypeOK, UnwrapExact, Accounting, CountedOnce
<1>4. early = seen \ range
  <2>1. ASSUME NEW p \in seen
        PROVE  p < baseExt <=> p \notin range
    <3>1. p \in Int /\ p <= maxExt /\ baseExt \in Int /\ maxExt \in Int
      BY <1>3
    <3> QED BY ONLY <3>1
  <2> QED BY <2>1
<1>5. IsFiniteSet(range) /\ Cardinality(range) = maxExt - baseExt + 1
  BY <1>3, FS_Interval
<1>6. Lost = IF maxExt - baseExt + 1 > received THEN (maxExt - baseExt + 1) - received ELSE 0
  <2>1. Expected = maxExt - baseExt + 1
    BY DEF Expected
  <2> QED BY <2>1 DEF Lost
<1> HIDE DEF range, silent, early
<1>7. /\ Cardinality(range \ seen) = Cardinality(range) - Cardinality(range \cap seen)
      /\ Cardinality(seen \ range) = Cardinality(seen) - Cardinality(seen \cap range)
      /\ seen \cap range = range \cap seen
  BY <1>3, <1>5, FS_Difference
<1> DEFINE a == Cardinality(range)
           s == Cardinality(seen)
           c == Cardinality(range \cap seen)
<1>8. a \in Int /\ s \in Int /\ c \in Int
  <2>1. IsFiniteSet(range \cap seen)
    BY <1>5, FS_Subset
  <2> QED BY <1>3, <1>5, <2>1, FS_CardinalityType
<1>9. Cardinality(silent) = a - c /\ Cardinality(early) = s - c /\ received = s
      /\ maxExt - baseExt + 1 = a
  BY <1>1, <1>3, <1>4, <1>5, <1>7
<1> HIDE DEF a, s, c
<1>10. (a - c) - (s - c) = a - s /\ (a > s <=> a - s > 0)
  BY <1>8
<1>11. Lost = IF Cardinality(silent) - Cardinality(early) > 0
              THEN Cardinality(silent) - Cardinality(early) ELSE 0
  <2>1. Lost = IF a > s THEN a - s ELSE 0
    BY <1>6, <1>9
  <2> QED BY <1>9, <1>10, <2>1
<1> QED BY <1>2, <1>11 DEF silent, early, range

\* Behind a link that does nothing wrong, what the receiver reports lost is what the
\* sender dropped, and the telephone events, whatever it dropped and held back.
THEOREM LossTold ==
  ASSUME MaxTotal <= Half, MaxUpdates >= MaxTotal + MaxFaults
  PROVE  StreamSpec => []LossAccounted
<1>1. StreamInit => StreamInv /\ Accounting
  BY InitIInv, InitSInv, InitLinkInv, InitAccounting DEF StreamInit, StreamInv
<1>2. (StreamInv /\ Accounting) /\ [StreamNext]_streamVars => (StreamInv /\ Accounting)'
  BY StepStreamInv, StepAccounting
<1>3. StreamInv /\ Accounting => LossAccounted
  BY AccountingExact
<1> QED BY <1>1, <1>2, <1>3, PTL DEF StreamSpec

-----------------------------------------------------------------------------
(* What is heard *)

HeardMade ==
  heard.at # NoIndex => /\ heard.at \in 1 .. call.total
                        /\ heard.pkt = Parse(Made(heard.at).dg)

LEMMA StepHeardMade ==
  ASSUME StreamInv, HeardMade, [StreamNext]_streamVars
  PROVE  HeardMade'
<1>1. CASE Hear
  <2> DEFINE d == wire[1]
  <2>1. /\ wire # <<>> /\ Parse(d.dg) # NoPacket /\ call' = call
        /\ heard' = [at |-> d.at, pkt |-> Parse(d.dg)]
    BY <1>1 DEF Hear, Arrive
  <2>2. d.at \in 1 .. call.total /\ d \in Datagrams
    BY <2>1, FirstRead DEF StreamInv, LinkInv, WireType
  <2>3. d.at # NoIndex
    BY <2>2, Quantities DEF NoIndex
  <2> HIDE DEF d
  <2>4. d = Made(d.at)
    BY <2>2, <2>3, DatagramTyped
  <2>5. heard'.at = d.at /\ heard'.pkt = Parse(Made(d.at).dg)
    BY <2>1, <2>4
  <2>6. Made(heard.at)' = Made(heard'.at)
    BY <2>1 DEF Made, Sound, Number, Frame
  <2> QED BY <2>1, <2>2, <2>5, <2>6 DEF HeardMade
<1>2. CASE UNCHANGED <<call, heard>>
  <2>1. Made(heard.at)' = Made(heard.at)
    BY <1>2 DEF Made, Sound, Number, Frame
  <2> QED BY <1>2, <2>1 DEF HeardMade
<1>3. Hear \/ UNCHANGED <<call, heard>>
  BY DEF StreamNext, Drop, SendAndRelease, Hold, Send, Flush, Iterate, Lose, Duplicate,
     Overtake, Fault, Ignore, Arrive, streamVars
<1> QED BY <1>1, <1>2, <1>3

\* recvLoop takes the very bytes out of a datagram that the sender put in for that
\* frame, whatever header is around them, and tells telephone events from speech.
THEOREM BytesHeard ==
  ASSUME MaxTotal <= Half, MaxUpdates >= MaxTotal + MaxFaults
  PROVE  StreamSpec => [](heard.at # NoIndex =>
                            /\ heard.pkt.payload = Sound(heard.at).payload
                            /\ IsEvent(heard.pkt) <=> heard.at = call.key)
<1>1. StreamInit => StreamInv /\ HeardMade
  <2> SUFFICES ASSUME StreamInit PROVE HeardMade
    BY InitIInv, InitSInv, InitLinkInv DEF StreamInit, StreamInv
  <2>1. heard.at = NoIndex
    BY DEF StreamInit
  <2> QED BY <2>1 DEF HeardMade
<1>2. (StreamInv /\ HeardMade) /\ [StreamNext]_streamVars => (StreamInv /\ HeardMade)'
  BY StepStreamInv, StepHeardMade
<1>3. StreamInv /\ HeardMade =>
        (heard.at # NoIndex => /\ heard.pkt.payload = Sound(heard.at).payload
                               /\ IsEvent(heard.pkt) <=> heard.at = call.key)
  BY MadeRead DEF StreamInv, LinkInv, HeardMade
<1> QED BY <1>1, <1>2, <1>3, PTL DEF StreamSpec

-----------------------------------------------------------------------------
(* The companders *)

\* A code stands for a cell: the magnitudes w * d .. w * (d + 1) - 1.  Each segment has
\* cells of one width, and what a code is decoded to is the middle of its cell.
InCell(w, d, mag) == mag \in Int /\ w * d <= mag /\ mag < w * (d + 1)

\* A power of two, whose value the provers have to be told.
Pow2(k) == 2^k

\* The widths of the eight segments of mu-law, whose cells are 16 .. 31.
MuWidth == <<8, 16, 32, 64, 128, 256, 512, 1024>>

\* The samples, without their set.
LEMMA SampleIs ==
  ASSUME NEW s
  PROVE  s \in Sample <=> s \in Int /\ 0 <= s + 32768 /\ s <= 32767
<1> DEFINE a == -32768
           b == 32767
<1>1. a \in Int /\ b \in Int /\ b = 32767
  OBVIOUS
<1>2. a + 32768 = 0
  OBVIOUS
<1>3. Sample = a .. b
  BY DEF Sample
<1> HIDE DEF a, b
<1>4. s \in a .. b <=> s \in Int /\ a <= s /\ s <= b
  BY <1>1
<1>5. s \in Int => (a <= s <=> 0 <= s + 32768)
  BY <1>1, <1>2
<1> QED BY <1>1, <1>3, <1>4, <1>5

\* Segment finds the first end that is not below the value.
LEMMA SegmentIs ==
  ASSUME NEW value \in Int, NEW ends, \A i \in 0 .. 7 : ends[i + 1] \in Int,
         NEW k \in 0 .. 7, value <= ends[k + 1], \A i \in 0 .. 7 : i < k => ends[i + 1] < value
  PROVE  Segment(value, ends) = k
<1> DEFINE above == {i \in 0 .. 7 : value <= ends[i + 1]}
<1>1. k \in above /\ \A j \in above : k <= j
  OBVIOUS
<1>2. \A i \in above : (\A j \in above : i <= j) => i = k
  BY <1>1
<1> QED BY <1>1, <1>2 DEF Segment

\* The segments' widths and ends, as the encoder and the decoder have them.
LEMMA MuTable ==
  ASSUME NEW k \in 0 .. 7
  PROVE  /\ MuWidth[k + 1] \in {8, 16, 32, 64, 128, 256, 512, 1024}
         /\ MuWidth[k + 1] = Pow2(k + 3) /\ MuWidth[k + 1] = 8 * Pow2(k)
         /\ Pow2(k) \in {1, 2, 4, 8, 16, 32, 64, 128}
         /\ MuEnds[k + 1] = 32 * MuWidth[k + 1] - 1
         /\ \A i \in 0 .. 7 : i < k => MuEnds[i + 1] < 16 * MuWidth[k + 1]
<1> USE DEF MuWidth, MuEnds
<1>1. /\ Pow2(0) = 1 /\ Pow2(1) = 2 /\ Pow2(2) = 4 /\ Pow2(3) = 8 /\ Pow2(4) = 16
      /\ Pow2(5) = 32 /\ Pow2(6) = 64 /\ Pow2(7) = 128 /\ Pow2(8) = 256
      /\ Pow2(9) = 512 /\ Pow2(10) = 1024
  BY DEF Pow2
<1>2. CASE k = 0 BY <1>1, <1>2
<1>3. CASE k = 1 BY <1>1, <1>3
<1>4. CASE k = 2 BY <1>1, <1>4
<1>5. CASE k = 3 BY <1>1, <1>5
<1>6. CASE k = 4 BY <1>1, <1>6
<1>7. CASE k = 5 BY <1>1, <1>7
<1>8. CASE k = 6 BY <1>1, <1>8
<1>9. CASE k = 7 BY <1>1, <1>9
<1> HIDE DEF MuWidth, MuEnds
<1> QED BY <1>2, <1>3, <1>4, <1>5, <1>6, <1>7, <1>8, <1>9

\* The cell is the quotient by its width.
LEMMA MuQuotient ==
  ASSUME NEW w \in {8, 16, 32, 64, 128, 256, 512, 1024}, NEW d \in 16 .. 31,
         NEW mag, InCell(w, d, mag)
  PROVE  mag \in Int /\ mag \div w = d /\ 16 * w <= mag /\ mag <= 32 * w - 1
BY DEF InCell

\* The code of a cell
\* The segment and the four bits below it that the encoder finds for a cell.
LEMMA MuCoded ==
  ASSUME NEW k \in 0 .. 7, NEW d \in 16 .. 31, NEW w, w = MuWidth[k + 1],
         NEW mag, InCell(w, d, mag)
  PROVE  Segment(mag, MuEnds) = k /\ (mag \div 2^(k + 3)) % 16 = d - 16
<1>1. mag \div w = d /\ 16 * w <= mag /\ mag <= 32 * w - 1 /\ mag \in Int
  BY MuTable, MuQuotient
<1>2. \A i \in 0 .. 7 : MuEnds[i + 1] \in Int
  BY DEF MuEnds
<1>3. mag <= MuEnds[k + 1] /\ \A i \in 0 .. 7 : i < k => MuEnds[i + 1] < mag
  BY <1>1, <1>2, MuTable
<1>4. Segment(mag, MuEnds) = k
  BY <1>1, <1>2, <1>3, SegmentIs
<1>5. (mag \div Pow2(k + 3)) % 16 = d - 16
  BY <1>1, MuTable
<1> QED BY <1>4, <1>5 DEF Pow2

\* Every biased magnitude is in a cell.
LEMMA MuCellOf ==
  ASSUME NEW mag \in Int, 132 <= mag, mag <= 32767
  PROVE  \E k \in 0 .. 7, d \in 16 .. 31 : InCell(MuWidth[k + 1], d, mag)
<1>1. PICK w \in {8, 16, 32, 64, 128, 256, 512, 1024} : 16 * w <= mag /\ mag <= 32 * w - 1
  OBVIOUS
<1>2. mag \div w \in 16 .. 31 /\ InCell(w, mag \div w, mag)
  BY <1>1 DEF InCell
<1>3. PICK k \in 0 .. 7 : w = MuWidth[k + 1]
  BY DEF MuWidth
<1> QED BY <1>2, <1>3

\* What the code of a cell is decoded to.
LEMMA MuDecoded ==
  ASSUME NEW k \in 0 .. 7, NEW d \in 16 .. 31, NEW w, w = MuWidth[k + 1], NEW neg \in BOOLEAN,
         NEW byte, byte = 255 - (IF neg THEN 128 + (16 * k + d - 16) ELSE 16 * k + d - 16)
  PROVE  /\ byte \in Code
         /\ DecodeMuLaw(byte) = IF neg THEN -((w * d + w \div 2) - 132) ELSE (w * d + w \div 2) - 132
<1> DEFINE code == 255 - byte
           mag  == (8 * (code % 16) + 132) * 2^((code \div 16) % 8) - 132
<1>1. /\ byte \in Code /\ code % 16 = d - 16 /\ (code \div 16) % 8 = k
      /\ code >= 128 <=> neg
  BY DEF Code
<1>2. DecodeMuLaw(byte) = IF code >= 128 THEN -mag ELSE mag
  BY DEF DecodeMuLaw, MuBias
<1>3. mag = (8 * (d - 16) + 132) * Pow2(k) - 132
  BY <1>1 DEF Pow2
<1> HIDE DEF code, mag
<1>4. Pow2(k) \in {1, 2, 4, 8, 16, 32, 64, 128} /\ w = 8 * Pow2(k)
  BY MuTable
<1>5. ASSUME NEW p \in {1, 2, 4, 8, 16, 32, 64, 128}
      PROVE  (8 * (d - 16) + 132) * p = 8 * p * d + (8 * p) \div 2
  OBVIOUS
<1>6. mag = (w * d + w \div 2) - 132
  BY <1>3, <1>4, <1>5
<1> QED BY <1>1, <1>2, <1>6

Clipped(sample) == IF Magnitude(sample) > MuClip THEN MuClip ELSE Magnitude(sample)

\* What is left of a sample: the middle of its cell.
MuMiddle(k, d) == (MuWidth[k + 1] * d + MuWidth[k + 1] \div 2) - 132

\* The middle, with the width named.
LEMMA MiddleIs ==
  ASSUME NEW k, NEW d, NEW w, w = MuWidth[k + 1]
  PROVE  MuMiddle(k, d) = (w * d + w \div 2) - 132
BY Zenon DEF MuMiddle

\* What the encoder clips a magnitude to, case by case.
LEMMA ClippedIs ==
  ASSUME NEW s \in Int
  PROVE  /\ Clipped(s) \in Nat /\ Clipped(s) <= 32635
         /\ \/ Clipped(s) = 32635 /\ s > 32635
            \/ Clipped(s) = 32635 /\ s < -32635
            \/ Clipped(s) = s /\ s >= 0
            \/ Clipped(s) = -s /\ s < 0
<1> DEFINE a == Magnitude(s)
<1>1. a \in Nat /\ (s < 0 => a = -s) /\ (s >= 0 => a = s)
  <2>1. CASE s < 0
    BY <2>1 DEF Magnitude
  <2>2. CASE s >= 0
    <3>1. ~(s < 0)
      BY <2>2
    <3> QED BY <2>2, <3>1 DEF Magnitude
  <2> QED BY <2>1, <2>2
<1>2. Clipped(s) = IF a > 32635 THEN 32635 ELSE a
  BY DEF Clipped, MuClip
<1> HIDE DEF a
<1>3. CASE a > 32635
  <2>1. Clipped(s) = 32635
    BY <1>2, <1>3
  <2> QED BY <1>1, <1>3, <2>1
<1>4. CASE ~(a > 32635)
  <2>1. Clipped(s) = a
    BY <1>2, <1>4
  <2>2. a <= 32635
    BY <1>1, <1>4
  <2> QED BY <1>1, <2>1, <2>2
<1> QED BY <1>3, <1>4

\* The code of a sample, from the cell it is in.
LEMMA MuEncoded ==
  ASSUME NEW s \in Int, NEW k \in 0 .. 7, NEW d \in 16 .. 31,
         InCell(MuWidth[k + 1], d, Clipped(s) + 132)
  PROVE  EncodeMuLaw(s) = 255 - (IF s < 0 THEN 128 + (16 * k + d - 16) ELSE 16 * k + d - 16)
<1> DEFINE m == Clipped(s) + 132
<1>1. InCell(MuWidth[k + 1], d, m)
  OBVIOUS
<1>2. EncodeMuLaw(s) =
        LET segment == Segment(m, MuEnds)
            code == IF segment = 8 THEN 127 ELSE 16 * segment + ((m \div 2^(segment + 3)) % 16)
        IN  255 - (IF s < 0 THEN 128 + code ELSE code)
  BY DEF EncodeMuLaw, MuBias, Clipped
<1> HIDE DEF m
<1>3. Segment(m, MuEnds) = k /\ (m \div 2^(k + 3)) % 16 = d - 16
  BY <1>1, MuCoded
<1> DEFINE c == (m \div 2^(k + 3)) % 16
<1>4. EncodeMuLaw(s) =
        255 - (IF s < 0 THEN 128 + (IF k = 8 THEN 127 ELSE 16 * k + c)
               ELSE IF k = 8 THEN 127 ELSE 16 * k + c)
  BY <1>2, <1>3
<1>5. c = d - 16
  BY <1>3
<1> HIDE DEF c
<1> QED BY <1>4, <1>5

\* Each sample comes back as the middle of the cell it is in.
LEMMA MuReturns ==
  ASSUME NEW s \in Int, NEW k \in 0 .. 7, NEW d \in 16 .. 31,
         InCell(MuWidth[k + 1], d, Clipped(s) + 132)
  PROVE  /\ EncodeMuLaw(s) \in Code
         /\ DecodeMuLaw(EncodeMuLaw(s)) = IF s < 0 THEN -MuMiddle(k, d) ELSE MuMiddle(k, d)
<1> DEFINE neg == s < 0
<1>1. neg \in BOOLEAN
  OBVIOUS
<1>2. EncodeMuLaw(s) = 255 - (IF neg THEN 128 + (16 * k + d - 16) ELSE 16 * k + d - 16)
  BY MuEncoded
<1> HIDE DEF neg
<1> DEFINE byte == 255 - (IF neg THEN 128 + (16 * k + d - 16) ELSE 16 * k + d - 16)
           w == MuWidth[k + 1]
<1>3. /\ byte \in Code
      /\ DecodeMuLaw(byte) = IF neg THEN -((w * d + w \div 2) - 132) ELSE (w * d + w \div 2) - 132
  <2> HIDE DEF byte, w
  <2>1. w = MuWidth[k + 1] /\ byte = 255 - (IF neg THEN 128 + (16 * k + d - 16) ELSE 16 * k + d - 16)
    BY DEF byte, w
  <2> QED BY <1>1, <2>1, MuDecoded
<1> QED BY <1>2, <1>3 DEF neg, MuMiddle

\* The widths of the cells of both laws.
Widths == {2, 4, 8, 16, 32, 64, 128, 256, 512, 1024}

\* A cell and its middle against its width: half a cell off at most.
LEMMA CellBounds ==
  ASSUME NEW w \in Widths, NEW d \in 0 .. 31, NEW mag, InCell(w, d, mag)
  PROVE  /\ mag \in Int /\ mag <= 32 * w - 1 /\ 0 <= mag
         /\ d >= 16 => 16 * w <= mag
         /\ w * d + w \div 2 \in Nat /\ w * d + w \div 2 < 32 * w
         /\ d >= 16 => 16 * w <= w * d + w \div 2
         /\ (w * d + w \div 2) - mag <= w \div 2
         /\ mag - (w * d + w \div 2) < w \div 2
BY DEF InCell, Widths

\* The middles of two cells are in the order of what is in the cells.
LEMMA CellOrder ==
  ASSUME NEW w \in Widths, NEW d \in 0 .. 31, w # 2 => d >= 16, NEW m, InCell(w, d, m),
         NEW v \in Widths, NEW e \in 0 .. 31, v # 2 => e >= 16, NEW n, InCell(v, e, n), m <= n
  PROVE  w * d + w \div 2 <= v * e + v \div 2
<1> USE DEF Widths
<1>1. CASE w = v
  BY <1>1 DEF InCell
<1>2. CASE w < v
  <2>1. \A y, x \in Widths : y < x => 2 * y <= x /\ x # 2
    OBVIOUS
  <2>2. e >= 16 /\ 2 * w <= v
    BY <1>2, <2>1
  <2>3. w * d + w \div 2 < 32 * w
    BY CellBounds
  <2>4. 16 * v <= v * e + v \div 2
    BY <2>2, CellBounds
  <2>5. v * e + v \div 2 \in Nat /\ w * d + w \div 2 \in Nat /\ v \in Int /\ w \in Int
    BY CellBounds
  <2> QED BY <2>2, <2>3, <2>4, <2>5
<1>3. CASE w > v
  <2>1. \A y, x \in Widths : y < x => 2 * y <= x /\ x # 2
    OBVIOUS
  <2>2. d >= 16 /\ 2 * v <= w
    BY <1>3, <2>1
  <2>3. 16 * w <= m /\ n <= 32 * v - 1 /\ m \in Int /\ n \in Int
    BY <2>2, CellBounds
  <2> QED BY <2>2, <2>3
<1> QED BY <1>1, <1>2, <1>3

\* What comes back of a sample.
MuReturned(s) == DecodeMuLaw(EncodeMuLaw(s))

\* The cell of a sample, and what comes back of it.
MuIn(s, k, d) ==
  /\ InCell(MuWidth[k + 1], d, Clipped(s) + 132)
  /\ MuReturned(s) = IF s < 0 THEN -MuMiddle(k, d) ELSE MuMiddle(k, d)
  /\ MuMiddle(k, d) \in Nat /\ MuMiddle(k, d) <= 32124

LEMMA MuCell ==
  ASSUME NEW s \in Int
  PROVE  \E k \in 0 .. 7, d \in 16 .. 31 : MuIn(s, k, d)
<1>1. Clipped(s) + 132 \in Int /\ 132 <= Clipped(s) + 132 /\ Clipped(s) + 132 <= 32767
  BY ClippedIs
<1>2. PICK k \in 0 .. 7, d \in 16 .. 31 : InCell(MuWidth[k + 1], d, Clipped(s) + 132)
  BY <1>1, MuCellOf
<1>3. MuReturned(s) = IF s < 0 THEN -MuMiddle(k, d) ELSE MuMiddle(k, d)
  BY <1>2, MuReturns DEF MuReturned
<1>4. MuMiddle(k, d) \in Nat /\ MuMiddle(k, d) <= 32124
  <2> DEFINE w == MuWidth[k + 1]
  <2>1. w \in {8, 16, 32, 64, 128, 256, 512, 1024}
    BY MuTable
  <2> HIDE DEF w
  <2>2. (w * d + w \div 2) - 132 \in Nat /\ (w * d + w \div 2) - 132 <= 32124
    BY <2>1
  <2> QED BY <2>2 DEF MuMiddle, w
<1> QED BY <1>2, <1>3, <1>4 DEF MuIn


\* The magnitude of an integer, without its definition by cases.
LEMMA Magnitudes ==
  ASSUME NEW n \in Int
  PROVE  Magnitude(n) \in Nat /\ (n >= 0 => Magnitude(n) = n) /\ (n <= 0 => Magnitude(n) = -n)
<1>1. CASE n < 0
  BY <1>1 DEF Magnitude
<1>2. CASE n >= 0
  <2>1. ~(n < 0)
    BY <1>2
  <2> QED BY <1>2, <2>1 DEF Magnitude
<1> QED BY <1>1, <1>2

\* A code of a sample is at most half a cell off, and a cell is at most a sixteenth
\* of what it starts with.
LEMMA MuClose ==
  ASSUME NEW s \in Sample
  PROVE  /\ MuReturned(s) \in Sample
         /\ 32 * Magnitude(MuReturned(s) - s) <= Magnitude(s) + 256
<1>00. s \in Int /\ 0 <= s + 32768 /\ s <= 32767
  BY SampleIs
<1>0. PICK k \in 0 .. 7, d \in 16 .. 31 : MuIn(s, k, d)
  BY <1>00, MuCell
<1>1.
        /\ InCell(MuWidth[k + 1], d, Clipped(s) + 132)
        /\ MuReturned(s) = IF s < 0 THEN -MuMiddle(k, d) ELSE MuMiddle(k, d)
        /\ MuMiddle(k, d) \in Nat /\ MuMiddle(k, d) <= 32124
  BY <1>0 DEF MuIn
<1> DEFINE w == MuWidth[k + 1]
           c == Clipped(s)
           x == w * d + w \div 2
<1>2. w \in {8, 16, 32, 64, 128, 256, 512, 1024} /\ w \in Widths
  BY MuTable DEF Widths
<1>3. MuMiddle(k, d) = x - 132
  BY MiddleIs
<1>4. /\ c \in Nat /\ c <= 32635
      /\ \/ c = 32635 /\ s > 32635
         \/ c = 32635 /\ s < -32635
         \/ c = s /\ s >= 0
         \/ c = -s /\ s < 0
  BY <1>00, ClippedIs
<1>5. InCell(w, d, c + 132)
  BY <1>1
<1> HIDE DEF w, c
<1>6. /\ x \in Nat /\ 16 * w <= c + 132
      /\ x - (c + 132) <= w \div 2 /\ (c + 132) - x < w \div 2
  BY <1>2, <1>5, CellBounds
<1>7. w \div 2 \in Nat /\ 16 * w = 32 * (w \div 2) /\ w \div 2 <= 512
  BY <1>2
<1> HIDE DEF x
<1>8. /\ (x - 132) - c <= w \div 2 /\ c - (x - 132) <= w \div 2
      /\ 32 * (w \div 2) <= c + 132
  BY <1>00, <1>4, <1>6, <1>7
<1> DEFINE r == MuReturned(s)
           y == x - 132
           h == w \div 2
<1>9. y \in Nat /\ y <= 32124 /\ (s < 0 => r = -y) /\ (s >= 0 => r = y)
  <2>1. CASE s < 0
    BY <1>00, <1>1, <1>3, <2>1
  <2>2. CASE ~(s < 0)
    BY <1>00, <1>1, <1>3, <2>2
  <2> QED BY <1>00, <1>1, <1>3, <2>1, <2>2
<1> HIDE DEF r, y, h
<1>10. /\ h \in Nat /\ h <= 512 /\ y - c <= h /\ c - y <= h /\ 32 * h <= c + 132
  BY <1>7, <1>8 DEF y, h
<1>11. r \in Int /\ 0 <= r + 32768 /\ r <= 32767
  BY <1>00, <1>9
<1>12. Magnitude(r - s) <= h + 133 /\ (c <= 32634 => Magnitude(r - s) <= h)
       /\ Magnitude(s) >= c /\ Magnitude(s) \in Nat /\ Magnitude(r - s) \in Nat
  <2>1. r - s <= h + 133 /\ s - r <= h + 133
    BY <1>00, <1>4, <1>9, <1>10
  <2>2. c <= 32634 => r - s <= h /\ s - r <= h
    BY <1>00, <1>4, <1>9, <1>10
  <2>3. Magnitude(s) >= c
    BY <1>00, <1>4, Magnitudes
  <2> QED BY <1>00, <1>11, <2>1, <2>2, <2>3, Magnitudes
<1>13. 32 * Magnitude(r - s) <= Magnitude(s) + 256
  BY <1>00, <1>4, <1>10, <1>12
<1> QED BY <1>11, <1>13, SampleIs DEF r

\* A louder sample never comes back as a quieter one.
LEMMA MuGrows ==
  ASSUME NEW s \in Int, NEW t \in Int, s <= t
  PROVE  MuReturned(s) <= MuReturned(t)
<1>0. PICK k \in 0 .. 7, d \in 16 .. 31 : MuIn(s, k, d)
  BY MuCell
<1>1.
        /\ InCell(MuWidth[k + 1], d, Clipped(s) + 132)
        /\ MuReturned(s) = IF s < 0 THEN -MuMiddle(k, d) ELSE MuMiddle(k, d)
        /\ MuMiddle(k, d) \in Nat /\ MuMiddle(k, d) <= 32124
  BY <1>0 DEF MuIn
<1>20. PICK l \in 0 .. 7, e \in 16 .. 31 : MuIn(t, l, e)
  BY MuCell
<1>2.
        /\ InCell(MuWidth[l + 1], e, Clipped(t) + 132)
        /\ MuReturned(t) = IF t < 0 THEN -MuMiddle(l, e) ELSE MuMiddle(l, e)
        /\ MuMiddle(l, e) \in Nat /\ MuMiddle(l, e) <= 32124
  BY <1>20 DEF MuIn
<1> DEFINE w == MuWidth[k + 1]
           v == MuWidth[l + 1]
           x == w * d + w \div 2
           y == v * e + v \div 2
<1>3. w \in Widths /\ w # 2 /\ v \in Widths /\ v # 2
  BY MuTable DEF Widths
<1>4. MuMiddle(k, d) = x - 132 /\ MuMiddle(l, e) = y - 132
  BY Zenon DEF MuMiddle
<1>5. InCell(w, d, Clipped(s) + 132) /\ InCell(v, e, Clipped(t) + 132)
  BY <1>1, <1>2
<1> HIDE DEF w, v
<1>6. x \in Nat /\ y \in Nat
  <2>1. /\ w * d + w \div 2 \in Nat
        /\ v * e + v \div 2 \in Nat
    BY <1>3 DEF Widths
  <2> QED BY <2>1
<1>7. Clipped(s) <= Clipped(t) => x <= y
  <2>1. Clipped(s) <= Clipped(t) => Clipped(s) + 132 <= Clipped(t) + 132
    BY ClippedIs
  <2>2. 0 .. 31 = 0 .. 15 \union 16 .. 31
    OBVIOUS
  <2> QED BY <1>3, <1>5, <2>1, <2>2, CellOrder
<1>8. Clipped(t) <= Clipped(s) => y <= x
  <2>1. Clipped(t) <= Clipped(s) => Clipped(t) + 132 <= Clipped(s) + 132
    BY ClippedIs
  <2> QED BY <1>3, <1>5, <2>1, CellOrder
<1> HIDE DEF x, y
<1>9. CASE s >= 0
  <2>1. ~(s < 0) /\ ~(t < 0)
    BY <1>9
  <2>2. Clipped(s) <= Clipped(t)
    BY <1>9, ClippedIs
  <2> QED BY <1>1, <1>2, <1>4, <1>6, <1>7, <2>1, <2>2
<1>10. CASE s < 0 /\ t >= 0
  <2>1. ~(t < 0)
    BY <1>10
  <2>2. MuReturned(s) = -MuMiddle(k, d) /\ MuReturned(t) = MuMiddle(l, e)
    BY <1>1, <1>2, <1>10, <2>1
  <2> QED BY <1>1, <1>2, <2>2
<1>11. CASE t < 0
  <2>1. s < 0
    BY <1>11
  <2>2. Clipped(t) <= Clipped(s)
    BY <1>11, <2>1, ClippedIs
  <2>3. MuReturned(s) = -MuMiddle(k, d) /\ MuReturned(t) = -MuMiddle(l, e)
    BY <1>1, <1>2, <1>11, <2>1
  <2> QED BY <1>4, <1>6, <1>8, <2>2, <2>3
<1> QED BY <1>9, <1>10, <1>11

\* The middle of a cell is in the cell.
LEMMA MuStays ==
  ASSUME NEW s \in Int
  PROVE  MuReturned(MuReturned(s)) = MuReturned(s)
<1>0. PICK k \in 0 .. 7, d \in 16 .. 31 : MuIn(s, k, d)
  BY MuCell
<1>1.
        /\ InCell(MuWidth[k + 1], d, Clipped(s) + 132)
        /\ MuReturned(s) = IF s < 0 THEN -MuMiddle(k, d) ELSE MuMiddle(k, d)
        /\ MuMiddle(k, d) \in Nat /\ MuMiddle(k, d) <= 32124
  BY <1>0 DEF MuIn
<1> DEFINE r == MuReturned(s)
<1>2. r \in Int /\ Clipped(r) = MuMiddle(k, d)
  <2>1. r = MuMiddle(k, d) \/ r = -MuMiddle(k, d)
    BY <1>1
  <2> HIDE DEF r
  <2> QED BY <1>1, <2>1, ClippedIs
<1>3. InCell(MuWidth[k + 1], d, Clipped(r) + 132)
  <2> DEFINE w == MuWidth[k + 1]
  <2>1. w \in Widths
    BY MuTable DEF Widths
  <2>4. MuMiddle(k, d) = (w * d + w \div 2) - 132
    BY Zenon DEF MuMiddle
  <2> HIDE DEF w, r
  <2>5. w * d + w \div 2 \in Int
    BY <2>1 DEF Widths
  <2> DEFINE z == w * d + w \div 2
  <2> HIDE DEF z
  <2>2. Clipped(r) + 132 = z
    BY <1>2, <2>4, <2>5 DEF z
  <2>3. InCell(w, d, w * d + w \div 2)
    BY <2>1 DEF InCell, Widths
  <2> QED BY <2>2, <2>3 DEF w, z
<1>4. MuReturned(r) = IF r < 0 THEN -MuMiddle(k, d) ELSE MuMiddle(k, d)
  <2> HIDE DEF r
  <2> QED BY <1>2, <1>3, MuReturns DEF MuReturned
<1>5. CASE s < 0
  <2>1. r = -MuMiddle(k, d)
    BY <1>1, <1>5
  <2> HIDE DEF r
  <2>2. CASE r < 0
    BY <1>4, <2>1, <2>2 DEF r
  <2>3. CASE ~(r < 0)
    <3>1. MuReturned(r) = MuMiddle(k, d)
      BY <1>4, <2>3
    <3>2. MuMiddle(k, d) = r
      <4> DEFINE z == MuMiddle(k, d)
      <4>1. r = -z /\ z \in Nat /\ ~(r < 0)
        BY <1>1, <2>1, <2>3
      <4> HIDE DEF z
      <4> QED BY <4>1 DEF z
    <3>4. MuReturned(r) = r
      BY <3>1, <3>2
    <3> QED BY <3>4 DEF r
  <2> QED BY <2>2, <2>3
<1>6. CASE ~(s < 0)
  <2>1. r = MuMiddle(k, d)
    BY <1>1, <1>6
  <2> HIDE DEF r
  <2>2. ~(r < 0)
    BY <1>1, <2>1
  <2> QED BY <1>4, <2>1, <2>2 DEF r
<1> QED BY <1>5, <1>6

-----------------------------------------------------------------------------
(* A-law *)

AWidth == <<2, 2, 4, 8, 16, 32, 64, 128>>

\* The segments' widths and ends, as the encoder and the decoder have them.
LEMMA AWidths ==
  ASSUME NEW k \in 0 .. 7
  PROVE  /\ AWidth[k + 1] \in {2, 4, 8, 16, 32, 64, 128} /\ AWidth[k + 1] \in Widths
         /\ AWidth[k + 1] = IF k < 2 THEN 2 ELSE Pow2(k)
         /\ k > 0 => AWidth[k + 1] = 2 * Pow2(k - 1) /\ Pow2(k - 1) \in {1, 2, 4, 8, 16, 32, 64}
         /\ AEnds[k + 1] = IF k = 0 THEN 31 ELSE 32 * AWidth[k + 1] - 1
         /\ \A i \in 0 .. 7 : i < k => AEnds[i + 1] < 16 * AWidth[k + 1]
         /\ AWidth[k + 1] # 2 => k > 0
<1> USE DEF AWidth, AEnds, Widths
<1>1. /\ Pow2(0) = 1 /\ Pow2(1) = 2 /\ Pow2(2) = 4 /\ Pow2(3) = 8 /\ Pow2(4) = 16
      /\ Pow2(5) = 32 /\ Pow2(6) = 64 /\ Pow2(7) = 128
  BY DEF Pow2
<1>2. CASE k = 0 BY <1>1, <1>2
<1>3. CASE k = 1 BY <1>1, <1>3
<1>4. CASE k = 2 BY <1>1, <1>4
<1>5. CASE k = 3 BY <1>1, <1>5
<1>6. CASE k = 4 BY <1>1, <1>6
<1>7. CASE k = 5 BY <1>1, <1>7
<1>8. CASE k = 6 BY <1>1, <1>8
<1>9. CASE k = 7 BY <1>1, <1>9
<1> HIDE DEF AWidth, AEnds, Widths
<1> QED BY <1>2, <1>3, <1>4, <1>5, <1>6, <1>7, <1>8, <1>9

\* The cells of segment k.
ACells(k) == IF k = 0 THEN 0 .. 15 ELSE 16 .. 31

\* The segment and the four bits below it that the encoder finds for a cell.
LEMMA ACoded ==
  ASSUME NEW k \in 0 .. 7, NEW d \in ACells(k), NEW w, w = AWidth[k + 1],
         NEW mag, InCell(w, d, mag)
  PROVE  /\ Segment(mag, AEnds) = k
         /\ (mag \div (IF k < 2 THEN 2 ELSE 2^k)) % 16 = d % 16
<1>0. d \in 0 .. 31 /\ (k = 0 => d <= 15) /\ (k # 0 => d >= 16)
  BY DEF ACells
<1>1. w \in {2, 4, 8, 16, 32, 64, 128} /\ w \in Widths
  BY AWidths
<1>2. mag \div w = d /\ mag \in Int /\ mag < w * (d + 1) /\ (d >= 16 => 16 * w <= mag)
  BY <1>0, <1>1 DEF InCell
<1>3. mag <= 32 * w - 1 /\ (k = 0 => mag <= 31)
  <2>1. k = 0 => w = 2
    BY AWidths
  <2> QED BY <1>0, <1>1, <1>2, <2>1
<1>4. \A i \in 0 .. 7 : AEnds[i + 1] \in Int
  BY DEF AEnds
<1>5. mag <= AEnds[k + 1] /\ \A i \in 0 .. 7 : i < k => AEnds[i + 1] < mag
  <2>1. CASE k = 0
    BY <1>2, <1>3, <2>1, AWidths
  <2>2. CASE k # 0
    BY <1>0, <1>1, <1>2, <1>3, <1>4, <2>2, AWidths
  <2> QED BY <2>1, <2>2
<1>6. Segment(mag, AEnds) = k
  BY <1>2, <1>4, <1>5, SegmentIs
<1>7. w = IF k < 2 THEN 2 ELSE Pow2(k)
  BY AWidths
<1>8. (mag \div (IF k < 2 THEN 2 ELSE Pow2(k))) % 16 = d % 16
  BY <1>2, <1>7
<1> QED BY <1>6, <1>8 DEF Pow2

AAt(mag, k, d) == d \in ACells(k) /\ InCell(AWidth[k + 1], d, mag)

\* Every magnitude of twelve bits is in a cell.
LEMMA ACellOf ==
  ASSUME NEW mag \in Int, 0 <= mag, mag <= 4095
  PROVE  \E k \in 0 .. 7, d \in 0 .. 31 : AAt(mag, k, d)
<1>1. CASE mag <= 31
  <2>1. mag \div 2 \in 0 .. 15 /\ InCell(2, mag \div 2, mag)
    BY <1>1 DEF InCell
  <2>2. AWidth[0 + 1] = 2 /\ mag \div 2 \in ACells(0)
    BY <2>1 DEF AWidth, ACells
  <2> QED BY <2>1, <2>2 DEF AAt
<1>2. CASE 32 <= mag
  <2>1. PICK w \in {2, 4, 8, 16, 32, 64, 128} : 16 * w <= mag /\ mag <= 32 * w - 1
    BY <1>2
  <2>2. mag \div w \in 16 .. 31 /\ InCell(w, mag \div w, mag)
    BY <2>1 DEF InCell
  <2>3. PICK k \in 1 .. 7 : w = AWidth[k + 1]
    BY DEF AWidth
  <2>4. mag \div w \in ACells(k)
    BY <2>2 DEF ACells
  <2> QED BY <2>2, <2>3, <2>4 DEF AAt
<1> QED BY <1>1, <1>2

\* A byte with its even bits toggled twice is the byte.
LEMMA ToggleTwice ==
  ASSUME NEW byte \in 0 .. 255
  PROVE  /\ ToggleEvenBits(byte) \in Code
         /\ ToggleEvenBits(ToggleEvenBits(byte)) = byte
<1> DEFINE flip(n) == (IF n % 2 = 0 THEN n + 1 ELSE n - 1)
           half(n) == IF (n \div 4) % 2 = 0 THEN flip(n) + 4 ELSE flip(n) - 4
<1>1. \A n \in 0 .. 15 : half(n) \in 0 .. 15 /\ half(half(n)) = n
  OBVIOUS
<1>2. \A h \in 0 .. 15, l \in 0 .. 15 : ToggleEvenBits(16 * h + l) = 16 * half(h) + half(l)
  <2> SUFFICES ASSUME NEW h \in 0 .. 15, NEW l \in 0 .. 15
               PROVE  ToggleEvenBits(16 * h + l) = 16 * half(h) + half(l)
    OBVIOUS
  <2> DEFINE b == 16 * h + l
  <2>1. /\ (b \div 1) % 2 = l % 2 /\ (b \div 4) % 2 = (l \div 4) % 2
        /\ (b \div 16) % 2 = h % 2 /\ (b \div 64) % 2 = (h \div 4) % 2
    <3>1. (b \div 1) % 2 = l % 2
      OBVIOUS
    <3>2. (b \div 4) % 2 = (l \div 4) % 2
      BY SMTT(30)
    <3>3. b \div 16 = h
      OBVIOUS
    <3>4. b \div 64 = h \div 4
      BY SMTT(30)
    <3> HIDE DEF b
    <3> QED BY <3>1, <3>2, <3>3, <3>4
  <2> HIDE DEF b
  <2>2. ToggleEvenBits(b) =
          b + (IF l % 2 = 0 THEN 1 ELSE -1) + (IF (l \div 4) % 2 = 0 THEN 4 ELSE -4)
            + (IF h % 2 = 0 THEN 16 ELSE -16) + (IF (h \div 4) % 2 = 0 THEN 64 ELSE -64)
    BY <2>1 DEF ToggleEvenBits
  <2>3. b = 16 * h + l
    BY DEF b
  <2> QED BY <2>2, <2>3 DEF b
<1> HIDE DEF half
<1>3. byte \div 16 \in 0 .. 15 /\ byte % 16 \in 0 .. 15 /\ byte = 16 * (byte \div 16) + (byte % 16)
  OBVIOUS
<1> DEFINE h == byte \div 16
           l == byte % 16
<1> HIDE DEF h, l
<1>4. ToggleEvenBits(byte) = 16 * half(h) + half(l)
  BY <1>2, <1>3 DEF h, l
<1>5. ToggleEvenBits(16 * half(h) + half(l)) = 16 * h + l
  <2>1. /\ half(h) \in 0 .. 15 /\ half(l) \in 0 .. 15
        /\ half(half(h)) = h /\ half(half(l)) = l
    BY <1>1, <1>3 DEF h, l
  <2> DEFINE a == half(h)
             b == half(l)
  <2>2. a \in 0 .. 15 /\ b \in 0 .. 15 /\ half(a) = h /\ half(b) = l
    BY <2>1
  <2> HIDE DEF a, b
  <2>3. ToggleEvenBits(16 * a + b) = 16 * h + l
    BY <1>2, <2>2
  <2> QED BY <2>3 DEF a, b
<1> QED BY <1>1, <1>3, <1>4, <1>5 DEF h, l, Code

AMag(s) == IF s \div 8 >= 0 THEN s \div 8 ELSE -(s \div 8) - 1

\* The magnitude is an eighth of the sample's, rounded towards the next code.
LEMMA AMagIs ==
  ASSUME NEW s \in Sample
  PROVE  /\ AMag(s) \in Nat /\ AMag(s) <= 4095
         /\ s \div 8 >= 0 <=> s >= 0
         /\ s >= 0 => 8 * AMag(s) <= s /\ s <= 8 * AMag(s) + 7
         /\ s < 0 => 8 * AMag(s) + 1 <= -s /\ -s <= 8 * AMag(s) + 8
<1>0. s \in Int /\ 0 <= s + 32768 /\ s <= 32767
  BY SampleIs
<1> DEFINE p == s \div 8
<1>1. p \in Int /\ 8 * p <= s /\ s <= 8 * p + 7
  BY <1>0
<1> HIDE DEF p
<1>2. CASE p >= 0
  <2>1. AMag(s) = p
    BY <1>2 DEF AMag, p
  <2> QED BY <1>0, <1>1, <1>2, <2>1 DEF p
<1>3. CASE ~(p >= 0)
  <2>1. AMag(s) = -p - 1
    BY <1>3 DEF AMag, p
  <2> QED BY <1>0, <1>1, <1>3, <2>1 DEF p
<1> QED BY <1>2, <1>3

AMiddle(k, d) == AWidth[k + 1] * d + AWidth[k + 1] \div 2

\* What the code of a cell is decoded to.
LEMMA ADecoded ==
  ASSUME NEW k \in 0 .. 7, NEW d \in ACells(k), NEW plus \in BOOLEAN,
         NEW x, x = IF plus THEN 128 + (16 * k + (d % 16)) ELSE 16 * k + (d % 16)
  PROVE  DecodeALaw(ToggleEvenBits(x)) = IF plus THEN 8 * AMiddle(k, d) ELSE -(8 * AMiddle(k, d))
<1>0. d \in 0 .. 31 /\ (k = 0 => d <= 15) /\ (k # 0 => d >= 16)
  BY DEF ACells
<1>1. /\ x \in 0 .. 255 /\ x % 16 = d % 16 /\ (x \div 16) % 8 = k
      /\ x >= 128 <=> plus
  BY <1>0
<1> DEFINE t   == 16 * (d % 16)
           mag == IF k = 0 THEN t + 8 ELSE IF k = 1 THEN t + 264 ELSE (t + 264) * 2^(k - 1)
<1>2. DecodeALaw(ToggleEvenBits(x)) = IF x >= 128 THEN mag ELSE -mag
  <2>1. ToggleEvenBits(ToggleEvenBits(x)) = x
    BY <1>1, ToggleTwice
  <2> QED BY <1>1, <2>1 DEF DecodeALaw
<1>3. mag = IF k = 0 THEN t + 8 ELSE IF k = 1 THEN t + 264 ELSE (t + 264) * Pow2(k - 1)
  BY DEF Pow2
<1> DEFINE w == AWidth[k + 1]
<1>4. mag = 8 * (w * d + w \div 2)
  <2> HIDE DEF mag
  <2>1. CASE k = 0
    <3>1. w = 2 /\ d % 16 = d
      BY <1>0, <2>1, AWidths
    <3> QED BY <1>0, <1>3, <2>1, <3>1
  <2>2. CASE k # 0
    <3>1. d % 16 = d - 16 /\ d \in 16 .. 31
      BY <1>0, <2>2
    <3>2. w = 2 * Pow2(k - 1) /\ Pow2(k - 1) \in {1, 2, 4, 8, 16, 32, 64}
      BY <2>2, AWidths
    <3>3. mag = (t + 264) * Pow2(k - 1)
      <4>1. CASE k = 1
        <5>1. Pow2(k - 1) = 1
          BY <4>1 DEF Pow2
        <5> QED BY <1>3, <2>2, <3>1, <4>1, <5>1
      <4>2. CASE k # 1
        BY <1>3, <2>2, <4>2
      <4> QED BY <4>1, <4>2
    <3>4. ASSUME NEW p \in {1, 2, 4, 8, 16, 32, 64}
          PROVE  (16 * (d - 16) + 264) * p = 8 * ((2 * p) * d + (2 * p) \div 2)
      BY <3>1
    <3> QED BY <3>1, <3>2, <3>3, <3>4
  <2> QED BY <2>1, <2>2
<1>5. mag = 8 * AMiddle(k, d)
  BY <1>4 DEF AMiddle
<1> HIDE DEF mag
<1> QED BY <1>1, <1>2, <1>5

AReturned(s) == DecodeALaw(EncodeALaw(s))

AIn(s, k, d) ==
  /\ k \in 0 .. 7 /\ d \in ACells(k) /\ d \in 0 .. 31 /\ InCell(AWidth[k + 1], d, AMag(s))
  /\ AReturned(s) = IF s >= 0 THEN 8 * AMiddle(k, d) ELSE -(8 * AMiddle(k, d))
  /\ AMiddle(k, d) \in Nat \ {0} /\ AMiddle(k, d) <= 4032

\* Each sample comes back as the middle of the cell it is in.
LEMMA AReturns ==
  ASSUME NEW s \in Sample, NEW k \in 0 .. 7, NEW d \in ACells(k),
         InCell(AWidth[k + 1], d, AMag(s))
  PROVE  AIn(s, k, d)
<1>0. d \in 0 .. 31 /\ (k = 0 => d <= 15) /\ (k # 0 => d >= 16)
  BY DEF ACells
<1> DEFINE mag == AMag(s)
           plus == s \div 8 >= 0
           c   == (mag \div (IF k < 2 THEN 2 ELSE 2^k)) % 16
<1>1. EncodeALaw(s) =
        LET segment == Segment(mag, AEnds)
            code == IF segment = 8 THEN 127
                    ELSE 16 * segment + ((mag \div (IF segment < 2 THEN 2 ELSE 2^segment)) % 16)
        IN  ToggleEvenBits(IF plus THEN 128 + code ELSE code)
  BY DEF EncodeALaw, AMag
<1>2. InCell(AWidth[k + 1], d, mag)
  OBVIOUS
<1> HIDE DEF mag
<1>3. Segment(mag, AEnds) = k /\ c = d % 16
  BY <1>2, ACoded
<1>4. EncodeALaw(s) = ToggleEvenBits(IF plus THEN 128 + (16 * k + c) ELSE 16 * k + c)
  <2>1. EncodeALaw(s) = ToggleEvenBits(IF plus THEN 128 + (IF k = 8 THEN 127 ELSE 16 * k + c)
                                       ELSE IF k = 8 THEN 127 ELSE 16 * k + c)
    BY <1>1, <1>3
  <2>2. k # 8
    OBVIOUS
  <2> QED BY <2>1, <2>2
<1> HIDE DEF c
<1>5. plus \in BOOLEAN /\ (plus <=> s >= 0)
  BY AMagIs
<1> HIDE DEF plus
<1>6. AReturned(s) = IF plus THEN 8 * AMiddle(k, d) ELSE -(8 * AMiddle(k, d))
  <2> DEFINE x == IF plus THEN 128 + (16 * k + (d % 16)) ELSE 16 * k + (d % 16)
  <2>1. EncodeALaw(s) = ToggleEvenBits(x)
    BY <1>3, <1>4
  <2>2. DecodeALaw(ToggleEvenBits(x)) = IF plus THEN 8 * AMiddle(k, d) ELSE -(8 * AMiddle(k, d))
    BY <1>5, ADecoded
  <2> QED BY <2>1, <2>2 DEF AReturned
<1>7. AMiddle(k, d) \in Nat \ {0} /\ AMiddle(k, d) <= 4032
  <2> DEFINE w == AWidth[k + 1]
  <2>1. w \in {2, 4, 8, 16, 32, 64, 128}
    BY AWidths
  <2>2. AMiddle(k, d) = w * d + w \div 2
    BY Zenon DEF AMiddle
  <2> HIDE DEF w
  <2>3. w * d + w \div 2 \in Nat \ {0} /\ w * d + w \div 2 <= 4032
    BY <1>0, <2>1
  <2> QED BY <2>2, <2>3
<1>8. AReturned(s) = IF s >= 0 THEN 8 * AMiddle(k, d) ELSE -(8 * AMiddle(k, d))
  BY <1>5, <1>6
<1> QED BY <1>0, <1>2, <1>7, <1>8 DEF AIn, mag

LEMMA ACell ==
  ASSUME NEW s \in Sample
  PROVE  \E k, d : AIn(s, k, d)
<1> DEFINE mag == AMag(s)
<1>1. mag \in Int /\ 0 <= mag /\ mag <= 4095
  BY AMagIs
<1> HIDE DEF mag
<1>2. PICK k \in 0 .. 7, d \in 0 .. 31 : AAt(mag, k, d)
  BY <1>1, ACellOf
<1>3. d \in ACells(k) /\ InCell(AWidth[k + 1], d, AMag(s))
  BY <1>2 DEF mag, AAt
<1> QED BY <1>2, <1>3, AReturns

LEMMA ABounds ==
  ASSUME NEW s, NEW k, NEW d, AIn(s, k, d)
  PROVE  \E w \in Widths :
           /\ w = AWidth[k + 1] /\ AMiddle(k, d) = w * d + w \div 2 /\ d \in 0 .. 31
           /\ InCell(w, d, AMag(s)) /\ (w # 2 => d >= 16) /\ (d < 16 => w = 2)
<1> DEFINE w == AWidth[k + 1]
<1>0. k \in 0 .. 7 /\ d \in ACells(k) /\ d \in 0 .. 31 /\ InCell(w, d, AMag(s))
  BY DEF AIn
<1>1. w \in Widths /\ (w # 2 => k > 0) /\ (k = 0 => w = 2)
  BY <1>0, AWidths
<1>2. AMiddle(k, d) = w * d + w \div 2
  BY Zenon DEF AMiddle
<1>3. k > 0 => d >= 16
  BY <1>0 DEF ACells
<1>4. d < 16 => k = 0
  BY <1>0 DEF ACells
<1> HIDE DEF w
<1>5. /\ w \in Widths /\ AMiddle(k, d) = w * d + w \div 2 /\ d \in 0 .. 31
      /\ InCell(w, d, AMag(s)) /\ (w # 2 => d >= 16) /\ (d < 16 => w = 2)
  BY <1>0, <1>1, <1>2, <1>3, <1>4
<1> QED BY <1>5 DEF w

\* A code of a sample is at most half a cell off.
LEMMA AClose ==
  ASSUME NEW s \in Sample
  PROVE  /\ AReturned(s) \in Sample
         /\ 32 * Magnitude(AReturned(s) - s) <= Magnitude(s) + 256
<1>1. s \in Int /\ 0 <= s + 32768 /\ s <= 32767
  BY SampleIs
<1>2. PICK k, d : AIn(s, k, d)
  BY ACell
<1>3. PICK w \in Widths :
        /\ w = AWidth[k + 1] /\ AMiddle(k, d) = w * d + w \div 2 /\ d \in 0 .. 31
        /\ InCell(w, d, AMag(s)) /\ (w # 2 => d >= 16) /\ (d < 16 => w = 2)
  BY <1>2, ABounds
<1> DEFINE r == AReturned(s)
           y == AMiddle(k, d)
           m == AMag(s)
           h == w \div 2
<1>4. /\ y \in Nat \ {0} /\ y <= 4032
      /\ s >= 0 => r = 8 * y
      /\ s < 0 => r = -(8 * y)
  <2>1. CASE s >= 0
    BY <1>1, <1>2, <2>1 DEF AIn
  <2>2. CASE ~(s >= 0)
    BY <1>1, <1>2, <2>2 DEF AIn
  <2> QED BY <1>1, <2>1, <2>2
<1>5. /\ y - m <= h /\ m - y < h /\ (d >= 16 => 16 * w <= m)
  BY <1>3, CellBounds
<1>6. /\ m \in Nat /\ m <= 4095
      /\ s >= 0 => 8 * m <= s /\ s <= 8 * m + 7
      /\ s < 0 => 8 * m + 1 <= -s /\ -s <= 8 * m + 8
  BY AMagIs
<1>7. h \in Nat /\ 2 * h = w /\ (w = 2 => h = 1)
  BY DEF Widths
<1> HIDE DEF r, y, m, h
<1>8. r \in Int /\ 0 <= r + 32768 /\ r <= 32767
  BY <1>1, <1>4
<1>9. r - s <= 4 * (2 * h) /\ s - r <= 4 * (2 * h)
  BY <1>1, <1>4, <1>5, <1>6, <1>7
<1>10. Magnitude(r - s) \in Nat /\ Magnitude(r - s) <= 8 * h /\ Magnitude(s) \in Nat
       /\ 8 * m <= Magnitude(s)
  <2>1. 8 * m <= Magnitude(s)
    BY <1>1, <1>6, Magnitudes
  <2> QED BY <1>1, <1>7, <1>8, <1>9, <2>1, Magnitudes
<1>11. 256 * h <= 8 * m + 256
  <2>1. CASE d >= 16
    BY <1>5, <1>6, <1>7, <2>1
  <2>2. CASE d < 16
    BY <1>3, <1>6, <1>7, <2>2
  <2> QED BY <1>3, <2>1, <2>2
<1>12. 32 * Magnitude(r - s) <= Magnitude(s) + 256
  BY <1>6, <1>7, <1>10, <1>11
<1> QED BY <1>8, <1>12, SampleIs DEF r

\* A louder sample never comes back as a quieter one.
LEMMA AGrows ==
  ASSUME NEW s \in Sample, NEW t \in Sample, s <= t
  PROVE  AReturned(s) <= AReturned(t)
<1>1. s \in Int /\ t \in Int
  BY SampleIs
<1>2. PICK k, d : AIn(s, k, d)
  BY ACell
<1>3. PICK l, e : AIn(t, l, e)
  BY ACell
<1>4. PICK w \in Widths :
        /\ w = AWidth[k + 1] /\ AMiddle(k, d) = w * d + w \div 2 /\ d \in 0 .. 31
        /\ InCell(w, d, AMag(s)) /\ (w # 2 => d >= 16) /\ (d < 16 => w = 2)
  BY <1>2, ABounds
<1>5. PICK v \in Widths :
        /\ v = AWidth[l + 1] /\ AMiddle(l, e) = v * e + v \div 2 /\ e \in 0 .. 31
        /\ InCell(v, e, AMag(t)) /\ (v # 2 => e >= 16) /\ (e < 16 => v = 2)
  BY <1>3, ABounds
<1> DEFINE x == AMiddle(k, d)
           y == AMiddle(l, e)
           m == AMag(s)
           n == AMag(t)
           r == AReturned(s)
           q == AReturned(t)
<1>6. x \in Nat /\ (s >= 0 => r = 8 * x) /\ (s < 0 => r = -(8 * x))
  <2>1. CASE s >= 0
    BY <1>1, <1>2, <2>1 DEF AIn
  <2>2. CASE ~(s >= 0)
    BY <1>1, <1>2, <2>2 DEF AIn
  <2> QED BY <1>1, <2>1, <2>2
<1>7. y \in Nat /\ (t >= 0 => q = 8 * y) /\ (t < 0 => q = -(8 * y))
  <2>1. CASE t >= 0
    BY <1>1, <1>3, <2>1 DEF AIn
  <2>2. CASE ~(t >= 0)
    BY <1>1, <1>3, <2>2 DEF AIn
  <2> QED BY <1>1, <2>1, <2>2
<1>18. /\ x = w * d + w \div 2 /\ d \in 0 .. 31 /\ InCell(w, d, m) /\ (w # 2 => d >= 16)
       /\ y = v * e + v \div 2 /\ e \in 0 .. 31 /\ InCell(v, e, n) /\ (v # 2 => e >= 16)
  BY <1>4, <1>5
<1> HIDE DEF x, y, m, n
<1>8. m <= n => x <= y
  <2>1. m <= n => w * d + w \div 2 <= v * e + v \div 2
    BY <1>18, CellOrder
  <2> QED BY <1>18, <2>1
<1>9. n <= m => y <= x
  <2>1. n <= m => v * e + v \div 2 <= w * d + w \div 2
    BY <1>18, CellOrder
  <2> QED BY <1>18, <2>1
<1> USE DEF m, n
<1>10. s >= 0 => 8 * m <= s /\ s <= 8 * m + 7
  BY AMagIs
<1>11. s < 0 => 8 * m + 1 <= -s /\ -s <= 8 * m + 8
  BY AMagIs
<1>12. t >= 0 => 8 * n <= t /\ t <= 8 * n + 7
  BY AMagIs
<1>13. t < 0 => 8 * n + 1 <= -t /\ -t <= 8 * n + 8
  BY AMagIs
<1>14. m \in Nat /\ n \in Nat
  BY AMagIs
<1> HIDE DEF x, y, m, n, r, q
<1>15. CASE s >= 0
  BY <1>1, <1>6, <1>7, <1>8, <1>10, <1>12, <1>14, <1>15 DEF r, q
<1>16. CASE s < 0 /\ t >= 0
  <2>1. r <= q
    BY <1>6, <1>7, <1>16
  <2> QED BY <2>1 DEF r, q
<1>17. CASE t < 0
  <2>1. s < 0 /\ n <= m
    BY <1>1, <1>11, <1>13, <1>14, <1>17
  <2>2. r <= q
    BY <1>6, <1>7, <1>9, <1>17, <2>1
  <2> QED BY <2>2 DEF r, q
<1> QED BY <1>1, <1>15, <1>16, <1>17

\* The middle of a cell is in the cell, on either side of zero.
LEMMA AStays ==
  ASSUME NEW s \in Sample
  PROVE  AReturned(AReturned(s)) = AReturned(s)
<1>1. s \in Int
  BY SampleIs
<1>2. PICK k, d : AIn(s, k, d)
  BY ACell
<1>3. PICK w \in Widths :
        /\ w = AWidth[k + 1] /\ AMiddle(k, d) = w * d + w \div 2 /\ d \in 0 .. 31
        /\ InCell(w, d, AMag(s)) /\ (w # 2 => d >= 16) /\ (d < 16 => w = 2)
  BY <1>2, ABounds
<1> DEFINE r == AReturned(s)
           y == AMiddle(k, d)
           m == AMag(r)
<1>4. /\ k \in 0 .. 7 /\ d \in ACells(k)
      /\ y \in Nat \ {0}
      /\ s >= 0 => r = 8 * y
      /\ s < 0 => r = -(8 * y)
  <2>1. CASE s >= 0
    BY <1>1, <1>2, <2>1 DEF AIn
  <2>2. CASE ~(s >= 0)
    BY <1>1, <1>2, <2>2 DEF AIn
  <2> QED BY <1>1, <2>1, <2>2
<1>5. r \in Sample
  BY AClose
<1> HIDE DEF r
<1>6. /\ m \in Nat
      /\ r >= 0 => 8 * m <= r /\ r <= 8 * m + 7
      /\ r < 0 => 8 * m + 1 <= -r /\ -r <= 8 * m + 8
  BY <1>5, AMagIs
<1>7. y = w * d + w \div 2
  BY <1>3
<1> HIDE DEF y, m
<1>8. /\ s >= 0 <=> r >= 0
      /\ m = y \/ m = y - 1
  BY <1>1, <1>4, <1>6
<1>9. InCell(w, d, m)
  <2>1. InCell(w, d, w * d + w \div 2) /\ InCell(w, d, (w * d + w \div 2) - 1)
    BY <1>3 DEF InCell, Widths
  <2> QED BY <1>7, <1>8, <2>1
<1>10. AIn(r, k, d)
  BY <1>3, <1>4, <1>5, <1>9, AReturns DEF m
<1>11. AReturned(r) = IF r >= 0 THEN 8 * y ELSE -(8 * y)
  BY <1>10 DEF AIn, y
<1>12. AReturned(r) = r
  <2>1. CASE s >= 0
    BY <1>4, <1>8, <1>11, <2>1
  <2>2. CASE ~(s >= 0)
    BY <1>1, <1>4, <1>8, <1>11, <2>2
  <2> QED BY <2>1, <2>2
<1> QED BY <1>12 DEF r
-----------------------------------------------------------------------------
(* Both laws, and whole frames *)

Returned(law, s) == IF law = "A" THEN AReturned(s) ELSE MuReturned(s)

\* Either law gives back each sample at most one part in 32 off, in the order of the
\* samples, and what it gave back it gives back unchanged.
THEOREM CodecFaithful ==
  ASSUME NEW law, NEW s \in Sample
  PROVE  /\ Returned(law, s) \in Sample
         /\ 32 * Magnitude(Returned(law, s) - s) <= Magnitude(s) + 256
         /\ Returned(law, Returned(law, s)) = Returned(law, s)
         /\ \A t \in Sample : s <= t => Returned(law, s) <= Returned(law, t)
<1>1. CASE law = "A"
  <2>1. \A t : Returned(law, t) = AReturned(t)
    BY <1>1 DEF Returned
  <2>2. \A t \in Sample : s <= t => AReturned(s) <= AReturned(t)
    BY AGrows
  <2>3. AReturned(s) \in Sample /\ 32 * Magnitude(AReturned(s) - s) <= Magnitude(s) + 256
    BY AClose
  <2>4. AReturned(AReturned(s)) = AReturned(s)
    BY AStays
  <2> QED BY <2>1, <2>2, <2>3, <2>4
<1>2. CASE law # "A"
  <2>0. s \in Int
    BY SampleIs
  <2>1. \A t : Returned(law, t) = MuReturned(t)
    BY <1>2 DEF Returned
  <2>2. \A t \in Sample : s <= t => MuReturned(s) <= MuReturned(t)
    BY <2>0, MuGrows, SampleIs
  <2>3. MuReturned(s) \in Sample /\ 32 * Magnitude(MuReturned(s) - s) <= Magnitude(s) + 256
    BY MuClose
  <2>4. MuReturned(MuReturned(s)) = MuReturned(s)
    BY <2>0, MuStays
  <2> QED BY <2>1, <2>2, <2>3, <2>4
<1> QED BY <1>1, <1>2

\* A frame is encoded and decoded sample by sample.
LEMMA FrameReturned ==
  ASSUME NEW law, NEW x, NEW y
  PROVE  Decode(law, Encode(law, <<x, y>>)) = <<Returned(law, x), Returned(law, y)>>
<1> DEFINE f == <<x, y>>
           e == Encode(law, f)
           d == Decode(law, e)
<1>1. DOMAIN f = 1 .. 2 /\ f[1] = x /\ f[2] = y
  OBVIOUS
<1> HIDE DEF f
<1>2. e = [i \in 1 .. 2 |-> IF law = "A" THEN EncodeALaw(f[i]) ELSE EncodeMuLaw(f[i])]
  BY <1>1 DEF Encode
<1> HIDE DEF e
<1>3. DOMAIN e = 1 .. 2
  BY <1>2
<1>4. d = [i \in 1 .. 2 |-> IF law = "A" THEN DecodeALaw(e[i]) ELSE DecodeMuLaw(e[i])]
  BY <1>3 DEF Decode
<1> HIDE DEF d
<1>5. d[1] = Returned(law, x) /\ d[2] = Returned(law, y)
  <2>1. CASE law = "A"
    <3>1. d[1] = DecodeALaw(e[1]) /\ d[2] = DecodeALaw(e[2])
      BY <1>4, <2>1
    <3>2. e[1] = EncodeALaw(x) /\ e[2] = EncodeALaw(y)
      BY <1>1, <1>2, <2>1
    <3> QED BY <2>1, <3>1, <3>2 DEF Returned, AReturned
  <2>2. CASE law # "A"
    <3>1. d[1] = DecodeMuLaw(e[1]) /\ d[2] = DecodeMuLaw(e[2])
      BY <1>4, <2>2
    <3>2. e[1] = EncodeMuLaw(x) /\ e[2] = EncodeMuLaw(y)
      BY <1>1, <1>2, <2>2
    <3> QED BY <2>2, <3>1, <3>2 DEF Returned, MuReturned
  <2> QED BY <2>1, <2>2
<1>6. d = <<d[1], d[2]>>
  <2> DEFINE g == [i \in 1 .. 2 |-> IF law = "A" THEN DecodeALaw(e[i]) ELSE DecodeMuLaw(e[i])]
  <2>1. g = <<g[1], g[2]>>
    OBVIOUS
  <2> QED BY <1>4, <2>1
<1> QED BY <1>5, <1>6 DEF d, e, f

\* The frame at twice the rate has its samples in their places, and between two of
\* them their midpoint.
LEMMA Upsampled ==
  ASSUME NEW pcm \in Seq(Int)
  PROVE  /\ Len(Upsample(pcm)) = 2 * Len(pcm)
         /\ \A i \in 1 .. Len(pcm) : Upsample(pcm)[2 * i - 1] = pcm[i]
         /\ \A i \in 1 .. Len(pcm) - 1 :
              Magnitude(2 * Upsample(pcm)[2 * i] - pcm[i] - pcm[i + 1]) <= 1
<1> DEFINE n == Len(pcm)
           follow(i) == IF i < Len(pcm) THEN pcm[i + 1] ELSE pcm[i]
           at(k) == LET i == (k + 1) \div 2
                    IN  IF k % 2 = 1 THEN pcm[i] ELSE Halved(pcm[i] + follow(i))
           up == Upsample(pcm)
<1>1. up = [k \in 1 .. 2 * n |-> at(k)]
  BY DEF Upsample
<1>2. \A s \in Int : Halved(s) \in Int /\ 2 * Halved(s) - s \in {-1, 0, 1}
  <2> TAKE s \in Int
  <2>1. CASE s < 0
    <3>1. Halved(s) = -((-s) \div 2)
      BY <2>1 DEF Halved
    <3>2. (-s) \div 2 \in Int /\ 2 * ((-s) \div 2) + s \in {-1, 0}
      OBVIOUS
    <3> QED BY <3>1, <3>2
  <2>2. CASE ~(s < 0)
    BY <2>2 DEF Halved
  <2> QED BY <2>1, <2>2
<1>3. n \in Nat /\ \A i \in 1 .. n : pcm[i] \in Int
  OBVIOUS
<1>4. \A k \in 1 .. 2 * n : (k + 1) \div 2 \in 1 .. n
  BY <1>3
<1>5. \A i \in 1 .. n : follow(i) \in Int
  BY <1>3
<1>6. \A i \in 1 .. n : at(2 * i - 1) = pcm[i]
  <2> TAKE i \in 1 .. n
  <2>1. ((2 * i - 1) + 1) \div 2 = i /\ (2 * i - 1) % 2 = 1
    OBVIOUS
  <2> QED BY <2>1
<1>7. \A i \in 1 .. n : at(2 * i) = Halved(pcm[i] + follow(i))
  <2> TAKE i \in 1 .. n
  <2>1. (2 * i + 1) \div 2 = i /\ (2 * i) % 2 # 1
    OBVIOUS
  <2> QED BY <2>1
<1>8. \A k \in 1 .. 2 * n : at(k) \in Int
  <2> TAKE k \in 1 .. 2 * n
  <2> DEFINE i == (k + 1) \div 2
  <2>1. i \in 1 .. n
    BY <1>4
  <2> HIDE DEF i
  <2> HIDE DEF follow, n
  <2>3. pcm[i] \in Int /\ follow(i) \in Int
    BY <1>3, <1>5, <2>1
  <2>4. pcm[i] + follow(i) \in Int
    BY <2>3
  <2>2. pcm[i] \in Int /\ Halved(pcm[i] + follow(i)) \in Int
    BY <1>2, <2>3, <2>4
  <2> QED BY <2>2 DEF i
<1>9. \A i \in 1 .. n - 1 : follow(i) = pcm[i + 1]
  BY <1>3
<1> HIDE DEF at, up, n, follow
<1>10. Len(up) = 2 * n
  <2>1. up \in Seq(Int)
    BY <1>1, <1>3, <1>8
  <2>2. DOMAIN up = 1 .. 2 * n
    BY <1>1
  <2> QED BY <1>3, <2>1, <2>2
<1>11. \A i \in 1 .. n : up[2 * i - 1] = pcm[i]
  BY <1>1, <1>3, <1>6
<1>12. \A i \in 1 .. n - 1 : Magnitude(2 * up[2 * i] - pcm[i] - pcm[i + 1]) <= 1
  <2> TAKE i \in 1 .. n - 1
  <2>1. i \in 1 .. n /\ i + 1 \in 1 .. n /\ 2 * i \in 1 .. 2 * n
    BY <1>3
  <2>2. up[2 * i] = Halved(pcm[i] + pcm[i + 1])
    BY <1>1, <1>7, <1>9, <2>1
  <2> DEFINE a == pcm[i]
             b == pcm[i + 1]
             h == Halved(a + b)
  <2>3. a \in Int /\ b \in Int
    BY <1>3, <2>1
  <2> HIDE DEF a, b
  <2>4. h \in Int /\ 2 * h - (a + b) \in {-1, 0, 1}
    BY <1>2, <2>3
  <2> HIDE DEF h
  <2>5. 2 * h - a - b \in Int /\ 2 * h - a - b <= 1 /\ -1 <= 2 * h - a - b
    BY <2>3, <2>4
  <2>6. Magnitude(2 * h - a - b) <= 1
    BY <2>5, Magnitudes
  <2> QED BY <2>2, <2>6 DEF a, b, h
<1> QED BY <1>10, <1>11, <1>12 DEF up, n

-----------------------------------------------------------------------------
(* What is spoken *)

\* The speech of a call is made of samples.
SpeechType == call.tone \in Int

\* A frame is two samples.
LEMMA FrameTyped ==
  ASSUME SpeechType, NEW i \in Int
  PROVE  \E x, y \in Sample : Frame(i) = <<x, y>>
<1>1. \A z \in Int : Wrapped(z) \in Sample
  <2> TAKE z \in Int
  <2> DEFINE r == (z + 32768) % 65536
  <2>1. r \in Int /\ 0 <= r /\ r <= 65535
    OBVIOUS
  <2>2. Wrapped(z) = r - 32768
    BY DEF Wrapped
  <2> HIDE DEF r
  <2>3. r - 32768 \in Int /\ 0 <= (r - 32768) + 32768 /\ r - 32768 <= 32767
    BY <2>1
  <2> QED BY <2>2, <2>3, SampleIs
<1> DEFINE s == Wrapped(call.tone + 1000 * (i - 1))
<1>2. s \in Sample
  BY <1>1 DEF SpeechType
<1>3. Frame(i) = <<s, Wrapped(s + 1)>>
  BY DEF Frame
<1> HIDE DEF s
<1>4. s + 1 \in Int
  BY <1>2, SampleIs
<1>5. Wrapped(s + 1) \in Sample
  BY <1>1, <1>4
<1> QED BY <1>2, <1>3, <1>5

\* What the stages of recvLoop make of a frame.
AsSpoken(law, spoken, pcm, doubled) ==
  /\ Len(pcm) = Len(spoken)
  /\ \A i \in 1 .. Len(pcm) :
       /\ 32 * Magnitude(pcm[i] - spoken[i]) <= Magnitude(spoken[i]) + 256
       /\ doubled[2 * i - 1] = pcm[i]
  /\ \A i, j \in 1 .. Len(pcm) : spoken[i] <= spoken[j] => pcm[i] <= pcm[j]
  /\ Decode(law, Encode(law, pcm)) = pcm
  /\ Len(doubled) = 2 * Len(pcm)
  /\ \A i \in 1 .. Len(pcm) - 1 :
       Magnitude(2 * doubled[2 * i] - pcm[i] - pcm[i + 1]) <= 1

LEMMA Pair ==
  ASSUME NEW a \in Int, NEW b \in Int
  PROVE  <<a, b>> \in Seq(Int) /\ Len(<<a, b>>) = 2 /\ <<a, b>>[1] = a /\ <<a, b>>[2] = b
OBVIOUS

\* What one frame of two samples becomes.
LEMMA FrameHeard ==
  ASSUME NEW law, NEW x \in Sample, NEW y \in Sample, NEW spoken, spoken = <<x, y>>,
         NEW pcm, pcm = Decode(law, Encode(law, spoken))
  PROVE  AsSpoken(law, spoken, pcm, Upsample(pcm))
<1> DEFINE a == Returned(law, x)
           b == Returned(law, y)
<1>1. pcm = <<a, b>>
  BY FrameReturned
<1>2. /\ a \in Sample /\ 32 * Magnitude(a - x) <= Magnitude(x) + 256
      /\ Returned(law, a) = a /\ \A t \in Sample : x <= t => a <= Returned(law, t)
  BY CodecFaithful
<1>3. /\ b \in Sample /\ 32 * Magnitude(b - y) <= Magnitude(y) + 256
      /\ Returned(law, b) = b /\ \A t \in Sample : y <= t => b <= Returned(law, t)
  BY CodecFaithful
<1>4. (x <= y => a <= b) /\ (y <= x => b <= a)
  BY <1>2, <1>3
<1>5. Decode(law, Encode(law, pcm)) = pcm
  BY <1>1, <1>2, <1>3, FrameReturned
<1> HIDE DEF a, b
<1>6. a \in Int /\ b \in Int /\ x \in Int /\ y \in Int
  BY <1>2, <1>3, SampleIs
<1>7. pcm \in Seq(Int) /\ Len(pcm) = 2 /\ pcm[1] = a /\ pcm[2] = b
  BY ONLY <1>1, <1>6, Pair
<1>8. spoken[1] = x /\ spoken[2] = y /\ Len(spoken) = 2
  BY ONLY <1>6, Pair, spoken = <<x, y>>
<1> DEFINE doubled == Upsample(pcm)
<1>9. /\ Len(doubled) = 2 * Len(pcm)
      /\ \A i \in 1 .. Len(pcm) : doubled[2 * i - 1] = pcm[i]
      /\ \A i \in 1 .. Len(pcm) - 1 :
           Magnitude(2 * doubled[2 * i] - pcm[i] - pcm[i + 1]) <= 1
  BY <1>7, Upsampled
<1> HIDE DEF doubled
<1>10. \A i \in 1 .. 2 : i = 1 \/ i = 2
  OBVIOUS
<1>11. \A i \in 1 .. 2 :
         32 * Magnitude(pcm[i] - spoken[i]) <= Magnitude(spoken[i]) + 256
  BY ONLY <1>2, <1>3, <1>7, <1>8, <1>10
<1>12. \A i, j \in 1 .. 2 : spoken[i] <= spoken[j] => pcm[i] <= pcm[j]
  <2>1. a <= a /\ b <= b
    BY <1>6
  <2> QED BY ONLY <1>4, <1>7, <1>8, <1>10, <2>1
<1> QED BY ONLY <1>5, <1>7, <1>8, <1>9, <1>11, <1>12 DEF AsSpoken, doubled

\* What recvLoop finds in a packet is what was spoken, as close as the codec is: for
\* every first sample, every frame and both laws.
THEOREM SpeechHeard ==
  ASSUME MaxTotal <= Half, MaxUpdates >= MaxTotal + MaxFaults
  PROVE  StreamSpec => []HeardAsSpoken
<1> DEFINE I == StreamInv /\ HeardMade /\ SpeechType
<1>1. StreamInit => I
  <2> SUFFICES ASSUME StreamInit PROVE HeardMade /\ SpeechType
    BY InitIInv, InitSInv, InitLinkInv DEF StreamInit, StreamInv
  <2>1. heard.at = NoIndex /\ call \in Calls
    BY DEF StreamInit
  <2>2. \A s \in Sample : s \in Int
    BY SampleIs
  <2>3. call.tone \in Sample
    BY <2>1, StreamAssumption DEF Calls
  <2> QED BY <2>1, <2>2, <2>3 DEF HeardMade, SpeechType
<1>2. I /\ [StreamNext]_streamVars => I'
  <2>1. [StreamNext]_streamVars => call' = call
    BY DEF StreamNext, Drop, SendAndRelease, Hold, Send, Flush, Iterate, Lose, Duplicate,
       Overtake, Fault, Ignore, Hear, Arrive, streamVars
  <2>2. SpeechType /\ call' = call => SpeechType'
    BY DEF SpeechType
  <2> QED BY <2>1, <2>2, StepStreamInv, StepHeardMade
<1>3. I => HeardAsSpoken
  <2> SUFFICES ASSUME I, heard.at # NoIndex, heard.at # call.key
               PROVE  HeardAsSpoken
    BY DEF HeardAsSpoken
  <2> DEFINE law == call.law
             spoken == Frame(heard.at)
             pcm == Decode(law, heard.pkt.payload)
  <2>1. heard.at \in 1 .. call.total /\ heard.pkt.payload = Sound(heard.at).payload
    BY MadeRead DEF StreamInv, LinkInv, HeardMade
  <2>2. heard.at \in Int
    BY <2>1, Quantities
  <2>3. heard.pkt.payload = Encode(law, Frame(heard.at))
    BY <2>1 DEF Sound, Packet
  <2>4. PICK x, y \in Sample : spoken = <<x, y>>
    BY <2>2, FrameTyped
  <2>5. pcm = Decode(law, Encode(law, spoken))
    BY <2>3
  <2> HIDE DEF law, spoken, pcm
  <2>6. AsSpoken(law, spoken, pcm, Upsample(pcm))
    BY <2>4, <2>5, FrameHeard
  <2> USE DEF law, spoken, pcm
  <2> QED BY <2>6 DEF AsSpoken, HeardAsSpoken
<1> QED BY <1>1, <1>2, <1>3, PTL DEF StreamSpec
=============================================================================
