------------------------- MODULE JitterBufferProofs -------------------------
(***************************************************************************)
(* The safety properties of JitterBuffer for every size of the sequence    *)
(* space, target depth, capacity and number of packets.                    *)
(***************************************************************************)
EXTENDS JitterBuffer, FiniteSetTheorems, WellFoundedInduction, TLAPS

\* Min picks the oldest queued packet.
LEMMA MinIsOldest ==
  ASSUME NEW S \in SUBSET Nat, S # {}
  PROVE  /\ Min(S) \in S
         /\ \A e \in S : Min(S) <= e
<1> DEFINE R == {ss \in Nat \X Nat : ss[1] < ss[2]}
<1>1. IsWellFoundedOn(R, Nat)
  BY NatLessThanWellFounded DEF OpToRel
<1>2. \E x \in S : \A y \in S : <<y, x>> \notin R
  <2> HIDE DEF R
  <2> QED
    BY <1>1, WFMin
<1>3. \E x \in S : \A y \in S : x =< y
  <2>1. PICK x \in S : \A y \in S : <<y, x>> \notin R
    BY <1>2
  <2>2. ASSUME NEW y \in S PROVE x =< y
    <3>1. x \in Nat /\ y \in Nat /\ <<y, x>> \notin R
      BY <2>1
    <3>2. ~(y < x)
      BY <3>1
    <3> QED
      BY <3>1, <3>2
  <2> QED
    BY <2>2
<1> QED
  BY <1>3 DEF Min

\* insert computes an integer slot.
LEMMA SlotType ==
  ASSUME TypeOK, NEW seq \in SeqNum
  PROVE  Slot(seq) \in Int /\ (~started => Slot(seq) \in Nat)
<1>1. seq \in Nat /\ SeqSpace \in Nat \ {0}
  BY HalfAssumption DEF SeqNum, SeqSpace
<1>2. highestExt \in Int => highestExt % SeqSpace \in Int
  BY <1>1
<1>3. highestExt \in Int => SeqExtend(seq, highestExt) \in Int
  BY <1>1, <1>2 DEF SeqExtend
<1> QED
  BY <1>1, <1>3 DEF Slot, TypeOK

\* The state an accepted packet finds.
LEMMA AcceptFacts ==
  ASSUME TypeOK, NothingStranded, NEW ext \in Int, ~started => ext \in Nat,
         ~TooLate(ext), ext \notin buf
  PROVE  LET queued == buf \union {ext}
         IN  /\ ext \in Nat
             /\ queued \subseteq Nat /\ IsFiniteSet(queued)
             /\ Min(queued) \in queued
             /\ \A e \in queued : /\ Min(queued) <= e
                                  /\ CursorAt(ext) <= e
                                  /\ e <= HighestAt(ext)
             /\ CursorAt(ext) \in Nat
             /\ HighestAt(ext) \in Nat
             /\ Cardinality(queued) = Cardinality(buf) + 1
<1> DEFINE queued == buf \union {ext}
<1>1. ext \in Nat /\ CursorAt(ext) \in Nat /\ CursorAt(ext) <= ext
  BY DEF TooLate, CursorAt, TypeOK
<1>2. /\ HighestAt(ext) \in Nat /\ ext <= HighestAt(ext)
      /\ started => highestExt <= HighestAt(ext)
  BY <1>1 DEF HighestAt, TypeOK
<1>3. queued \subseteq Nat /\ queued # {}
  BY <1>1 DEF TypeOK
<1>4. IsFiniteSet(queued) /\ Cardinality(queued) = Cardinality(buf) + 1
  BY FS_AddElement DEF TypeOK
<1>5. Min(queued) \in queued /\ \A e \in queued : Min(queued) <= e
  BY <1>3, MinIsOldest
<1>6. \A e \in buf : CursorAt(ext) <= e /\ e <= HighestAt(ext)
  BY <1>1, <1>2 DEF NothingStranded, CursorAt, TypeOK
<1> QED
  BY <1>1, <1>2, <1>3, <1>4, <1>5, <1>6

\* What accepting a packet does: it is queued and, past the cap, the oldest one
\* leaves and the cursor moves just behind it.
LEMMA AcceptEffect ==
  ASSUME TypeOK, NothingStranded, WithinCapacity,
         NEW ext \in Int, ~started => ext \in Nat, Accept(ext)
  PROVE  LET queued == buf \union {ext}
         IN  /\ IsFiniteSet(buf')
             /\ buf' \subseteq queued
             /\ \A e \in buf' : playoutExt' <= e
             /\ Cardinality(buf') <= Capacity
             /\ \/ /\ buf' = queued
                   /\ Cardinality(buf') = Cardinality(buf) + 1
                   /\ playoutExt' = CursorAt(ext)
                   /\ overflowDropped' = overflowDropped
                \/ /\ Cardinality(buf') = Cardinality(buf)
                   /\ \E o \in queued : playoutExt' = o + 1
                   /\ overflowDropped' = overflowDropped + 1
<1> DEFINE queued == buf \union {ext}
<1>1. ~TooLate(ext) /\ ext \notin buf
  BY DEF Accept
<1>2. /\ ext \in Nat
      /\ queued \subseteq Nat /\ IsFiniteSet(queued)
      /\ Min(queued) \in queued
      /\ \A e \in queued : /\ Min(queued) <= e
                           /\ CursorAt(ext) <= e
                           /\ e <= HighestAt(ext)
      /\ CursorAt(ext) \in Nat
      /\ HighestAt(ext) \in Nat
      /\ Cardinality(queued) = Cardinality(buf) + 1
  BY <1>1, AcceptFacts
<1>3. /\ buf' = KeptOf(queued)
      /\ playoutExt' = CursorPast(queued, ext)
      /\ overflowDropped' = IF KeptOf(queued) # queued
                              THEN overflowDropped + 1 ELSE overflowDropped
  BY DEF Accept
<1>4. /\ Cardinality(buf) \in Nat /\ Capacity \in Nat
      /\ Cardinality(buf) <= Capacity
  BY FS_CardinalityType, ConfigAssumption DEF TypeOK, WithinCapacity
<1> DEFINE oldest == Min(queued)
<1> HIDE DEF queued, oldest
<1>5. CASE Cardinality(queued) > Capacity
  <2>1. buf' = queued \ {oldest} /\ playoutExt' = oldest + 1
    BY <1>2, <1>3, <1>5 DEF KeptOf, CursorPast, oldest
  <2>2. /\ IsFiniteSet(queued \ {oldest})
        /\ Cardinality(queued \ {oldest}) = Cardinality(queued) - 1
    BY <1>2, FS_RemoveElement DEF oldest
  <2>3. overflowDropped' = overflowDropped + 1
    BY <1>2, <1>3, <2>1 DEF oldest
  <2>4. \A e \in queued \ {oldest} : oldest + 1 <= e
    <3>1. oldest \in queued /\ oldest \in Nat
      BY <1>2 DEF oldest
    <3>2. ASSUME NEW e \in queued \ {oldest}
          PROVE  oldest + 1 <= e
      <4>1. e \in Nat /\ oldest <= e /\ e # oldest
        BY <1>2 DEF oldest
      <4> QED
        BY <3>1, <4>1
    <3> QED
      BY <3>2
  <2>5. \E o \in queued : playoutExt' = o + 1
    BY <1>2, <2>1 DEF oldest
  <2>6. /\ Cardinality(buf') = Cardinality(buf)
        /\ Cardinality(buf') <= Capacity
    BY <1>2, <1>4, <2>1, <2>2
  <2> QED
    BY <2>1, <2>2, <2>3, <2>4, <2>5, <2>6 DEF queued
<1>6. CASE ~(Cardinality(queued) > Capacity)
  <2>1. /\ buf' = queued /\ playoutExt' = CursorAt(ext)
        /\ overflowDropped' = overflowDropped
    BY <1>3, <1>6 DEF KeptOf, CursorPast
  <2>2. Cardinality(buf') <= Capacity
    BY <1>2, <1>4, <1>6, <2>1
  <2> QED
    BY <1>2, <2>1, <2>2 DEF queued
<1> QED
  BY <1>5, <1>6

-----------------------------------------------------------------------------
\* A stream that has not started has not moved its cursor.
Fresh == ~started => playoutExt = firstExt

\* The inductive invariant.  Each part needs the others: the cursor's place
\* (NothingStranded) makes an overflow drop move it forward, which the slot
\* account counts, and the cap is why one drop per insert is enough.
IInv == /\ TypeOK /\ NothingStranded /\ WithinCapacity /\ Fresh
        /\ PacketsConserved /\ SlotsAccounted

LEMMA InitIInv == Init => IInv
<1> SUFFICES ASSUME Init PROVE IInv
  OBVIOUS
<1>1. Cardinality({}) = 0 /\ IsFiniteSet({})
  BY FS_EmptySet
<1>2. TypeOK /\ NothingStranded /\ Fresh
  BY <1>1 DEF Init, TypeOK, NothingStranded, Fresh
<1>3. WithinCapacity /\ PacketsConserved
  BY <1>1, ConfigAssumption DEF Init, WithinCapacity, PacketsConserved
<1>4. SlotsAccounted
  BY <1>1 DEF Init, SlotsAccounted
<1> QED
  BY <1>2, <1>3, <1>4 DEF IInv

LEMMA AcceptIInv ==
  ASSUME IInv, NEW seq \in SeqNum, Accept(Slot(seq))
  PROVE  IInv'
<1> DEFINE ext == Slot(seq)
<1>1. ext \in Int /\ (~started => ext \in Nat)
  BY SlotType DEF IInv
<1> HIDE DEF ext
<1>2. Accept(ext)
  BY DEF ext
<1>3. /\ IsFiniteSet(buf')
      /\ buf' \subseteq buf \union {ext}
      /\ \A e \in buf' : playoutExt' <= e
      /\ Cardinality(buf') <= Capacity
      /\ \/ /\ buf' = buf \union {ext}
            /\ Cardinality(buf') = Cardinality(buf) + 1
            /\ playoutExt' = CursorAt(ext)
            /\ overflowDropped' = overflowDropped
         \/ /\ Cardinality(buf') = Cardinality(buf)
            /\ \E o \in buf \union {ext} : playoutExt' = o + 1
            /\ overflowDropped' = overflowDropped + 1
  BY <1>1, <1>2, AcceptEffect DEF IInv
<1>4. ~TooLate(ext) /\ ext \notin buf
  BY <1>2 DEF Accept
<1>5. /\ ext \in Nat
      /\ \A e \in buf \union {ext} : CursorAt(ext) <= e /\ e <= HighestAt(ext)
      /\ CursorAt(ext) \in Nat
      /\ HighestAt(ext) \in Nat
  BY <1>1, <1>4, AcceptFacts DEF IInv
<1>6. /\ started' = TRUE
      /\ highestExt' = HighestAt(ext)
      /\ reordered' \in Nat
      /\ received' = received + 1
      /\ firstExt' = IF started THEN firstExt ELSE ext
      /\ UNCHANGED <<primed, lost, lateDiscarded, played>>
  BY <1>2 DEF Accept, IInv, TypeOK
<1>7. /\ buf \subseteq Nat /\ playoutExt \in Nat /\ highestExt \in Nat
      /\ overflowDropped \in Nat /\ lost \in Nat /\ received \in Nat
      /\ firstExt \in Nat /\ played \subseteq Nat /\ IsFiniteSet(played)
      /\ Cardinality(played) \in Nat /\ Cardinality(buf) \in Nat
  BY FS_CardinalityType DEF IInv, TypeOK
<1>8. /\ buf' \subseteq Nat /\ playoutExt' \in Nat /\ playoutExt' >= CursorAt(ext)
      /\ playoutExt' <= HighestAt(ext) + 1
      /\ overflowDropped' \in Nat
  <2>1. CASE playoutExt' = CursorAt(ext) /\ overflowDropped' = overflowDropped
    BY <2>1, <1>3, <1>5, <1>7
  <2>2. CASE /\ \E o \in buf \union {ext} : playoutExt' = o + 1
             /\ overflowDropped' = overflowDropped + 1
    <3>1. PICK o \in buf \union {ext} : playoutExt' = o + 1
      BY <2>2
    <3>2. o \in Nat /\ CursorAt(ext) <= o /\ o <= HighestAt(ext)
      BY <1>5, <1>7
    <3> QED
      BY <3>1, <3>2, <2>2, <1>3, <1>5, <1>7
  <2> QED
    BY <2>1, <2>2, <1>3
<1>9. TypeOK'
  BY <1>3, <1>5, <1>6, <1>7, <1>8 DEF IInv, TypeOK
<1>10. CursorAt(ext) = IF started THEN playoutExt ELSE ext
  BY DEF CursorAt
<1>11. NothingStranded' /\ Fresh'
  <2>1. \A e \in buf' : playoutExt' <= e /\ e <= highestExt'
    BY <1>3, <1>5, <1>6
  <2>2. firstExt' <= playoutExt' /\ playoutExt' <= highestExt' + 1
    BY <1>5, <1>6, <1>7, <1>8, <1>10 DEF IInv, NothingStranded
  <2> QED
    BY <2>1, <2>2, <1>6 DEF NothingStranded, Fresh
<1>12. WithinCapacity'
  BY <1>3 DEF WithinCapacity
<1>13. PacketsConserved'
  BY <1>3, <1>6, <1>7 DEF IInv, PacketsConserved
<1>14. SlotsAccounted'
  <2>1. \A e \in played : firstExt <= e /\ e < playoutExt
    BY DEF IInv, SlotsAccounted
  <2>2. \A e \in played' : firstExt' <= e /\ e < playoutExt'
    <3>1. CASE started
      BY <3>1, <2>1, <1>6, <1>7, <1>8, <1>10
    <3>2. CASE ~started
      BY <3>2, <2>1, <1>6, <1>7 DEF IInv, Fresh
    <3> QED
      BY <3>1, <3>2
  <2> DEFINE passed == playoutExt - firstExt
             counted == Cardinality(played) + lost + overflowDropped
  <2>3. counted <= passed /\ (overflowDropped = 0 => counted = passed)
    BY DEF IInv, SlotsAccounted
  <2>4. firstExt' \in Nat /\ CursorAt(ext) - firstExt' = passed
    <3>1. CASE started
      BY <3>1, <1>6, <1>7, <1>10
    <3>2. CASE ~started
      BY <3>2, <1>5, <1>6, <1>7, <1>10 DEF IInv, Fresh
    <3> QED
      BY <3>1, <3>2
  <2>5. \/ /\ overflowDropped' = overflowDropped
           /\ playoutExt' - firstExt' = passed
        \/ /\ overflowDropped' = overflowDropped + 1
           /\ playoutExt' - firstExt' >= passed + 1
    <3>1. CASE playoutExt' = CursorAt(ext) /\ overflowDropped' = overflowDropped
      BY <3>1, <2>4
    <3>2. CASE /\ \E o \in buf \union {ext} : playoutExt' = o + 1
               /\ overflowDropped' = overflowDropped + 1
      <4>1. PICK o \in buf \union {ext} : playoutExt' = o + 1
        BY <3>2
      <4>2. o \in Nat /\ CursorAt(ext) <= o
        BY <1>5, <1>7
      <4>3. passed \in Int
        BY <1>7
      <4> QED
        BY <3>2, <4>1, <4>2, <4>3, <2>4, <1>5
    <3> QED
      BY <3>1, <3>2, <1>3
  <2> QED
    BY <2>2, <2>3, <2>4, <2>5, <1>6, <1>7, <1>8 DEF SlotsAccounted
<1> QED
  BY <1>9, <1>11, <1>12, <1>13, <1>14 DEF IInv

\* pop preserves the invariant whether it plays, declares a loss or underruns.
LEMMA PopIInv ==
  ASSUME IInv, Pop
  PROVE  IInv'
<1>1. /\ buf \subseteq Nat /\ IsFiniteSet(buf)
      /\ playoutExt \in Nat /\ highestExt \in Nat /\ firstExt \in Nat
      /\ overflowDropped \in Nat /\ lost \in Nat /\ received \in Nat
      /\ played \subseteq Nat /\ IsFiniteSet(played)
      /\ Cardinality(played) \in Nat /\ Cardinality(buf) \in Nat
      /\ Capacity \in Nat
  BY FS_CardinalityType, ConfigAssumption DEF IInv, TypeOK
<1>2. /\ started /\ primed' = TRUE
      /\ UNCHANGED <<started, highestExt, received, reordered, lateDiscarded,
                     overflowDropped, firstExt>>
  BY DEF Pop
<1>3. /\ \A e \in buf : playoutExt <= e /\ e <= highestExt
      /\ firstExt <= playoutExt /\ playoutExt <= highestExt + 1
  BY <1>2 DEF IInv, NothingStranded
<1>4. /\ \A e \in played : firstExt <= e /\ e < playoutExt
      /\ Cardinality(played) + lost + overflowDropped <= playoutExt - firstExt
      /\ overflowDropped = 0
           => Cardinality(played) + lost + overflowDropped = playoutExt - firstExt
  BY DEF IInv, SlotsAccounted
<1>5. CASE Play
  <2>1. /\ playoutExt \in buf
        /\ buf' = buf \ {playoutExt}
        /\ played' = played \union {playoutExt}
        /\ playoutExt' = playoutExt + 1
        /\ lost' = lost
    BY <1>5 DEF Play
  <2>2. playoutExt \notin played
    BY <1>1, <1>4
  <2>3. /\ IsFiniteSet(played') /\ Cardinality(played') = Cardinality(played) + 1
    BY <1>1, <2>1, <2>2, FS_AddElement
  <2>4. /\ IsFiniteSet(buf') /\ Cardinality(buf') = Cardinality(buf) - 1
    BY <1>1, <2>1, FS_RemoveElement
  <2>5. TypeOK'
    BY <1>1, <1>2, <2>1, <2>3, <2>4 DEF IInv, TypeOK
  <2>6. NothingStranded' /\ Fresh'
    <3>1. ASSUME NEW e \in buf \ {playoutExt} PROVE playoutExt + 1 <= e
      BY <1>1, <1>3
    <3> QED
      BY <3>1, <1>1, <1>2, <1>3, <2>1 DEF NothingStranded, Fresh
  <2>7. WithinCapacity' /\ PacketsConserved'
    BY <1>1, <1>2, <2>3, <2>4 DEF IInv, WithinCapacity, PacketsConserved
  <2>8. SlotsAccounted'
    BY <1>1, <1>2, <1>3, <1>4, <2>1, <2>3 DEF SlotsAccounted
  <2> QED
    BY <2>5, <2>6, <2>7, <2>8 DEF IInv
<1>6. CASE DeclareLost
  <2>1. /\ buf # {} /\ playoutExt \notin buf
        /\ lost' = lost + 1
        /\ playoutExt' = playoutExt + 1
        /\ buf' = buf /\ played' = played
    BY <1>6 DEF DeclareLost, LossDue
  <2>2. TypeOK'
    BY <1>1, <1>2, <2>1 DEF IInv, TypeOK
  <2>3. NothingStranded' /\ Fresh'
    <3>1. ASSUME NEW e \in buf PROVE playoutExt + 1 <= e /\ e <= highestExt
      BY <1>1, <1>3, <2>1
    <3>2. playoutExt + 1 <= highestExt + 1
      <4>1. PICK e \in buf : playoutExt + 1 <= e /\ e <= highestExt
        BY <3>1, <2>1
      <4> QED
        BY <4>1, <1>1
    <3> QED
      BY <3>1, <3>2, <1>1, <1>2, <1>3, <2>1 DEF NothingStranded, Fresh
  <2>4. WithinCapacity' /\ PacketsConserved'
    BY <1>2, <2>1 DEF IInv, WithinCapacity, PacketsConserved
  <2>5. SlotsAccounted'
    BY <1>1, <1>2, <1>4, <2>1 DEF SlotsAccounted
  <2> QED
    BY <2>2, <2>3, <2>4, <2>5 DEF IInv
<1>7. CASE Underrun
  BY <1>2, <1>7 DEF Underrun, IInv, TypeOK, NothingStranded, Fresh,
     WithinCapacity, PacketsConserved, SlotsAccounted
<1> QED
  BY <1>5, <1>6, <1>7 DEF Pop

LEMMA StepIInv == IInv /\ [Next]_vars => IInv'
<1> SUFFICES ASSUME IInv, [Next]_vars
             PROVE  IInv'
  OBVIOUS
<1>1. ASSUME NEW seq \in SeqNum, Insert(seq)
      PROVE  IInv'
  <2>1. CASE Discard(Slot(seq))
    BY <2>1 DEF Discard, cursor, IInv, TypeOK, NothingStranded, Fresh,
       WithinCapacity, PacketsConserved, SlotsAccounted
  <2>2. CASE Accept(Slot(seq))
    BY <2>2, AcceptIInv
  <2> QED
    BY <1>1, <2>1, <2>2 DEF Insert
<1>2. CASE Pop
  BY <1>2, PopIInv
<1>3. CASE Reset
  <2>1. Init'
    BY <1>3 DEF Reset, Init
  <2> QED
    BY <2>1, InitIInv, PTL
<1>4. CASE UNCHANGED vars
  BY <1>4 DEF vars, cursor, stats, IInv, TypeOK, NothingStranded, Fresh,
     WithinCapacity, PacketsConserved, SlotsAccounted
<1> QED
  BY <1>1, <1>2, <1>3, <1>4 DEF Next

THEOREM Invariance == Spec => []IInv
  BY InitIInv, StepIInv, PTL DEF Spec

\* TypeOK, in every reachable state.
THEOREM TypeCorrect == Spec => []TypeOK
  BY Invariance, PTL DEF IInv

\* No packet is ever queued behind the playout cursor.
THEOREM NeverStranded == Spec => []NothingStranded
  BY Invariance, PTL DEF IInv

\* The queue never exceeds its capacity.
THEOREM CapacityKept == Spec => []WithinCapacity
  BY Invariance, PTL DEF IInv

\* received = played + dropped + queued, and the counters account for the slots.
THEOREM CountersExact == Spec => []CountersAgree
  BY Invariance, PTL DEF IInv, CountersAgree

\* pop emits packets in sequence order.
THEOREM PlayoutOrdered == Spec => PlayedInOrder
<1>1. IInv /\ [Next]_vars
        => [\A ext \in played' \ played : \A earlier \in played : earlier < ext]_vars
  <2> SUFFICES ASSUME IInv, Next,
                      NEW ext \in played' \ played, NEW earlier \in played
               PROVE  earlier < ext
    OBVIOUS
  <2>1. earlier < playoutExt
    BY DEF IInv, SlotsAccounted
  <2>2. ext = playoutExt
    BY DEF Next, Insert, Discard, Accept, Pop, Play, DeclareLost, Underrun, Reset
  <2> QED
    BY <2>1, <2>2
<1> QED
  BY <1>1, Invariance, PTL DEF Spec, PlayedInOrder

\* A loss is declared only in front of a queued packet, and passes one slot.
THEOREM LossJustified == Spec => LossOnlyBehindGap
<1>1. IInv /\ [Next]_vars
        => [lost' > lost => /\ \E ext \in buf : playoutExt < ext
                            /\ playoutExt < playoutExt']_vars
  <2> SUFFICES ASSUME IInv, Next, lost' > lost
               PROVE  /\ \E ext \in buf : playoutExt < ext
                      /\ playoutExt < playoutExt'
    OBVIOUS
  <2>1. /\ lost \in Nat /\ playoutExt \in Nat /\ buf \subseteq Nat
        /\ \A e \in buf : playoutExt <= e
    BY DEF IInv, TypeOK, NothingStranded
  <2>2. DeclareLost
    <3>1. DeclareLost \/ lost' = lost \/ lost' = 0
      BY DEF Next, Insert, Discard, Accept, Pop, Play, Underrun, Reset
    <3> QED
      BY <2>1, <3>1
  <2>3. buf # {} /\ playoutExt \notin buf /\ playoutExt' = playoutExt + 1
    BY <2>2 DEF DeclareLost, LossDue
  <2>4. PICK e \in buf : playoutExt <= e /\ e # playoutExt
    BY <2>1, <2>3
  <2> QED
    BY <2>1, <2>3, <2>4
<1> QED
  BY <1>1, Invariance, PTL DEF Spec, LossOnlyBehindGap

-----------------------------------------------------------------------------
(* What the MediaSession relies on *)

\* Of the packets played one is the last.
HasLast == played # {} => \E m \in played : \A ext \in played : ext <= m

LEMMA MaxIsLast ==
  ASSUME NEW S \in SUBSET Nat, NEW m \in S, \A e \in S : e <= m
  PROVE  Max(S) = m
<1> DEFINE Last(x) == \A e \in S : x >= e
<1>1. \A x \in S : Last(x) => x = m
  BY DEF Last
<1>2. Last(m)
  BY DEF Last
<1>3. Max(S) = CHOOSE x \in S : Last(x)
  BY DEF Max
<1> HIDE DEF Last
<1> QED BY <1>1, <1>2, <1>3

\* A packet in play is past all that were played before.
LEMMA LastPlayedIs ==
  ASSUME IInv, HasLast
  PROVE  /\ LastPlayed \in Int
         /\ \A e \in buf : LastPlayed < e
         /\ LastPlayed < playoutExt
<1>1. /\ played \subseteq Nat /\ playoutExt \in Nat /\ buf \subseteq Nat
      /\ \A e \in played : e < playoutExt
      /\ \A e \in buf : playoutExt <= e
  BY DEF IInv, TypeOK, SlotsAccounted, NothingStranded
<1>2. CASE played = {}
  BY <1>1, <1>2 DEF LastPlayed
<1>3. CASE played # {}
  <2>1. PICK m \in played : \A e \in played : e <= m
    BY <1>3 DEF HasLast
  <2>2. Max(played) = m
    BY <1>1, <2>1, MaxIsLast
  <2>3. LastPlayed = m
    BY <1>3, <2>2 DEF LastPlayed
  <2>4. m \in Nat /\ m < playoutExt
    BY <1>1
  <2> QED BY <1>1, <2>3, <2>4
<1> QED BY <1>2, <1>3

\* What one call does to the packets played.
LEMMA PlaySteps ==
  ASSUME IInv, HasLast, Next
  PROVE  /\ HasLast'
         /\ \/ UNCHANGED <<played, LastPlayed>>
            \/ /\ playoutExt \in buf /\ buf' = buf \ {playoutExt}
               /\ LastPlayed' = playoutExt
            \/ buf' = {} /\ played' = {} /\ LastPlayed' = -1
<1>1. CASE UNCHANGED played
  <2>1. UNCHANGED LastPlayed
    BY <1>1 DEF LastPlayed
  <2> QED BY <1>1, <2>1 DEF HasLast
<1>2. CASE Play
  <2>1. /\ playoutExt \in Nat /\ played \subseteq Nat
        /\ \A e \in played : e < playoutExt
    BY DEF IInv, TypeOK, SlotsAccounted
  <2>2. /\ playoutExt \in played' /\ played' \in SUBSET Nat
        /\ \A e \in played' : e <= playoutExt
    BY <1>2, <2>1 DEF Play
  <2>3. \A S \in SUBSET Nat : \A m \in S : (\A e \in S : e <= m) => Max(S) = m
    BY MaxIsLast
  <2>4. Max(played') = playoutExt
    BY <2>2, <2>3
  <2>5. LastPlayed' = playoutExt
    BY <2>2, <2>4 DEF LastPlayed
  <2>6. HasLast'
    BY <2>2 DEF HasLast
  <2> QED BY <1>2, <2>5, <2>6 DEF Play
<1>3. CASE Reset
  <2>1. buf' = {} /\ played' = {}
    BY <1>3 DEF Reset
  <2> QED BY <2>1 DEF HasLast, LastPlayed
<1>4. UNCHANGED played \/ Play \/ Reset
  BY DEF Next, Insert, Discard, Accept, Pop, DeclareLost, Underrun
<1> QED BY <1>1, <1>2, <1>3, <1>4

LEMMA StepPromised ==
  ASSUME IInv, HasLast, Next
  PROVE  Promised!Next \/ UNCHANGED Promised!vars
<1> USE DEF Promised!vars
<1>1. ASSUME NEW seq \in SeqNum, Accept(Slot(seq))
      PROVE  Promised!Next
  <2> DEFINE ext == Slot(seq)
             fits == buf \union {ext}
  <2>1. ext \in Int /\ (~started => ext \in Nat)
    BY SlotType DEF IInv
  <2>2. buf' = KeptOf(fits) /\ UNCHANGED played /\ ~TooLate(ext)
    BY <1>1 DEF Accept
  <2>3. UNCHANGED LastPlayed
    BY <2>2 DEF LastPlayed
  <2>4. LastPlayed < ext
    <3>1. CASE started
      <4>1. playoutExt \in Int /\ playoutExt <= ext
        BY <2>1, <2>2, <3>1 DEF TooLate, CursorAt, IInv, TypeOK
      <4> QED BY <2>1, <4>1, LastPlayedIs
    <3>2. CASE ~started
      <4>1. played = {}
        BY <3>2 DEF IInv, Fresh, TypeOK, SlotsAccounted
      <4> QED BY <2>1, <3>2, <4>1 DEF LastPlayed
    <3> QED BY <3>1, <3>2
  <2>5. KeptOf(fits) = Promised!KeptOf(fits)
    <3>1. Min(fits) = Promised!Min(fits)
      BY DEF Min, Promised!Min
    <3>2. Cardinality(fits) = Promised!Cardinality(fits)
      BY DEF Cardinality, Promised!Cardinality
    <3> QED BY <3>1, <3>2 DEF KeptOf, Promised!KeptOf
  <2>6. ext > LastPlayed
    BY <2>1, <2>4, LastPlayedIs
  <2> HIDE DEF ext
  <2>7. Promised!Insert(ext)
    BY <2>2, <2>3, <2>5, <2>6 DEF Promised!Insert
  <2> QED BY <2>1, <2>7 DEF Promised!Next
<1>2. CASE Play
  <2>1. playoutExt \in buf /\ buf' = buf \ {playoutExt} /\ LastPlayed' = playoutExt
    <3>1. playoutExt \in buf /\ playoutExt \in played' /\ playoutExt \notin played
      BY <1>2 DEF Play, IInv, TypeOK, SlotsAccounted
    <3> QED BY <3>1, PlaySteps
  <2>2. playoutExt = Promised!Oldest
    <3>1. buf \in SUBSET Nat /\ buf # {} /\ \A e \in buf : playoutExt <= e
      BY <2>1 DEF IInv, TypeOK, NothingStranded
    <3>2. Min(buf) \in buf /\ \A e \in buf : Min(buf) <= e
      BY <3>1, MinIsOldest
    <3>3. Min(buf) \in Nat /\ playoutExt \in Nat /\ Min(buf) <= playoutExt /\ playoutExt <= Min(buf)
      BY <2>1, <3>1, <3>2
    <3>4. Min(buf) = playoutExt
      BY <3>3
    <3> QED BY <3>4 DEF Promised!Oldest, Promised!Min, Min
  <2> QED BY <2>1, <2>2 DEF Promised!Remove, Promised!Next
<1>3. CASE Reset
  <2>1. buf' = {} /\ played' = {}
    BY <1>3 DEF Reset
  <2> QED BY <2>1 DEF LastPlayed, Promised!Clear, Promised!Next
<1>4. CASE UNCHANGED <<buf, played>>
  BY <1>4 DEF LastPlayed
<1>5. \/ UNCHANGED <<buf, played>> \/ Play \/ Reset
      \/ \E seq \in SeqNum : Accept(Slot(seq))
  BY DEF Next, Insert, Discard, Pop, DeclareLost, Underrun
<1> QED BY <1>1, <1>2, <1>3, <1>4, <1>5

\* JitterBuffer.h:25-31 as main.cpp uses it: insert, pop and reset are those of a buffer
\* that keeps at most capacity packets and lets them out in order, each once, whatever
\* arrives late or twice and however often the sequence number wraps.
THEOREM KeepsPromise == Spec => Promised!Spec
<1>1. Init => HasLast
  BY DEF Init, HasLast
<1>2. IInv /\ HasLast /\ [Next]_vars => HasLast'
  <2>1. IInv /\ HasLast /\ Next => HasLast'
    BY PlaySteps
  <2>2. HasLast /\ UNCHANGED vars => HasLast'
    BY DEF HasLast, vars
  <2> QED BY <2>1, <2>2
<1>3. Init => Promised!Init
  BY DEF Init, Promised!Init, LastPlayed
<1>4. IInv /\ HasLast /\ [Next]_vars => [Promised!Next]_(Promised!vars)
  <2>1. IInv /\ HasLast /\ Next => Promised!Next \/ UNCHANGED Promised!vars
    BY StepPromised
  <2>2. UNCHANGED vars => UNCHANGED Promised!vars
    BY DEF vars, Promised!vars, LastPlayed
  <2> QED BY <2>1, <2>2
<1> QED BY <1>1, <1>2, <1>3, <1>4, Invariance, PTL DEF Spec, Promised!Spec
=============================================================================
