--------------------------- MODULE DtmfDecoderProofs ---------------------------
(***************************************************************************)
(* The DTMF decoder for any keys, any number of presses, durations, copies *)
(* of the end and duplicates: its types, and, where packets do not         *)
(* overtake each other, one digit per press and the digits as typed.       *)
(***************************************************************************)
EXTENDS DtmfDecoder, SequenceTheorems, TLAPS

\* A packet tells the event of its press, and its end the duration of it.
Truthful(pkt, ps) ==
  /\ pkt \in Packets
  /\ pkt.press \in DOMAIN ps
  /\ pkt.event = ps[pkt.press].event
  /\ pkt.end => pkt.duration = ps[pkt.press].duration

Inv ==
  /\ TypeOK
  /\ Len(presses) <= MaxPresses
  /\ \A i \in DOMAIN wire : Truthful(wire[i], presses)

-----------------------------------------------------------------------------
(* Sequences of packets *)

LEMMA Concatenated ==
  ASSUME NEW S, NEW a \in Seq(S), NEW b \in Seq(S)
  PROVE  /\ a \o b \in Seq(S) /\ Len(a \o b) = Len(a) + Len(b)
         /\ DOMAIN (a \o b) = 1 .. Len(a) + Len(b)
         /\ \A i \in 1 .. Len(a) : (a \o b)[i] = a[i]
         /\ \A i \in 1 .. Len(a) + Len(b) :
              i > Len(a) => i - Len(a) \in 1 .. Len(b) /\ (a \o b)[i] = b[i - Len(a)]
<1>1. /\ a \o b \in Seq(S) /\ Len(a \o b) = Len(a) + Len(b)
      /\ \A i \in 1 .. Len(a) + Len(b) : (a \o b)[i] = IF i <= Len(a) THEN a[i] ELSE b[i - Len(a)]
  BY ConcatProperties
<1>2. Len(a) \in Nat /\ Len(b) \in Nat
  BY LenProperties
<1>3. DOMAIN (a \o b) = 1 .. Len(a) + Len(b)
  BY <1>1, LenProperties
<1> QED BY ONLY <1>1, <1>2, <1>3

\* Without the element i, the sequence up to i and that behind it.
LEMMA Removed ==
  ASSUME NEW S, NEW s \in Seq(S), NEW i \in DOMAIN s
  PROVE  /\ RemoveAt(s, i) \in Seq(S)
         /\ DOMAIN RemoveAt(s, i) = 1 .. Len(s) - 1
         /\ \A j \in 1 .. Len(s) - 1 :
              RemoveAt(s, i)[j] = IF j < i THEN s[j] ELSE s[j + 1]
<1> DEFINE a == SubSeq(s, 1, i - 1)
           b == SubSeq(s, i + 1, Len(s))
<1>0. Len(s) \in Nat /\ i \in 1 .. Len(s)
  BY LenProperties
<1>1. /\ a \in Seq(S) /\ Len(a) = i - 1
      /\ \A j \in 1 .. Len(a) : a[j] = s[j]
  OBVIOUS
<1>2. /\ b \in Seq(S) /\ Len(b) = Len(s) - i
      /\ \A j \in 1 .. Len(b) : b[j] = s[i + j]
  OBVIOUS
<1>3. RemoveAt(s, i) = a \o b
  BY DEF RemoveAt
<1> HIDE DEF a, b
<1>4. /\ a \o b \in Seq(S) /\ Len(a \o b) = Len(a) + Len(b)
      /\ DOMAIN (a \o b) = 1 .. Len(a) + Len(b)
      /\ \A j \in 1 .. Len(a) : (a \o b)[j] = a[j]
      /\ \A j \in 1 .. Len(a) + Len(b) :
           j > Len(a) => j - Len(a) \in 1 .. Len(b) /\ (a \o b)[j] = b[j - Len(a)]
  BY <1>1, <1>2, Concatenated
<1>5. Len(a) + Len(b) = Len(s) - 1
  BY <1>0, <1>1, <1>2
<1>6. ASSUME NEW j \in 1 .. Len(s) - 1
      PROVE  (a \o b)[j] = IF j < i THEN s[j] ELSE s[j + 1]
  <2>1. CASE j < i
    <3>1. j \in 1 .. Len(a)
      BY <1>0, <1>1, <2>1
    <3> QED BY <1>1, <1>4, <2>1, <3>1
  <2>2. CASE ~(j < i)
    <3>1. j > Len(a) /\ j \in 1 .. Len(a) + Len(b)
      BY <1>0, <1>1, <1>5, <2>2
    <3>2. j - Len(a) \in 1 .. Len(b) /\ (a \o b)[j] = b[j - Len(a)]
      BY <1>4, <3>1
    <3>3. i + (j - Len(a)) = j + 1
      BY <1>0, <1>1
    <3> QED BY <1>2, <2>2, <3>2, <3>3
  <2> QED BY <2>1, <2>2
<1> QED BY <1>3, <1>4, <1>5, <1>6

\* The packets of a press: reports of the key, then EndCopies ends.
LEMMA TrainFacts ==
  ASSUME NEW p \in 1 .. MaxPresses, NEW event \in Events,
         NEW duration \in 1 .. MaxDuration, NEW n \in 0 .. duration - 1
  PROVE  /\ Train(p, event, duration, n) \in Seq(Packets)
         /\ \A i \in DOMAIN Train(p, event, duration, n) :
              LET pkt == Train(p, event, duration, n)[i]
              IN  /\ pkt.event = event /\ pkt.press = p
                  /\ i <= n => pkt.end = FALSE
                  /\ i > n => pkt.end = TRUE /\ pkt.duration = duration
<1> DEFINE packet(end, d) == [event |-> event, end |-> end, duration |-> d, press |-> p]
           down == [i \in 1 .. n |-> packet(FALSE, i)]
           up   == [i \in 1 .. EndCopies |-> packet(TRUE, duration)]
<1>0. n \in Nat /\ EndCopies \in Nat /\ MaxDuration \in Nat /\ MaxPresses \in Nat
  BY DtmfAssumption
<1>1. /\ packet(TRUE, duration) \in Packets
      /\ \A i \in 1 .. n : packet(FALSE, i) \in Packets
  BY <1>0 DEF Packets
<1>2. down \in Seq(Packets) /\ Len(down) = n /\ \A i \in 1 .. n : down[i] = packet(FALSE, i)
  BY <1>0, <1>1
<1>3. /\ up \in Seq(Packets) /\ Len(up) = EndCopies
      /\ \A i \in 1 .. EndCopies : up[i] = packet(TRUE, duration)
  BY <1>0, <1>1
<1>4. Train(p, event, duration, n) = down \o up
  BY DEF Train
<1> HIDE DEF down, up
<1>5. /\ down \o up \in Seq(Packets) /\ DOMAIN (down \o up) = 1 .. n + EndCopies
      /\ \A i \in 1 .. n : (down \o up)[i] = down[i]
      /\ \A i \in 1 .. n + EndCopies :
           i > n => i - n \in 1 .. EndCopies /\ (down \o up)[i] = up[i - n]
  <2>1. /\ down \o up \in Seq(Packets) /\ DOMAIN (down \o up) = 1 .. Len(down) + Len(up)
        /\ \A i \in 1 .. Len(down) : (down \o up)[i] = down[i]
        /\ \A i \in 1 .. Len(down) + Len(up) :
             i > Len(down) => i - Len(down) \in 1 .. Len(up) /\ (down \o up)[i] = up[i - Len(down)]
    BY <1>2, <1>3, Concatenated
  <2>2. Len(down) = n /\ Len(up) = EndCopies
    BY <1>2, <1>3
  <2> QED BY ONLY <2>1, <2>2
<1>6. ASSUME NEW i \in DOMAIN (down \o up)
      PROVE  LET pkt == (down \o up)[i]
             IN  /\ pkt.event = event /\ pkt.press = p
                 /\ i <= n => pkt.end = FALSE
                 /\ i > n => pkt.end = TRUE /\ pkt.duration = duration
  <2>0. i \in 1 .. n + EndCopies
    BY <1>5
  <2>1. CASE i > n
    <3>1. (down \o up)[i] = packet(TRUE, duration)
      BY <1>3, <1>5, <2>0, <2>1
    <3> QED BY <1>0, <2>0, <2>1, <3>1
  <2>2. CASE i <= n
    <3>1. i \in 1 .. n
      BY <1>0, <2>0, <2>2
    <3>2. (down \o up)[i] = packet(FALSE, i)
      BY <1>2, <1>5, <3>1
    <3> QED BY <1>0, <2>0, <2>2, <3>2
  <2>3. i > n \/ i <= n
    BY <1>0, <2>0
  <2> QED BY ONLY <2>1, <2>2, <2>3
<1> QED BY <1>4, <1>5, <1>6
-----------------------------------------------------------------------------
(* Types *)

DecoderType ==
  /\ lastEvent \in Events \union {NoEvent}
  /\ emitted \in BOOLEAN /\ (emitted => IsDigit(lastEvent))
  /\ lastDuration \in 0 .. MaxDuration
  /\ digits \in Seq([char : ToSet(Chars), press : 1 .. MaxPresses])

LEMMA InitInv == Init => Inv
<1> SUFFICES ASSUME Init PROVE Inv
  OBVIOUS
<1>1. MaxDuration \in Nat /\ MaxPresses \in Nat /\ MaxCopies \in Nat
  BY DtmfAssumption
<1>2. /\ digits = <<>> /\ presses = <<>> /\ wire = <<>>
      /\ heardDown = {} /\ heardUp = {}
  BY DEF Init
<1>3. Len(presses) = 0 /\ DOMAIN wire = {}
  BY <1>2
<1>4. TypeOK
  <2>1. /\ digits \in Seq([char : ToSet(Chars), press : 1 .. MaxPresses])
        /\ presses \in Seq([event : Events, duration : 1 .. MaxDuration])
        /\ wire \in Seq(Packets)
    BY <1>2
  <2>2. /\ lastEvent = NoEvent /\ emitted = FALSE
        /\ lastDuration \in 0 .. MaxDuration /\ copies \in 0 .. MaxCopies
    BY <1>1 DEF Init
  <2> QED BY <1>2, <2>1, <2>2 DEF TypeOK
<1> QED BY <1>1, <1>3, <1>4 DEF Inv

LEMMA CharOfDigit == \A event : IsDigit(event) => EventToChar(event) \in ToSet(Chars)
<1> SUFFICES ASSUME NEW event \in 0 .. 15 PROVE Chars[event + 1] \in ToSet(Chars)
  BY DEF IsDigit, EventToChar
<1>1. DOMAIN Chars = 1 .. 16
  BY DEF Chars
<1>2. event + 1 \in DOMAIN Chars
  BY <1>1
<1> QED BY <1>2 DEF ToSet

\* A digit is reported for an end that is not that of the press reported last.
Reports(pkt) == pkt.end /\ ~AlreadyEmitted(pkt) /\ IsDigit(pkt.event)

Digit(pkt) == [char |-> EventToChar(pkt.event), press |-> pkt.press]

LEMMA FeedEffect ==
  ASSUME NEW pkt \in Packets, Feed(pkt)
  PROVE  /\ lastEvent' = pkt.event /\ lastDuration' = pkt.duration
         /\ pkt.end = FALSE => emitted' = FALSE
         /\ Reports(pkt) => emitted' = TRUE /\ digits' = Append(digits, Digit(pkt))
         /\ ~Reports(pkt) =>
              /\ digits' = digits /\ emitted' \in BOOLEAN
              /\ pkt.end /\ AlreadyEmitted(pkt) => emitted' = TRUE
              /\ emitted' => AlreadyEmitted(pkt)
<1>1. pkt.end \in BOOLEAN
  BY DEF Packets
<1>2. lastEvent' = pkt.event /\ lastDuration' = pkt.duration
  BY DEF Feed
<1>3. CASE pkt.end = FALSE
  BY <1>2, <1>3 DEF Feed, KeyDown, Reports
<1>4. CASE pkt.end = TRUE
  <2>1. KeyUp(pkt)
    BY <1>4 DEF Feed
  <2>2. CASE AlreadyEmitted(pkt)
    BY <1>2, <1>4, <2>1, <2>2 DEF KeyUp, Reports
  <2>3. CASE ~AlreadyEmitted(pkt) /\ ~IsDigit(pkt.event)
    <3>1. digits' = digits /\ emitted' = AlreadyEmitted(pkt)
      BY <2>1, <2>3 DEF KeyUp
    <3>2. AlreadyEmitted(pkt) = FALSE
      BY <2>3 DEF AlreadyEmitted, SameEvent
    <3>3. emitted' = FALSE
      BY <3>1, <3>2
    <3> QED BY <1>2, <2>3, <3>1, <3>3 DEF Reports
  <2>4. CASE ~AlreadyEmitted(pkt) /\ IsDigit(pkt.event)
    BY <1>2, <1>4, <2>1, <2>4 DEF KeyUp, Reports, Digit
  <2> QED BY <2>2, <2>3, <2>4
<1> QED BY <1>1, <1>3, <1>4

LEMMA ReceiveType ==
  ASSUME Inv, NEW pkt, Truthful(pkt, presses), Receive(pkt)
  PROVE  /\ DecoderType'
         /\ heardDown' \subseteq DOMAIN presses /\ heardUp' \subseteq DOMAIN presses
<1>1. pkt \in Packets /\ Feed(pkt) /\ pkt.press \in DOMAIN presses
  BY DEF Truthful, Receive
<1>2. heardDown' \subseteq DOMAIN presses /\ heardUp' \subseteq DOMAIN presses
  BY <1>1 DEF Receive, Inv, TypeOK
<1>3. lastEvent' \in Events \union {NoEvent} /\ lastDuration' \in 0 .. MaxDuration
  <2>1. lastEvent' = pkt.event /\ lastDuration' = pkt.duration
    BY <1>1, FeedEffect
  <2>2. pkt.event \in Events /\ pkt.duration \in 1 .. MaxDuration
    BY <1>1 DEF Packets
  <2> QED BY <2>1, <2>2
<1>4. CASE Reports(pkt)
  <2>1. /\ emitted' = TRUE /\ lastEvent' = pkt.event
        /\ digits' = Append(digits, Digit(pkt)) /\ IsDigit(pkt.event)
    BY <1>1, <1>4, FeedEffect DEF Reports
  <2>2. Digit(pkt) \in [char : ToSet(Chars), press : 1 .. MaxPresses]
    BY <1>1, <2>1, CharOfDigit DEF Digit, Packets
  <2>3. digits' \in Seq([char : ToSet(Chars), press : 1 .. MaxPresses])
    BY <2>1, <2>2 DEF Inv, TypeOK
  <2> QED BY <1>2, <1>3, <2>1, <2>3 DEF DecoderType
<1>5. CASE ~Reports(pkt)
  <2>1. /\ digits' = digits /\ lastEvent' = pkt.event
        /\ emitted' \in BOOLEAN /\ (emitted' => AlreadyEmitted(pkt))
    BY <1>1, <1>5, FeedEffect
  <2>2. AlreadyEmitted(pkt) => IsDigit(pkt.event)
    BY DEF AlreadyEmitted, SameEvent, Inv, TypeOK
  <2>3. emitted' \in BOOLEAN /\ (emitted' => IsDigit(lastEvent'))
    BY <2>1, <2>2
  <2> QED BY <1>2, <1>3, <2>1, <2>3 DEF DecoderType, Inv, TypeOK
<1> QED BY <1>4, <1>5

\* A press is added, and its packets, n reports and the ends, behind those under way.
Pressed(press, n, train) ==
  /\ press \in [event : Events, duration : 1 .. MaxDuration]
  /\ n \in Nat /\ train \in Seq(Packets)
  /\ presses' = Append(presses, press) /\ Len(presses) + 1 <= MaxPresses
  /\ wire' = wire \o train
  /\ \A i \in DOMAIN train :
       /\ train[i].event = press.event /\ train[i].press = Len(presses) + 1
       /\ i <= n => train[i].end = FALSE
       /\ i > n => train[i].end = TRUE /\ train[i].duration = press.duration
  /\ UNCHANGED <<decoder, heardDown, heardUp, copies>>

LEMMA PressEffect ==
  ASSUME Inv, Press
  PROVE  \E press, n, train : Pressed(press, n, train)
<1>1. MaxPresses \in Nat /\ MaxDuration \in Nat /\ Len(presses) \in Nat
  BY DtmfAssumption DEF Inv, TypeOK
<1>2. PICK event \in Events, duration \in 1 .. MaxDuration :
        \E n \in 0 .. duration - 1 :
          /\ presses' = Append(presses, [event |-> event, duration |-> duration])
          /\ wire' = wire \o Train(Len(presses) + 1, event, duration, n)
  BY DEF Press
<1>3. PICK n \in 0 .. duration - 1 :
        /\ presses' = Append(presses, [event |-> event, duration |-> duration])
        /\ wire' = wire \o Train(Len(presses) + 1, event, duration, n)
  BY <1>2
<1>4. Len(presses) + 1 \in 1 .. MaxPresses
  BY <1>1 DEF Press
<1> DEFINE train == Train(Len(presses) + 1, event, duration, n)
           press == [event |-> event, duration |-> duration]
<1>5. /\ train \in Seq(Packets)
      /\ \A i \in DOMAIN train :
           /\ train[i].event = event /\ train[i].press = Len(presses) + 1
           /\ i <= n => train[i].end = FALSE
           /\ i > n => train[i].end = TRUE /\ train[i].duration = duration
  <2>1. \A p \in 1 .. MaxPresses, e \in Events, d \in 1 .. MaxDuration : \A k \in 0 .. d - 1 :
          /\ Train(p, e, d, k) \in Seq(Packets)
          /\ \A i \in DOMAIN Train(p, e, d, k) :
               /\ Train(p, e, d, k)[i].event = e /\ Train(p, e, d, k)[i].press = p
               /\ i <= k => Train(p, e, d, k)[i].end = FALSE
               /\ i > k => /\ Train(p, e, d, k)[i].end = TRUE
                           /\ Train(p, e, d, k)[i].duration = d
    BY TrainFacts
  <2> QED BY ONLY <1>4, <2>1
<1>6. n \in Nat /\ Len(presses) + 1 <= MaxPresses
  BY <1>1, <1>4
<1>7. /\ press \in [event : Events, duration : 1 .. MaxDuration]
      /\ press.event = event /\ press.duration = duration
  OBVIOUS
<1>8. UNCHANGED <<decoder, heardDown, heardUp, copies>>
  BY DEF Press
<1>9. presses' = Append(presses, press) /\ wire' = wire \o train
  BY <1>3
<1> HIDE DEF train, press
<1>10. Pressed(press, n, train)
  BY <1>5, <1>6, <1>7, <1>8, <1>9 DEF Pressed
<1> QED BY <1>10

\* Where the presses before are the same, a packet stays truthful.
LEMMA PressInv ==
  ASSUME Inv, Press
  PROVE  Inv'
<1> PICK press, n, train : Pressed(press, n, train)
  BY PressEffect
<1>1. /\ press \in [event : Events, duration : 1 .. MaxDuration]
      /\ train \in Seq(Packets) /\ wire \in Seq(Packets)
      /\ presses \in Seq([event : Events, duration : 1 .. MaxDuration])
  BY DEF Pressed, Inv, TypeOK
<1>2. /\ presses' \in Seq([event : Events, duration : 1 .. MaxDuration])
      /\ Len(presses') = Len(presses) + 1 /\ Len(presses) \in Nat
      /\ DOMAIN presses' = 1 .. Len(presses) + 1 /\ DOMAIN presses = 1 .. Len(presses)
      /\ \A p \in DOMAIN presses : presses'[p] = presses[p]
      /\ presses'[Len(presses) + 1] = press
  BY <1>1 DEF Pressed
<1>3. /\ wire' \in Seq(Packets)
      /\ DOMAIN wire' = 1 .. Len(wire) + Len(train)
      /\ \A i \in 1 .. Len(wire) : wire'[i] = wire[i]
      /\ \A i \in 1 .. Len(wire) + Len(train) :
           i > Len(wire) => i - Len(wire) \in 1 .. Len(train) /\ wire'[i] = train[i - Len(wire)]
  BY <1>1, Concatenated DEF Pressed
<1>4. TypeOK'
  BY <1>2, <1>3 DEF Pressed, decoder, Inv, TypeOK
<1>5. Len(presses') <= MaxPresses
  BY <1>2 DEF Pressed
<1>6. ASSUME NEW i \in DOMAIN wire'
      PROVE  Truthful(wire'[i], presses')
  <2>0. Len(wire) \in Nat /\ Len(train) \in Nat /\ DOMAIN wire = 1 .. Len(wire)
        /\ DOMAIN train = 1 .. Len(train)
    BY <1>1, LenProperties
  <2>1. CASE i <= Len(wire)
    <3>1. i \in 1 .. Len(wire)
      BY <1>3, <2>0, <2>1
    <3>2. Truthful(wire[i], presses) /\ wire'[i] = wire[i]
      BY <1>3, <2>0, <3>1 DEF Inv
    <3> QED BY <1>2, <3>2 DEF Truthful
  <2>2. CASE i > Len(wire)
    <3> DEFINE j == i - Len(wire)
    <3>1. j \in DOMAIN train /\ wire'[i] = train[j]
      BY <1>3, <2>0, <2>2
    <3>2. train[j] \in Packets
      BY <1>1, <3>1, ElementOfSeq, <2>0
    <3>3. j \in Nat /\ n \in Nat
      BY <2>0, <3>1 DEF Pressed
    <3> HIDE DEF j
    <3>4. /\ train[j].event = press.event /\ train[j].press = Len(presses) + 1
          /\ train[j].end => train[j].duration = press.duration
      <4>1. j <= n \/ j > n
        BY <3>3
      <4> QED BY <3>1, <4>1 DEF Pressed
    <3> QED BY <1>2, <3>1, <3>2, <3>4 DEF Truthful
  <2> QED BY <1>3, <2>0, <2>1, <2>2
<1> QED BY <1>4, <1>5, <1>6 DEF Inv

LEMMA StepInv == Inv /\ [Next]_vars => Inv'
<1> SUFFICES ASSUME Inv, [Next]_vars PROVE Inv'
  OBVIOUS
<1>0. /\ wire \in Seq(Packets) /\ copies \in 0 .. MaxCopies /\ MaxCopies \in Nat
      /\ \A i \in Arriving : i \in DOMAIN wire /\ Truthful(wire[i], presses)
  BY DtmfAssumption DEF Inv, TypeOK, Arriving
\* Taking a packet from the wire.
<1>1. ASSUME NEW i \in DOMAIN wire, wire' = RemoveAt(wire, i), presses' = presses
      PROVE  wire' \in Seq(Packets) /\ \A j \in DOMAIN wire' : Truthful(wire'[j], presses')
  <2>1. /\ wire' \in Seq(Packets)
        /\ DOMAIN wire' = 1 .. Len(wire) - 1
        /\ \A j \in 1 .. Len(wire) - 1 : wire'[j] = IF j < i THEN wire[j] ELSE wire[j + 1]
    BY <1>0, <1>1, Removed
  <2>2. DOMAIN wire = 1 .. Len(wire) /\ Len(wire) \in Nat
    BY <1>0, LenProperties
  <2>3. ASSUME NEW j \in DOMAIN wire' PROVE \E k \in DOMAIN wire : wire'[j] = wire[k]
    <3>1. j \in DOMAIN wire /\ j + 1 \in DOMAIN wire
      BY <2>1, <2>2
    <3> QED BY <2>1, <3>1
  <2> QED BY <1>1, <2>1, <2>3 DEF Inv, Truthful
<1>2. CASE Press
  BY <1>2, PressInv
<1>3. CASE Deliver
  <2> PICK i \in Arriving :
        Receive(wire[i]) /\ wire' = RemoveAt(wire, i) /\ UNCHANGED <<presses, copies>>
    BY <1>3 DEF Deliver
  <2>1. DecoderType' /\ heardDown' \subseteq DOMAIN presses /\ heardUp' \subseteq DOMAIN presses
    BY <1>0, ReceiveType
  <2>2. UNCHANGED <<presses, copies>>
    OBVIOUS
  <2>3. wire' \in Seq(Packets) /\ \A j \in DOMAIN wire' : Truthful(wire'[j], presses')
    BY <1>0, <1>1
  <2> QED BY <2>1, <2>2, <2>3 DEF Inv, TypeOK, DecoderType
<1>4. CASE DeliverCopy
  <2> PICK i \in Arriving : Receive(wire[i])
    BY <1>4 DEF DeliverCopy
  <2>1. DecoderType' /\ heardDown' \subseteq DOMAIN presses /\ heardUp' \subseteq DOMAIN presses
    BY <1>0, ReceiveType
  <2>2. copies' \in 0 .. MaxCopies /\ presses' = presses /\ wire' = wire
    BY <1>0, <1>4 DEF DeliverCopy
  <2> QED BY <2>1, <2>2 DEF Inv, TypeOK, DecoderType, Truthful
<1>5. CASE Lose
  <2>1. PICK i \in Arriving : wire' = RemoveAt(wire, i)
    BY <1>5 DEF Lose
  <2>2. UNCHANGED <<decoder, presses, heardDown, heardUp, copies>>
    BY <1>5 DEF Lose
  <2>3. wire' \in Seq(Packets) /\ \A j \in DOMAIN wire' : Truthful(wire'[j], presses')
    BY <1>0, <1>1, <2>1, <2>2
  <2> QED BY <2>2, <2>3 DEF decoder, Inv, TypeOK
<1>6. CASE UNCHANGED vars
  BY <1>6 DEF vars, decoder, Inv, TypeOK, Truthful
<1> QED BY <1>2, <1>3, <1>4, <1>5, <1>6 DEF Next

LEMMA Invariance == Spec => []Inv
BY InitInv, StepInv, PTL DEF Spec

\* The decoder's three fields and the packets stay well-typed, and the latch is only
\* set for an event that is a digit (Rfc4733.cpp:50-53), in whatever order packets come.
THEOREM TypeCorrect == Spec => []TypeOK
BY Invariance, PTL DEF Inv

-----------------------------------------------------------------------------
(* Without overtaking *)

\* Packets are on their way in the order of the presses, the ends of each last.
Before(a, b) == a.press < b.press \/ (a.press = b.press /\ (a.end => b.end))

Sorted(s) == \A i, j \in DOMAIN s : i < j => Before(s[i], s[j])

\* No packet was heard that was sent later than pkt.
NotPassed(pkt, down, up) ==
  /\ \A r \in down \union up : r <= pkt.press
  /\ pkt.press \in up => pkt.end

Sequenced ==
  /\ Sorted(wire)
  /\ \A i \in DOMAIN wire : NotPassed(wire[i], heardDown, heardUp)

Increasing == \A i, j \in DOMAIN digits : i < j => digits[i].press < digits[j].press

DigitsTrue ==
  \A i \in DOMAIN digits :
    /\ digits[i].press \in heardUp
    /\ IsDigit(presses[digits[i].press].event)
    /\ digits[i].char = EventToChar(presses[digits[i].press].event)

LastReported == digits[Len(digits)].press

\* As long as no later press was heard than the one reported last, the decoder
\* remembers its event and duration, and that it was reported.
Latched ==
  digits # <<>> /\ (\A r \in Heard : r <= LastReported)
    => /\ emitted
       /\ lastEvent = presses[LastReported].event
       /\ lastDuration = presses[LastReported].duration

OrderInv == Inv /\ Sequenced /\ Increasing /\ DigitsTrue /\ Latched

LEMMA InitOrder == Init => OrderInv
<1> SUFFICES ASSUME Init PROVE OrderInv
  OBVIOUS
<1>1. Inv
  BY InitInv
<1>2. digits = <<>> /\ wire = <<>>
  BY DEF Init
<1>3. DOMAIN digits = {} /\ DOMAIN wire = {}
  BY <1>2
<1> QED BY <1>1, <1>2, <1>3 DEF OrderInv, Sequenced, Sorted, Increasing, DigitsTrue, Latched

\* What the decoder reports when the next packet in order comes.
LEMMA ReceiveOrder ==
  ASSUME OrderInv, NEW pkt, Truthful(pkt, presses), NotPassed(pkt, heardDown, heardUp),
         Receive(pkt), presses' = presses
  PROVE  Increasing' /\ DigitsTrue' /\ Latched'
<1> DEFINE p == pkt.press
           D == [char : ToSet(Chars), press : 1 .. MaxPresses]
<1>0. /\ pkt \in Packets /\ pkt.end \in BOOLEAN /\ p \in Nat /\ MaxPresses \in Nat
      /\ Feed(pkt) /\ p \in DOMAIN presses
      /\ pkt.event = presses[p].event
      /\ pkt.end => pkt.duration = presses[p].duration
  BY DtmfAssumption DEF Truthful, Packets, Receive
<1>1. /\ digits \in Seq(D) /\ Len(digits) \in Nat /\ DOMAIN digits = 1 .. Len(digits)
      /\ \A i \in DOMAIN digits : digits[i].press \in Nat
  <2>1. digits \in Seq(D)
    BY DEF OrderInv, Inv, TypeOK
  <2>2. Len(digits) \in Nat /\ DOMAIN digits = 1 .. Len(digits)
    BY <2>1, LenProperties
  <2>3. \A i \in DOMAIN digits : digits[i] \in D
    BY <2>1, <2>2, ElementOfSeq
  <2> QED BY <1>0, <2>1, <2>2, <2>3
\* Everything heard, and so everything reported, is of this press or of one before.
<1>2. /\ \A r \in Heard : r <= p
      /\ p \in heardUp => pkt.end = TRUE
      /\ p \in Heard' /\ heardUp \subseteq heardUp' /\ Heard \subseteq Heard'
      /\ \A r \in Heard' : r \in Heard \/ r = p
      /\ pkt.end => p \in heardUp'
  BY <1>0 DEF NotPassed, Heard, Receive
<1>3. \A i \in DOMAIN digits : digits[i].press <= p /\ digits[i].press \in heardUp
  BY <1>2 DEF OrderInv, DigitsTrue, Heard
\* Of the press itself: reported already.
<1>4. CASE digits # <<>> /\ LastReported = p
  <2>1. Len(digits) \in DOMAIN digits
    BY <1>1, <1>4
  <2>2. pkt.end = TRUE /\ IsDigit(pkt.event)
    BY <1>0, <1>2, <1>3, <1>4, <2>1 DEF LastReported, OrderInv, DigitsTrue
  <2>3. emitted /\ lastEvent = pkt.event /\ lastDuration = pkt.duration
    BY <1>0, <1>2, <1>4, <2>2 DEF OrderInv, Latched
  <2>4. pkt.duration \in Nat
    BY <1>0, DtmfAssumption DEF Packets
  <2>5. AlreadyEmitted(pkt)
    BY <2>3, <2>4 DEF AlreadyEmitted, SameEvent
  <2>6. /\ digits' = digits /\ emitted' = TRUE
        /\ lastEvent' = pkt.event /\ lastDuration' = pkt.duration
    BY <1>0, <2>2, <2>5, FeedEffect DEF Reports
  <2>7. Increasing'
    BY <2>6 DEF OrderInv, Increasing
  <2>8. DigitsTrue'
    BY <1>2, <2>6 DEF OrderInv, DigitsTrue
  <2>9. Latched'
    BY <1>0, <1>4, <2>2, <2>6 DEF Latched, LastReported
  <2> QED BY <2>7, <2>8, <2>9
\* Of a press that has not been reported.
<1>5. CASE ~(digits # <<>> /\ LastReported = p)
  <2>1. \A i \in DOMAIN digits : digits[i].press < p
    <3> TAKE i \in DOMAIN digits
    <3>1. digits # <<>> /\ Len(digits) \in DOMAIN digits /\ i <= Len(digits)
      BY <1>1
    <3>2. LastReported < p
      BY <1>0, <1>1, <1>3, <1>5, <3>1 DEF LastReported
    <3>3. i = Len(digits) \/ digits[i].press < LastReported
      BY <1>1, <3>1 DEF OrderInv, Increasing, LastReported
    <3> QED BY <1>0, <1>1, <3>1, <3>2, <3>3 DEF LastReported
  <2>2. CASE Reports(pkt)
    <3>1. /\ emitted' = TRUE /\ lastEvent' = pkt.event /\ lastDuration' = pkt.duration
          /\ digits' = Append(digits, Digit(pkt)) /\ pkt.end = TRUE /\ IsDigit(pkt.event)
      BY <1>0, <2>2, FeedEffect DEF Reports
    <3>2. Digit(pkt) \in D /\ Digit(pkt).press = p /\ Digit(pkt).char = EventToChar(pkt.event)
      BY <1>0, <3>1, CharOfDigit DEF Digit, Packets
    <3>3. /\ Len(digits') = Len(digits) + 1 /\ DOMAIN digits' = 1 .. Len(digits) + 1
          /\ digits'[Len(digits) + 1] = Digit(pkt)
          /\ \A i \in DOMAIN digits : digits'[i] = digits[i]
      BY <1>1, <3>1, <3>2
    <3>4. \A i \in DOMAIN digits' : i \in DOMAIN digits \/ i = Len(digits) + 1
      BY <1>1, <3>3
    <3>5. Increasing'
      <4> SUFFICES ASSUME NEW i \in DOMAIN digits', NEW j \in DOMAIN digits', i < j
                   PROVE  digits'[i].press < digits'[j].press
        BY DEF Increasing
      <4>1. i \in DOMAIN digits
        BY <1>1, <3>3
      <4>2. CASE j \in DOMAIN digits
        BY <3>3, <4>1, <4>2 DEF OrderInv, Increasing
      <4>3. CASE j = Len(digits) + 1
        BY <2>1, <3>2, <3>3, <4>1, <4>3
      <4> QED BY <3>4, <4>2, <4>3
    <3>6. DigitsTrue'
      <4> SUFFICES ASSUME NEW i \in DOMAIN digits'
                   PROVE  /\ digits'[i].press \in heardUp'
                          /\ IsDigit(presses[digits'[i].press].event)
                          /\ digits'[i].char = EventToChar(presses[digits'[i].press].event)
        BY DEF DigitsTrue
      <4>1. CASE i \in DOMAIN digits
        BY <1>2, <3>3, <4>1 DEF OrderInv, DigitsTrue
      <4>2. CASE i = Len(digits) + 1
        BY <1>0, <1>2, <3>1, <3>2, <3>3, <4>2
      <4> QED BY <3>4, <4>1, <4>2
    <3>7. LastReported' = p
      BY <3>2, <3>3 DEF LastReported
    <3>8. Latched'
      BY <1>0, <3>1, <3>7 DEF Latched
    <3> QED BY <3>5, <3>6, <3>8
  <2>3. CASE ~Reports(pkt)
    <3>1. digits' = digits
      BY <1>0, <2>3, FeedEffect
    <3>2. Increasing'
      BY <3>1 DEF OrderInv, Increasing
    <3>3. DigitsTrue'
      BY <1>2, <3>1 DEF OrderInv, DigitsTrue
    <3>4. Latched'
      <4> SUFFICES ASSUME digits # <<>>, \A r \in Heard' : r <= LastReported
                   PROVE  FALSE
        BY <3>1 DEF Latched, LastReported
      <4>1. Len(digits) \in DOMAIN digits
        BY <1>1
      <4>2. LastReported < p /\ LastReported \in Nat
        BY <1>1, <2>1, <4>1 DEF LastReported
      <4>3. p <= LastReported
        BY <1>2
      <4> QED BY <1>0, <4>2, <4>3
    <3> QED BY <3>2, <3>3, <3>4
  <2> QED BY <2>2, <2>3
<1> QED BY <1>4, <1>5

\* Once the first packet was heard, none of those behind it has been passed.
LEMMA ReceiveSequenced ==
  ASSUME OrderInv, 1 \in DOMAIN wire, Receive(wire[1])
  PROVE  \A i \in DOMAIN wire : NotPassed(wire[i], heardDown', heardUp')
<1> DEFINE pkt == wire[1]
<1>1. Truthful(pkt, presses) /\ NotPassed(pkt, heardDown, heardUp)
  BY DEF OrderInv, Inv, Sequenced
<1> SUFFICES ASSUME NEW i \in DOMAIN wire
             PROVE  NotPassed(wire[i], heardDown', heardUp')
  OBVIOUS
<1>2. Truthful(wire[i], presses) /\ NotPassed(wire[i], heardDown, heardUp)
  BY DEF OrderInv, Inv, Sequenced
<1>3. /\ pkt.press \in Nat /\ wire[i].press \in Nat
      /\ pkt.end \in BOOLEAN /\ wire[i].end \in BOOLEAN
  BY <1>1, <1>2, DtmfAssumption DEF Truthful, Packets
<1>4. i = 1 \/ Before(pkt, wire[i])
  <2>1. DOMAIN wire = 1 .. Len(wire) /\ Len(wire) \in Nat
    BY LenProperties DEF OrderInv, Inv, TypeOK
  <2>2. i = 1 \/ 1 < i
    BY <2>1
  <2> QED BY <2>2 DEF OrderInv, Sequenced, Sorted
<1>5. pkt.press <= wire[i].press
  BY <1>3, <1>4 DEF Before
<1>6. /\ heardDown' = IF pkt.end THEN heardDown ELSE heardDown \union {pkt.press}
      /\ heardUp' = IF pkt.end THEN heardUp \union {pkt.press} ELSE heardUp
  BY DEF Receive
<1> HIDE DEF pkt
<1>7. \A r \in heardDown' \union heardUp' : r <= wire[i].press
  BY <1>2, <1>5, <1>6 DEF NotPassed
<1>8. wire[i].press \in heardUp' => wire[i].end
  <2>1. CASE wire[i].press \in heardUp
    BY <1>2, <2>1 DEF NotPassed
  <2>2. CASE wire[i].press \notin heardUp /\ wire[i].press \in heardUp'
    <3>1. pkt.end /\ wire[i].press = pkt.press
      BY <1>6, <2>2
    <3> QED BY <1>3, <1>4, <3>1 DEF Before, pkt
  <2> QED BY <2>1, <2>2
<1> QED BY <1>7, <1>8 DEF NotPassed

LEMMA PressSequenced ==
  ASSUME OrderInv, Press
  PROVE  Sequenced'
<1> PICK press, n, train : Pressed(press, n, train)
  BY PressEffect DEF OrderInv
<1> DEFINE m == Len(wire)
<1>1. /\ wire \in Seq(Packets) /\ train \in Seq(Packets) /\ n \in Nat
      /\ Len(presses) \in Nat /\ DOMAIN presses = 1 .. Len(presses)
      /\ heardDown \subseteq DOMAIN presses /\ heardUp \subseteq DOMAIN presses
  BY LenProperties DEF Pressed, OrderInv, Inv, TypeOK
<1>2. /\ m \in Nat /\ Len(train) \in Nat
      /\ DOMAIN wire = 1 .. m /\ DOMAIN train = 1 .. Len(train)
  BY <1>1, LenProperties
<1>3. /\ DOMAIN wire' = 1 .. m + Len(train)
      /\ \A i \in 1 .. m : wire'[i] = wire[i]
      /\ \A i \in 1 .. m + Len(train) : i > m => i - m \in 1 .. Len(train) /\ wire'[i] = train[i - m]
  BY <1>1, Concatenated DEF Pressed
<1> HIDE DEF m
<1>4. ASSUME NEW i \in DOMAIN wire', i <= m
      PROVE  /\ i \in DOMAIN wire /\ wire'[i] = wire[i]
             /\ wire'[i].press \in Nat /\ wire'[i].press <= Len(presses)
  <2>1. i \in DOMAIN wire /\ wire'[i] = wire[i]
    BY <1>2, <1>3, <1>4
  <2>2. wire[i].press \in 1 .. Len(presses)
    BY <1>1, <2>1 DEF OrderInv, Inv, Truthful
  <2> QED BY <1>1, <2>1, <2>2
<1>5. ASSUME NEW i \in DOMAIN wire', i > m
      PROVE  /\ wire'[i].press = Len(presses) + 1
             /\ i - m <= n => wire'[i].end = FALSE
             /\ i - m > n => wire'[i].end = TRUE
  <2>1. i - m \in DOMAIN train /\ wire'[i] = train[i - m]
    BY <1>2, <1>3, <1>5
  <2> QED BY <2>1 DEF Pressed
<1>6. Sorted(wire')
  <2> SUFFICES ASSUME NEW i \in DOMAIN wire', NEW j \in DOMAIN wire', i < j
               PROVE  Before(wire'[i], wire'[j])
    BY DEF Sorted
  <2>0. i \in Nat /\ j \in Nat
    BY <1>3
  <2>1. CASE j <= m
    <3>1. i <= m
      BY <1>2, <2>0, <2>1
    <3>2. wire'[i] = wire[i] /\ wire'[j] = wire[j] /\ i \in DOMAIN wire /\ j \in DOMAIN wire
      BY <1>4, <2>1, <3>1
    <3> QED BY <3>2 DEF OrderInv, Sequenced, Sorted
  <2>2. CASE i <= m /\ j > m
    <3>1. wire'[i].press \in Nat /\ wire'[i].press <= Len(presses)
      BY <1>4, <2>2
    <3>2. wire'[j].press = Len(presses) + 1
      BY <1>5, <2>2
    <3>3. wire'[i].press < wire'[j].press
      BY <1>1, <3>1, <3>2
    <3> QED BY <3>3 DEF Before
  <2>3. CASE i > m
    <3>1. j > m
      BY <1>2, <2>0, <2>3
    <3>2. wire'[i].press = Len(presses) + 1 /\ wire'[j].press = Len(presses) + 1
      BY <1>5, <2>3, <3>1
    <3>3. i - m <= n \/ (i - m > n /\ j - m > n)
      BY <1>1, <1>2, <2>0
    <3>4. wire'[i].end = FALSE \/ wire'[j].end = TRUE
      BY <1>5, <2>3, <3>1, <3>3
    <3> QED BY <3>2, <3>4 DEF Before
  <2> QED BY <1>2, <2>0, <2>1, <2>2, <2>3
<1>7. ASSUME NEW i \in DOMAIN wire'
      PROVE  NotPassed(wire'[i], heardDown, heardUp)
  <2>1. CASE i <= m
    <3>1. i \in DOMAIN wire /\ wire'[i] = wire[i]
      BY <1>4, <2>1
    <3> QED BY <3>1 DEF OrderInv, Sequenced
  <2>2. CASE i > m
    <3>1. wire'[i].press = Len(presses) + 1
      BY <1>5, <2>2
    <3> QED BY <1>1, <3>1 DEF NotPassed
  <2> QED BY <1>2, <1>3, <2>1, <2>2
<1>8. heardDown' = heardDown /\ heardUp' = heardUp
  BY DEF Pressed
<1> QED BY <1>6, <1>7, <1>8 DEF Sequenced

\* The digits and what was heard do not depend on presses that are new.
LEMMA PressOrder ==
  ASSUME OrderInv, Press
  PROVE  Increasing' /\ DigitsTrue' /\ Latched'
<1> PICK press, n, train : Pressed(press, n, train)
  BY PressEffect DEF OrderInv
<1>1. UNCHANGED <<lastEvent, emitted, lastDuration, digits, heardDown, heardUp>>
  BY DEF Pressed, decoder
<1>2. \A p \in DOMAIN presses : presses'[p] = presses[p]
  BY DEF Pressed, OrderInv, Inv, TypeOK
<1>3. \A i \in DOMAIN digits : digits[i].press \in DOMAIN presses
  BY DEF OrderInv, DigitsTrue, Inv, TypeOK
<1>4. Increasing'
  BY <1>1 DEF OrderInv, Increasing
<1>5. DigitsTrue'
  BY <1>1, <1>2, <1>3 DEF OrderInv, DigitsTrue
<1>6. Latched'
  <2>1. digits # <<>> => Len(digits) \in DOMAIN digits
    BY DEF OrderInv, Inv, TypeOK
  <2>2. digits # <<>> => presses'[LastReported] = presses[LastReported]
    BY <1>2, <1>3, <2>1 DEF LastReported
  <2>3. LastReported' = LastReported /\ Heard' = Heard
    BY <1>1 DEF LastReported, Heard
  <2> QED BY <1>1, <2>2, <2>3 DEF OrderInv, Latched
<1> QED BY <1>4, <1>5, <1>6

\* Taking the first packet from the wire leaves the rest in order.
LEMMA TakenSorted ==
  ASSUME wire \in Seq(Packets), 1 \in DOMAIN wire, Sorted(wire), wire' = RemoveAt(wire, 1)
  PROVE  /\ Sorted(wire')
         /\ \A i \in DOMAIN wire' : i + 1 \in DOMAIN wire /\ wire'[i] = wire[i + 1]
<1>1. Len(wire) \in Nat /\ DOMAIN wire = 1 .. Len(wire)
  BY LenProperties
<1>2. /\ DOMAIN wire' = 1 .. Len(wire) - 1
      /\ \A j \in 1 .. Len(wire) - 1 : wire'[j] = IF j < 1 THEN wire[j] ELSE wire[j + 1]
  BY Removed
<1>3. \A i \in DOMAIN wire' : i + 1 \in DOMAIN wire /\ wire'[i] = wire[i + 1]
  BY <1>1, <1>2
<1>4. \A i, j \in DOMAIN wire' : i < j => i + 1 < j + 1
  BY <1>1, <1>2
<1> QED BY <1>3, <1>4 DEF Sorted

LEMMA StepOrder == ~Reorders /\ OrderInv /\ [Next]_vars => OrderInv'
<1> SUFFICES ASSUME ~Reorders, OrderInv, [Next]_vars PROVE OrderInv'
  OBVIOUS
<1>0. Inv'
  BY StepInv DEF OrderInv
<1>1. /\ wire \in Seq(Packets) /\ Sorted(wire)
      /\ \A i \in Arriving : i = 1 /\ i \in DOMAIN wire
  BY DEF Arriving, OrderInv, Inv, TypeOK, Sequenced
<1>2. 1 \in DOMAIN wire => Truthful(wire[1], presses) /\ NotPassed(wire[1], heardDown, heardUp)
  BY DEF OrderInv, Inv, Sequenced
<1>3. CASE Press
  BY <1>0, <1>3, PressSequenced, PressOrder DEF OrderInv
<1>4. CASE Deliver
  <2>1. /\ 1 \in DOMAIN wire /\ Receive(wire[1])
        /\ wire' = RemoveAt(wire, 1) /\ presses' = presses
    BY <1>1, <1>4 DEF Deliver
  <2>2. Increasing' /\ DigitsTrue' /\ Latched'
    BY <1>2, <2>1, ReceiveOrder
  <2>3. Sequenced'
    BY <1>1, <2>1, ReceiveSequenced, TakenSorted DEF Sequenced
  <2> QED BY <1>0, <2>2, <2>3 DEF OrderInv
<1>5. CASE DeliverCopy
  <2>1. 1 \in DOMAIN wire /\ Receive(wire[1]) /\ wire' = wire /\ presses' = presses
    BY <1>1, <1>5 DEF DeliverCopy
  <2>2. Increasing' /\ DigitsTrue' /\ Latched'
    BY <1>2, <2>1, ReceiveOrder
  <2>3. Sequenced'
    BY <1>1, <2>1, ReceiveSequenced DEF Sequenced
  <2> QED BY <1>0, <2>2, <2>3 DEF OrderInv
<1>6. CASE Lose
  <2>1. /\ 1 \in DOMAIN wire /\ wire' = RemoveAt(wire, 1)
        /\ UNCHANGED <<lastEvent, emitted, lastDuration, digits, presses, heardDown, heardUp>>
    BY <1>1, <1>6 DEF Lose, decoder
  <2>2. Sequenced'
    BY <1>1, <2>1, TakenSorted DEF Sequenced, OrderInv
  <2>3. Increasing' /\ DigitsTrue' /\ Latched'
    BY <2>1 DEF OrderInv, Increasing, DigitsTrue, Latched, LastReported, Heard
  <2> QED BY <1>0, <2>2, <2>3 DEF OrderInv
<1>7. CASE UNCHANGED vars
  BY <1>0, <1>7 DEF vars, decoder, OrderInv, Sequenced, Increasing, DigitsTrue, Latched,
                    LastReported, Heard
<1> QED BY <1>3, <1>4, <1>5, <1>6, <1>7 DEF Next

LEMMA OrderInvariance ==
  ASSUME ~Reorders
  PROVE  Spec => []OrderInv
<1>1. OrderInv /\ [Next]_vars => OrderInv'
  BY StepOrder
<1> QED BY <1>1, InitOrder, PTL DEF Spec

\* Rfc4733.h:27: a key press is reported once, however many copies of its end come.
THEOREM PressReportedOnce ==
  ASSUME ~Reorders
  PROVE  Spec => []OncePerPress
<1>1. OrderInv => OncePerPress
  <2> SUFFICES ASSUME OrderInv, NEW i \in DOMAIN digits, NEW j \in DOMAIN digits,
                      digits[i].press = digits[j].press
               PROVE  i = j
    BY DEF OncePerPress
  <2>1. digits \in Seq([char : ToSet(Chars), press : 1 .. MaxPresses])
    BY DEF OrderInv, Inv, TypeOK
  <2>2. i \in Nat /\ j \in Nat
    BY <2>1, LenProperties
  <2>3. digits[i].press \in Nat
    BY DEF OrderInv, Inv, TypeOK, DigitsTrue
  <2>4. i < j => digits[i].press < digits[j].press
    BY DEF OrderInv, Increasing
  <2>5. j < i => digits[j].press < digits[i].press
    BY DEF OrderInv, Increasing
  <2> QED BY <2>2, <2>3, <2>4, <2>5
<1> QED BY <1>1, OrderInvariance, PTL

\* What feed returns is what was typed, in the order it was typed.
THEOREM DigitsAsTyped ==
  ASSUME ~Reorders
  PROVE  Spec => []TypedInOrder
<1>1. OrderInv => TypedInOrder
  <2> SUFFICES ASSUME OrderInv, NEW i \in DOMAIN digits, i > 1
               PROVE  digits[i - 1].press < digits[i].press
    BY DEF TypedInOrder, OrderInv, DigitsTrue
  <2>1. i - 1 \in DOMAIN digits /\ i - 1 < i
    BY DEF OrderInv, Inv, TypeOK
  <2> QED BY <2>1 DEF OrderInv, Increasing
<1> QED BY <1>1, OrderInvariance, PTL

-----------------------------------------------------------------------------
(* What is missed *)

\* The decoder remembers the last packet that was heard, of the last press heard.
LastHeard ==
  \/ Heard = {} /\ emitted = FALSE
  \/ \E q \in Heard : /\ \A r \in Heard : r <= q
                      /\ lastEvent = presses[q].event
                      /\ q \in heardUp => lastDuration = presses[q].duration
                      /\ q \notin heardUp => emitted = FALSE

DetectInv == OrderInv /\ LastHeard /\ PressesDetected

LEMMA ReceiveDetects ==
  ASSUME DetectInv, NEW pkt, Truthful(pkt, presses), NotPassed(pkt, heardDown, heardUp),
         Receive(pkt), presses' = presses
  PROVE  LastHeard' /\ PressesDetected'
<1> DEFINE p == pkt.press
           D == [char : ToSet(Chars), press : 1 .. MaxPresses]
<1>0. /\ pkt \in Packets /\ pkt.end \in BOOLEAN /\ p \in Nat
      /\ Feed(pkt) /\ p \in DOMAIN presses
      /\ pkt.event = presses[p].event
      /\ pkt.end => pkt.duration = presses[p].duration
  BY DtmfAssumption DEF Truthful, Packets, Receive
<1>1. /\ heardDown \subseteq Nat /\ heardUp \subseteq Nat /\ Heard \subseteq DOMAIN presses
      /\ \A q \in DOMAIN presses : presses[q].duration \in Nat /\ presses[q].duration > 0
  <2>1. presses \in Seq([event : Events, duration : 1 .. MaxDuration])
    BY DEF DetectInv, OrderInv, Inv, TypeOK
  <2>2. DOMAIN presses = 1 .. Len(presses) /\ Len(presses) \in Nat
    BY <2>1, LenProperties
  <2>3. \A q \in DOMAIN presses : presses[q] \in [event : Events, duration : 1 .. MaxDuration]
    BY <2>1, <2>2, ElementOfSeq
  <2>4. heardDown \subseteq DOMAIN presses /\ heardUp \subseteq DOMAIN presses
    BY DEF DetectInv, OrderInv, Inv, TypeOK
  <2> QED BY <2>2, <2>3, <2>4, DtmfAssumption DEF Heard
<1>2. /\ \A r \in Heard : r <= p
      /\ p \in heardUp => pkt.end
      /\ heardDown' = IF pkt.end THEN heardDown ELSE heardDown \union {p}
      /\ heardUp' = IF pkt.end THEN heardUp \union {p} ELSE heardUp
      /\ Heard' = Heard \union {p}
  BY <1>0 DEF NotPassed, Heard, Receive
<1>3. LastHeard'
  <2>1. lastEvent' = pkt.event /\ lastDuration' = pkt.duration
    BY <1>0, FeedEffect
  <2>2. p \in heardUp' => lastDuration' = presses[p].duration
    BY <1>0, <1>2, <2>1
  <2>3. p \notin heardUp' => emitted' = FALSE
    BY <1>0, <1>2, FeedEffect
  <2>4. p \in Heard' /\ \A r \in Heard' : r <= p
    BY <1>0, <1>2
  <2> QED BY <1>0, <2>1, <2>2, <2>3, <2>4 DEF LastHeard
<1>4. /\ digits \in Seq(D) /\ Len(digits) \in Nat /\ DOMAIN digits = 1 .. Len(digits)
  BY LenProperties DEF DetectInv, OrderInv, Inv, TypeOK
\* Digits are only added.
<1>5. \A i \in DOMAIN digits : i \in DOMAIN digits' /\ digits'[i] = digits[i]
  <2>1. CASE Reports(pkt)
    <3>1. digits' = Append(digits, Digit(pkt))
      BY <1>0, <2>1, FeedEffect
    <3> QED BY <1>4, <3>1
  <2>2. CASE ~Reports(pkt)
    <3>1. digits' = digits
      BY <1>0, <2>2, FeedEffect
    <3> QED BY <3>1
  <2> QED BY <2>1, <2>2
<1>6. PressesDetected'
  <2> SUFFICES ASSUME NEW x \in heardUp', IsDigit(presses[x].event), ~LooksLikeLast(x)'
               PROVE  \E i \in DOMAIN digits' : digits'[i].press = x
    BY DEF PressesDetected
  <2>1. CASE x \in heardUp
    <3>1. x \in Nat /\ x <= p
      BY <1>1, <1>2, <2>1 DEF Heard
    <3>2. Heard' \cap (1 .. x - 1) = Heard \cap (1 .. x - 1)
      BY <1>0, <1>2, <3>1
    <3>3. x \notin heardDown => x \notin heardDown'
      BY <1>2, <2>1
    <3>4. ~LooksLikeLast(x)
      BY <3>2, <3>3 DEF LooksLikeLast
    <3>5. PICK i \in DOMAIN digits : digits[i].press = x
      BY <2>1, <3>4 DEF DetectInv, PressesDetected
    <3> QED BY <1>5, <3>5
  <2>2. CASE x \notin heardUp
    <3>1. x = p /\ pkt.end = TRUE /\ heardDown' = heardDown
      BY <1>0, <1>2, <2>2
    <3>2. Heard' \cap (1 .. p - 1) = Heard \cap (1 .. p - 1)
      BY <1>0, <1>2
    <3>3. ~AlreadyEmitted(pkt)
      <4> SUFFICES ASSUME AlreadyEmitted(pkt) PROVE FALSE
        OBVIOUS
      <4>1. emitted /\ lastEvent = pkt.event
            /\ ~(lastDuration > 0 /\ pkt.duration < lastDuration)
        BY DEF AlreadyEmitted, SameEvent
      <4>2. PICK q \in Heard :
              /\ \A r \in Heard : r <= q
              /\ lastEvent = presses[q].event
              /\ q \in heardUp /\ lastDuration = presses[q].duration
        BY <4>1 DEF DetectInv, LastHeard
      <4>3. q \in Nat /\ q > 0 /\ q <= p /\ q # p
        <5>1. q \in DOMAIN presses /\ DOMAIN presses = 1 .. Len(presses)
          BY <1>1, LenProperties DEF DetectInv, OrderInv, Inv, TypeOK
        <5> QED BY <1>2, <2>2, <3>1, <4>2, <5>1
      <4>4. q \in Heard' \cap (1 .. p - 1)
        BY <1>0, <3>2, <4>3
      <4>5. p \notin heardDown'
        BY <1>0, <3>1, <4>2, <4>3 DEF Heard
      <4>6. \A r \in Heard' \cap (1 .. p - 1) : r <= q
        BY <3>2, <4>2
      <4>7. presses[q].event = presses[p].event
        BY <1>0, <4>1, <4>2
      <4>8. presses[q].duration <= presses[p].duration
        BY <1>0, <1>1, <3>1, <4>1, <4>2
      <4> QED BY <3>1, <4>4, <4>5, <4>6, <4>7, <4>8 DEF LooksLikeLast
    <3>4. digits' = Append(digits, Digit(pkt))
      BY <1>0, <3>1, <3>3, FeedEffect DEF Reports
    <3>5. Len(digits) + 1 \in DOMAIN digits' /\ digits'[Len(digits) + 1] = Digit(pkt)
      BY <1>4, <3>4
    <3>6. Digit(pkt).press = x
      BY <3>1 DEF Digit
    <3> QED BY <3>5, <3>6
  <2> QED BY <2>1, <2>2
<1> QED BY <1>3, <1>6

\* Where nothing is heard and the presses heard keep what they are, nothing changes.
LEMMA SilenceDetects ==
  ASSUME DetectInv, UNCHANGED <<lastEvent, emitted, lastDuration, digits, heardDown, heardUp>>,
         \A p \in DOMAIN presses : presses'[p] = presses[p]
  PROVE  LastHeard' /\ PressesDetected'
<1>1. heardDown \subseteq DOMAIN presses /\ heardUp \subseteq DOMAIN presses
  BY DEF DetectInv, OrderInv, Inv, TypeOK
<1>2. Heard' = Heard /\ Heard \subseteq DOMAIN presses
  BY <1>1 DEF Heard
<1>3. LastHeard'
  BY <1>1, <1>2 DEF DetectInv, LastHeard
<1>4. ASSUME NEW p \in heardUp PROVE LooksLikeLast(p)' <=> LooksLikeLast(p)
  BY <1>1, <1>2 DEF LooksLikeLast
<1>5. PressesDetected'
  BY <1>1, <1>4 DEF DetectInv, PressesDetected
<1> QED BY <1>3, <1>5

LEMMA StepDetect == ~Reorders /\ DetectInv /\ [Next]_vars => DetectInv'
<1> SUFFICES ASSUME ~Reorders, DetectInv, [Next]_vars PROVE DetectInv'
  OBVIOUS
<1>0. OrderInv'
  BY StepOrder DEF DetectInv
<1>1. /\ \A i \in Arriving : i = 1 /\ i \in DOMAIN wire
      /\ 1 \in DOMAIN wire => Truthful(wire[1], presses) /\ NotPassed(wire[1], heardDown, heardUp)
  BY DEF Arriving, DetectInv, OrderInv, Inv, Sequenced
<1>2. CASE Press
  <2> PICK press, n, train : Pressed(press, n, train)
    BY <1>2, PressEffect DEF DetectInv, OrderInv
  <2>1. \A p \in DOMAIN presses : presses'[p] = presses[p]
    BY DEF Pressed, DetectInv, OrderInv, Inv, TypeOK
  <2>2. UNCHANGED <<lastEvent, emitted, lastDuration, digits, heardDown, heardUp>>
    BY DEF Pressed, decoder
  <2> QED BY <1>0, <2>1, <2>2, SilenceDetects DEF DetectInv
<1>3. CASE Deliver \/ DeliverCopy
  <2>1. 1 \in DOMAIN wire /\ Receive(wire[1]) /\ presses' = presses
    BY <1>1, <1>3 DEF Deliver, DeliverCopy
  <2> QED BY <1>0, <1>1, <2>1, ReceiveDetects DEF DetectInv
<1>4. CASE Lose \/ UNCHANGED vars
  <2>1. UNCHANGED <<lastEvent, emitted, lastDuration, digits, heardDown, heardUp, presses>>
    BY <1>4 DEF Lose, vars, decoder
  <2> QED BY <1>0, <2>1, SilenceDetects DEF DetectInv
<1> QED BY <1>2, <1>3, <1>4 DEF Next

\* Rfc4733.h:28-29: a press whose release is heard is reported, unless it looks in
\* every way like more of the press before.
THEOREM PressNotMissed ==
  ASSUME ~Reorders
  PROVE  Spec => []PressesDetected
<1>1. Init => DetectInv
  BY InitOrder DEF Init, DetectInv, LastHeard, PressesDetected, Heard
<1>2. DetectInv /\ [Next]_vars => DetectInv'
  BY StepDetect
<1>3. DetectInv => PressesDetected
  BY DEF DetectInv
<1> QED BY <1>1, <1>2, <1>3, PTL DEF Spec
=============================================================================
