----------------------------- MODULE DtmfDecoder -----------------------------
(***************************************************************************)
(* sipdemo::DtmfDecoder (Rfc4733.h, Rfc4733.cpp) behind the link its       *)
(* packets come over.  recvLoop feeds it every telephone-event packet in   *)
(* the order of arrival: no sequence number is looked at, no jitter buffer *)
(* sits in between.                                                        *)
(*                                                                         *)
(* The keypad and the link are the environment: a press sends packets with *)
(* growing durations while the key is down and EndCopies packets with the  *)
(* end bit when it is released (RFC 4733); the link loses and duplicates   *)
(* packets, and lets one overtake another when Reorders.  Payloads shorter *)
(* than four bytes, which feed ignores, are left out.                      *)
(***************************************************************************)
EXTENDS Naturals, Sequences, SequencesExt

CONSTANTS
  Events,             \* event codes of the keys that are pressed
  EndCopies,          \* packets with the end bit per press
  Reorders,           \* packets overtake each other
  MaxPresses, MaxDuration, MaxCopies   \* bounds: presses, duration, packets sent twice

ASSUME DtmfAssumption ==
  /\ Events \subseteq 0 .. 255
  /\ EndCopies \in Nat \ {0}
  /\ Reorders \in BOOLEAN
  /\ {MaxPresses, MaxDuration, MaxCopies} \subseteq Nat

VARIABLES
  lastEvent, emitted, lastDuration,   \* the decoder; emitted is emittedForCurrent_
  digits,             \* the characters feed returned, each with the press of its packet
  presses, wire,      \* the presses so far, and the packets on their way
  heardDown, heardUp, \* presses of which a packet without, with the end bit was fed
  copies

decoder == <<lastEvent, emitted, lastDuration, digits>>
vars    == <<decoder, presses, wire, heardDown, heardUp, copies>>

NoEvent == 256        \* lastEvent_ = -1: differs from every event code

Init ==
  /\ lastEvent = NoEvent /\ emitted = FALSE /\ lastDuration = 0
  /\ digits = <<>>
  /\ presses = <<>> /\ wire = <<>>
  /\ heardDown = {} /\ heardUp = {} /\ copies = 0

-----------------------------------------------------------------------------
(* feed *)

Chars == <<"0", "1", "2", "3", "4", "5", "6", "7", "8", "9", "*", "#", "A", "B", "C", "D">>

IsDigit(event) == event \in 0 .. 15

\* dtmfEventToChar, of the events it knows.
EventToChar(event) == Chars[event + 1]

SameEvent(pkt) == pkt.event = lastEvent

\* A packet without the end bit: the next end is that of a new press.
KeyDown(pkt) == emitted' = FALSE /\ UNCHANGED digits

\* Mutants of AlreadyEmitted: the duration is not looked at; the latch is not.
AlreadyEmitted_AnyDuration(pkt) == SameEvent(pkt) /\ emitted
AlreadyEmitted_Never(pkt) == FALSE

\* An end of the press reported last: same event, and no restart of the duration.
AlreadyEmitted(pkt) ==
  SameEvent(pkt) /\ emitted /\ ~(lastDuration > 0 /\ pkt.duration < lastDuration)

\* Mutant of KeyUp: the digit of the previous event is reported.
KeyUp_LastEvent(pkt) ==
  IF AlreadyEmitted(pkt) \/ ~IsDigit(pkt.event)
    THEN emitted' = AlreadyEmitted(pkt) /\ UNCHANGED digits
    ELSE /\ emitted' = TRUE
         /\ digits' = Append(digits, [char |-> EventToChar(IF IsDigit(lastEvent) THEN lastEvent ELSE pkt.event),
                                      press |-> pkt.press])

KeyUp(pkt) ==
  IF AlreadyEmitted(pkt) \/ ~IsDigit(pkt.event)
    THEN emitted' = AlreadyEmitted(pkt) /\ UNCHANGED digits
    ELSE /\ emitted' = TRUE
         /\ digits' = Append(digits, [char |-> EventToChar(pkt.event), press |-> pkt.press])

Feed(pkt) ==
  /\ lastEvent' = pkt.event
  /\ lastDuration' = pkt.duration
  /\ IF pkt.end THEN KeyUp(pkt) ELSE KeyDown(pkt)

-----------------------------------------------------------------------------
(* The keypad and the link *)

\* The packets of one press, numbered p, reported n times while the key is down.
Train(p, event, duration, n) ==
  LET packet(end, d) == [event |-> event, end |-> end, duration |-> d, press |-> p]
  IN  [i \in 1 .. n |-> packet(FALSE, i)] \o [i \in 1 .. EndCopies |-> packet(TRUE, duration)]

Press ==
  /\ Len(presses) < MaxPresses
  /\ \E event \in Events, duration \in 1 .. MaxDuration :
       \E n \in 0 .. duration - 1 :
         /\ presses' = Append(presses, [event |-> event, duration |-> duration])
         /\ wire' = wire \o Train(Len(presses) + 1, event, duration, n)
  /\ UNCHANGED <<decoder, heardDown, heardUp, copies>>

Arriving == IF Reorders THEN DOMAIN wire ELSE DOMAIN wire \cap {1}

Receive(pkt) ==
  /\ Feed(pkt)
  /\ heardDown' = IF pkt.end THEN heardDown ELSE heardDown \union {pkt.press}
  /\ heardUp' = IF pkt.end THEN heardUp \union {pkt.press} ELSE heardUp

Deliver ==
  \E i \in Arriving :
    /\ Receive(wire[i])
    /\ wire' = RemoveAt(wire, i)
    /\ UNCHANGED <<presses, copies>>

DeliverCopy ==
  /\ copies < MaxCopies
  /\ \E i \in Arriving : Receive(wire[i])
  /\ copies' = copies + 1
  /\ UNCHANGED <<presses, wire>>

Lose ==
  /\ \E i \in Arriving : wire' = RemoveAt(wire, i)
  /\ UNCHANGED <<decoder, presses, heardDown, heardUp, copies>>

Next == Press \/ Deliver \/ DeliverCopy \/ Lose

Spec == Init /\ [][Next]_vars

-----------------------------------------------------------------------------
Packets == [event : Events, end : BOOLEAN, duration : 1 .. MaxDuration, press : 1 .. MaxPresses]

TypeOK ==
  /\ lastEvent \in Events \union {NoEvent}
  /\ emitted \in BOOLEAN /\ (emitted => IsDigit(lastEvent))
  /\ lastDuration \in 0 .. MaxDuration
  /\ digits \in Seq([char : ToSet(Chars), press : 1 .. MaxPresses])
  /\ presses \in Seq([event : Events, duration : 1 .. MaxDuration])
  /\ wire \in Seq(Packets)
  /\ heardDown \subseteq DOMAIN presses /\ heardUp \subseteq DOMAIN presses
  /\ copies \in 0 .. MaxCopies

\* Rfc4733.h:27 "emits once per key *press*": no press is reported twice, although
\* its end is sent several times.
OncePerPress ==
  \A i, j \in DOMAIN digits : digits[i].press = digits[j].press => i = j

\* What is reported is what was typed: each digit is that of its press, presses
\* are reported in the order they were made, and none before its release arrived.
TypedInOrder ==
  \A i \in DOMAIN digits :
    /\ digits[i].press \in heardUp
    /\ IsDigit(presses[digits[i].press].event)
    /\ digits[i].char = EventToChar(presses[digits[i].press].event)
    /\ i > 1 => digits[i - 1].press < digits[i].press

Heard == heardDown \union heardUp

\* The press heard before p was of the same key, and p gave neither of the two signs
\* of a new press: a packet without the end bit, or a shorter duration.
LooksLikeLast(p) ==
  /\ p \notin heardDown
  /\ \E q \in Heard \cap 1 .. p - 1 :
       /\ \A r \in Heard \cap 1 .. p - 1 : r <= q
       /\ presses[q].event = presses[p].event
       /\ presses[q].duration <= presses[p].duration

\* Rfc4733.h:28-29 "pressing the same digit again is a new press (detected via a
\* non-end packet or a duration restart)": a press whose release arrives is reported
\* unless it bears neither sign, and it is missed for no other reason.
PressesDetected ==
  \A p \in heardUp :
    IsDigit(presses[p].event) /\ ~LooksLikeLast(p)
      => \E i \in DOMAIN digits : digits[i].press = p
=============================================================================
