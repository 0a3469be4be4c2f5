---------------------------- MODULE JitterBuffer ----------------------------
(***************************************************************************)
(* sipdemo::JitterBuffer (JitterBuffer.h, JitterBuffer.cpp).               *)
(*                                                                         *)
(* A queued packet is represented by its key, the extended sequence number *)
(* that std::map buf_ stores it under; its payload plays no part.  Each    *)
(* call of insert, pop and reset is one step: the class has no lock, and   *)
(* this module is the object used by one thread at a time.                 *)
(***************************************************************************)
EXTENDS SeqArith, FiniteSets, FiniteSetsExt

CONSTANTS
  TargetDepth,        \* Config::targetDepth
  Capacity,           \* Config::capacity
  MaxPackets          \* bound of the runs on the calls of insert

ASSUME ConfigAssumption == /\ TargetDepth \in Nat
                           /\ Capacity \in Nat
                           /\ MaxPackets \in Nat

VARIABLES
  buf,                \* keys of buf_
  started, primed,
  highestExt,         \* largest extended sequence number seen
  playoutExt,         \* next one to emit
  received, lost, reordered, lateDiscarded, overflowDropped,    \* stats_
  firstExt,           \* history: key of the packet that started the stream
  played              \* history: keys of the packets pop has returned

cursor == <<started, primed, highestExt, playoutExt>>
stats  == <<received, lost, reordered, lateDiscarded, overflowDropped>>
vars   == <<buf, cursor, stats, firstExt, played>>

Init ==
  /\ buf = {}
  /\ started = FALSE /\ primed = FALSE
  /\ highestExt = 0 /\ playoutExt = 0
  /\ received = 0 /\ lost = 0 /\ reordered = 0
  /\ lateDiscarded = 0 /\ overflowDropped = 0
  /\ firstExt = 0 /\ played = {}

-----------------------------------------------------------------------------
(* insert.  The first packet puts both cursors on its own number.          *)

Slot(seq)     == IF started THEN SeqExtend(seq, highestExt) ELSE seq
CursorAt(ext) == IF started THEN playoutExt ELSE ext
HighestAt(ext) == IF started /\ ext < highestExt THEN highestExt ELSE ext

\* Mutant of TooLate: the slot played last still counts as open.
TooLate_OffByOne(ext) == ext < CursorAt(ext) - 1

\* Already played past this slot: too late to be useful.
TooLate(ext) == ext < CursorAt(ext)

\* The packet is behind the cursor or a duplicate of a queued one.
Discard(ext) ==
  /\ TooLate(ext) \/ ext \in buf
  /\ lateDiscarded' = lateDiscarded + 1
  /\ UNCHANGED <<buf, cursor, received, lost, reordered, overflowDropped,
                 firstExt, played>>

\* Past the hard cap the oldest queued packet is dropped.  The loop of the
\* code runs at most once, as the buffer was within its cap before the insert.
KeptOf(queued) ==
  IF Cardinality(queued) > Capacity THEN queued \ {Min(queued)} ELSE queued

\* Mutant of CursorPast: the cursor is not skipped past the dropped packet.
CursorPast_NoSkip(queued, ext) == CursorAt(ext)

\* The playout cursor after the drop: skipped past the dropped packet.
CursorPast(queued, ext) ==
  IF Cardinality(queued) > Capacity /\ Min(queued) >= CursorAt(ext)
    THEN Min(queued) + 1
    ELSE CursorAt(ext)

Accept(ext) ==
  LET queued == buf \union {ext}
  IN  /\ ~TooLate(ext)
      /\ ext \notin buf
      /\ started' = TRUE
      /\ highestExt' = HighestAt(ext)
      /\ reordered' = IF ext < HighestAt(ext) THEN reordered + 1 ELSE reordered
      /\ received' = received + 1
      /\ buf' = KeptOf(queued)
      /\ playoutExt' = CursorPast(queued, ext)
      /\ overflowDropped' = IF KeptOf(queued) # queued
                              THEN overflowDropped + 1 ELSE overflowDropped
      /\ firstExt' = IF started THEN firstExt ELSE ext
      /\ UNCHANGED <<primed, lost, lateDiscarded, played>>

Insert(seq) ==
  /\ received + lateDiscarded < MaxPackets
  /\ \/ Discard(Slot(seq))
     \/ Accept(Slot(seq))

-----------------------------------------------------------------------------
(* pop, called on every tick of the 20 ms media clock.  Before the target   *)
(* depth is reached it returns without effect; such calls are stutters.     *)

Primed == primed \/ Cardinality(buf) >= TargetDepth

\* Mutant of Play: the oldest queued packet is played for the expected one.
Play_Oldest ==
  /\ buf # {}
  /\ buf' = buf \ {Min(buf)}
  /\ played' = played \union {Min(buf)}
  /\ playoutExt' = playoutExt + 1
  /\ UNCHANGED lost

\* The expected packet is there.
Play ==
  /\ playoutExt \in buf
  /\ buf' = buf \ {playoutExt}
  /\ played' = played \union {playoutExt}
  /\ playoutExt' = playoutExt + 1
  /\ UNCHANGED lost

\* Mutant of LossDue: an empty buffer counts as a loss instead of an underrun.
LossDue_OnUnderrun == playoutExt \notin buf

\* Expected packet absent but later packets are queued: declare it lost.
LossDue == buf # {} /\ playoutExt \notin buf

\* Mutant of DeclareLost: the missing packet is waited for.
DeclareLost_Waits == LossDue /\ UNCHANGED <<lost, buf, playoutExt, played>>

DeclareLost ==
  /\ LossDue
  /\ lost' = lost + 1
  /\ playoutExt' = playoutExt + 1
  /\ UNCHANGED <<buf, played>>

Underrun == buf = {} /\ UNCHANGED <<buf, playoutExt, lost, played>>

Pop ==
  /\ started
  /\ Primed
  /\ primed' = TRUE
  /\ Play \/ DeclareLost \/ Underrun
  /\ UNCHANGED <<started, highestExt, received, reordered, lateDiscarded,
                 overflowDropped, firstExt>>

Reset ==
  /\ buf' = {}
  /\ started' = FALSE /\ primed' = FALSE
  /\ highestExt' = 0 /\ playoutExt' = 0
  /\ received' = 0 /\ lost' = 0 /\ reordered' = 0
  /\ lateDiscarded' = 0 /\ overflowDropped' = 0
  /\ firstExt' = 0 /\ played' = {}

Next ==
  \/ \E seq \in SeqNum : Insert(seq)
  \/ Pop
  \/ Reset

Spec == Init /\ [][Next]_vars

\* What the MediaSession relies on, seen in this object.
LastPlayed == IF played = {} THEN -1 ELSE Max(played)
Promised == INSTANCE InOrderBuffer
              WITH Room <- Capacity, Before <- -1, queued <- buf, last <- LastPlayed

\* The playout thread calls pop on every tick for as long as the call lasts.
LiveSpec == Spec /\ WF_vars(Pop)

-----------------------------------------------------------------------------
TypeOK ==
  /\ buf \subseteq Nat /\ IsFiniteSet(buf)
  /\ started \in BOOLEAN /\ primed \in BOOLEAN
  /\ highestExt \in Nat /\ playoutExt \in Nat
  /\ received \in Nat /\ lost \in Nat /\ reordered \in Nat
  /\ lateDiscarded \in Nat /\ overflowDropped \in Nat
  /\ firstExt \in Nat
  /\ played \subseteq Nat /\ IsFiniteSet(played)

\* No packet is queued behind the playout cursor, where pop would never find
\* it and, the queue never becoming empty again, would declare every later
\* slot lost; nor does the cursor run past the newest packet by more than one.
NothingStranded ==
  /\ \A ext \in buf : playoutExt <= ext /\ ext <= highestExt
  /\ started => firstExt <= playoutExt /\ playoutExt <= highestExt + 1
  /\ ~started => buf = {}

\* Late packets, duplicates and drops notwithstanding, the queue stays within
\* its cap after every insert.
WithinCapacity == Cardinality(buf) <= Capacity

\* Every packet counted as received was played, dropped on overflow or is
\* still queued, and no slot was played twice.
PacketsConserved ==
  received = Cardinality(played) + overflowDropped + Cardinality(buf)

\* The slots the cursor has passed are those played, declared lost or given
\* up on overflow; as long as nothing overflowed, the three counters account
\* for every one of them.
SlotsAccounted ==
  /\ \A ext \in played : firstExt <= ext /\ ext < playoutExt
  /\ LET passed == playoutExt - firstExt
         counted == Cardinality(played) + lost + overflowDropped
     IN  /\ counted <= passed
         /\ overflowDropped = 0 => counted = passed

\* What the statistics panel prints adds up, after any mixture of late, duplicate
\* and dropped packets, gaps and resets.
CountersAgree == PacketsConserved /\ SlotsAccounted

\* pop emits packets in sequence order, whatever order insert saw them in and
\* however often the 16-bit number wrapped in between.
PlayedInOrder ==
  [][\A ext \in played' \ played : \A earlier \in played : earlier < ext]_vars

\* A slot is declared lost only while a later packet is queued behind it
\* (an empty queue is an underrun, which costs no slot), and never afterwards
\* played.
LossOnlyBehindGap ==
  [][lost' > lost => /\ \E ext \in buf : playoutExt < ext
                     /\ playoutExt < playoutExt']_vars

MaxExt == SeqSpace + MaxPackets * Half

\* Once the buffer is primed every queued packet leaves it: a gap in front of a
\* packet delays it by one tick per missing slot and never for good.
QueuedPacketsLeave ==
  \A ext \in 0 .. MaxExt : Primed /\ ext \in buf ~> ext \notin buf
=============================================================================
