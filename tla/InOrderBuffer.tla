---------------------------- MODULE InOrderBuffer ----------------------------
(***************************************************************************)
(* What JitterBuffer promises its callers: at most Room packets are kept,  *)
(* and those that leave it leave in the order of their numbers, none of    *)
(* them twice.  It may lose any packet: a late one or a duplicate is not   *)
(* taken, and beyond Room the oldest gives way to the new one.             *)
(***************************************************************************)
EXTENDS Integers, FiniteSets, FiniteSetsExt

CONSTANTS Room,
          Before        \* a number before those of the packets

VARIABLES queued,       \* the packets in the buffer
          last          \* the one that left it last, or Before

vars == <<queued, last>>

Init == queued = {} /\ last = Before

\* Beyond its room the oldest packet is dropped.
KeptOf(packets) ==
  IF Cardinality(packets) > Room THEN packets \ {Min(packets)} ELSE packets

Insert(p) ==
  /\ UNCHANGED last
  /\ \/ UNCHANGED queued
     \/ p > last /\ queued' = KeptOf(queued \union {p})

\* Mutant of Oldest: the newest packet is played.
Oldest_Newest == Max(queued)

Oldest == Min(queued)

Remove ==
  /\ queued # {}
  /\ last' = Oldest /\ queued' = queued \ {Oldest}

Clear == queued' = {} /\ last' = Before

Next == (\E p \in Int : Insert(p)) \/ Remove \/ Clear

Spec == Init /\ [][Next]_vars
=============================================================================
