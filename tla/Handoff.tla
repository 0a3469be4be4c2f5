------------------------------ MODULE Handoff -------------------------------
(***************************************************************************)
(* What BoundedQueue promises its callers: items leave in the order they   *)
(* entered, none is lost or duplicated, at most Capacity are in between,   *)
(* and nothing enters after close().  Items are numbered as they enter.    *)
(***************************************************************************)
EXTENDS Naturals, Sequences

CONSTANT Capacity

VARIABLES entered,        \* number of items that have entered
          left,           \* the items that have left, in order
          closed

vars == <<entered, left, closed>>

Init == entered = 0 /\ left = <<>> /\ closed = FALSE

Put ==
  /\ ~closed
  /\ entered - Len(left) < Capacity
  /\ entered' = entered + 1
  /\ UNCHANGED <<left, closed>>

Get ==
  /\ Len(left) < entered
  /\ left' = Append(left, Len(left) + 1)
  /\ UNCHANGED <<entered, closed>>

Close == closed' = TRUE /\ UNCHANGED <<entered, left>>

Next == Put \/ Get \/ Close

Spec == Init /\ [][Next]_vars
=============================================================================
