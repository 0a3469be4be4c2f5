---------------------------- MODULE BoundedQueue ----------------------------
(***************************************************************************)
(* sipdemo::BoundedQueue (BoundedQueue.h): a closable bounded queue built  *)
(* on one mutex and two condition variables.                               *)
(*                                                                         *)
(* A critical section of mu_ is one step.  push, pop and close notify      *)
(* after they have released the mutex, so their notification is a step of  *)
(* its own; tryPush and tryPop notify inside.  A thread blocked in wait is *)
(* in a Wait state, and one that was woken is Ready: it takes the mutex    *)
(* again and re-evaluates the predicate.                                   *)
(***************************************************************************)
EXTENDS Naturals, Sequences, FiniteSets

CONSTANTS
  Producers,          \* threads that call push and tryPush
  Consumers,          \* threads that call pop and tryPop
  Closers,            \* threads that call close, once each
  Capacity,           \* capacity_, at least one (the constructor)
  MaxItems            \* bound of the runs: no new push once so many entered

Threads == Producers \union Consumers \union Closers

ASSUME QueueAssumption ==
  /\ IsFiniteSet(Threads)
  /\ Capacity \in Nat \ {0}
  /\ MaxItems \in Nat
  /\ Producers \cap Consumers = {}
  /\ Closers \cap (Producers \union Consumers) = {}

VARIABLES
  q,                  \* q_
  closed,             \* closed_
  pc,                 \* where each thread is
  entered,            \* history: items accepted so far; they are numbered
  left                \* history: items handed out, in order

vars == <<q, closed, pc, entered, left>>

At(state) == {t \in Threads : pc[t] = state}

Init ==
  /\ q = <<>>
  /\ closed = FALSE
  /\ pc = [t \in Threads |-> "idle"]
  /\ entered = 0
  /\ left = <<>>

\* notify_one: one of the waiting threads, if there is any, becomes ready.
NotifyOne(waiting, ready, pcs) ==
  IF \E t \in Threads : pcs[t] = waiting
    THEN {[pcs EXCEPT ![t] = ready] : t \in {u \in Threads : pcs[u] = waiting}}
    ELSE {pcs}

NotifyAll(waiting, ready, pcs) ==
  [t \in Threads |-> IF pcs[t] = waiting THEN ready ELSE pcs[t]]

HasRoom == Len(q) < Capacity

Enqueue ==
  q' = Append(q, entered + 1) /\ entered' = entered + 1 /\ UNCHANGED left

Dequeue == q' = Tail(q) /\ left' = Append(left, Head(q)) /\ UNCHANGED entered

-----------------------------------------------------------------------------
(* push *)

PushWaits == ~HasRoom /\ ~closed

\* Mutant of PushAccepts: closed_ is not tested again after the wait.
PushAccepts_Closed == HasRoom \/ closed

PushAccepts == HasRoom /\ ~closed

Push(t) ==
  /\ (pc[t] = "idle" /\ entered < MaxItems) \/ pc[t] = "pushReady"
  /\ UNCHANGED closed
  /\ \/ /\ PushWaits
        /\ pc' = [pc EXCEPT ![t] = "pushWait"]
        /\ UNCHANGED <<q, entered, left>>
     \/ /\ closed
        /\ pc' = [pc EXCEPT ![t] = "idle"]
        /\ UNCHANGED <<q, entered, left>>
     \/ /\ PushAccepts
        /\ Enqueue
        /\ pc' = [pc EXCEPT ![t] = "pushNotify"]

\* Mutant of PushNotify: the notification is forgotten.
PushNotify_None(t) ==
  /\ pc[t] = "pushNotify"
  /\ pc' = [pc EXCEPT ![t] = "idle"]
  /\ UNCHANGED <<q, closed, entered, left>>

PushNotify(t) ==
  /\ pc[t] = "pushNotify"
  /\ pc' \in NotifyOne("popWait", "popReady", [pc EXCEPT ![t] = "idle"])
  /\ UNCHANGED <<q, closed, entered, left>>

\* tryPush: a refused item leaves no trace.
TryPush(t) ==
  /\ pc[t] = "idle" /\ entered < MaxItems
  /\ ~closed /\ HasRoom
  /\ Enqueue
  /\ pc' \in NotifyOne("popWait", "popReady", pc)
  /\ UNCHANGED closed

-----------------------------------------------------------------------------
(* pop.  A consumer that has been told the end stops, as outputLoop does.  *)

\* Mutant of PopEnds: the queue is not drained first.
PopEnds_Undrained == closed

PopEnds == closed /\ q = <<>>

Pop(t) ==
  /\ pc[t] \in {"idle", "popReady"}
  /\ UNCHANGED closed
  /\ \/ /\ q = <<>> /\ ~closed
        /\ pc' = [pc EXCEPT ![t] = "popWait"]
        /\ UNCHANGED <<q, entered, left>>
     \/ /\ PopEnds
        /\ pc' = [pc EXCEPT ![t] = "done"]
        /\ UNCHANGED <<q, entered, left>>
     \/ /\ q # <<>>
        /\ Dequeue
        /\ pc' = [pc EXCEPT ![t] = "popNotify"]

\* Mutant of PopNotify: the wrong condition variable is notified.
PopNotify_NotEmpty(t) ==
  /\ pc[t] = "popNotify"
  /\ pc' \in NotifyOne("popWait", "popReady", [pc EXCEPT ![t] = "idle"])
  /\ UNCHANGED <<q, closed, entered, left>>

PopNotify(t) ==
  /\ pc[t] = "popNotify"
  /\ pc' \in NotifyOne("pushWait", "pushReady", [pc EXCEPT ![t] = "idle"])
  /\ UNCHANGED <<q, closed, entered, left>>

TryPop(t) ==
  /\ pc[t] = "idle"
  /\ q # <<>>
  /\ Dequeue
  /\ pc' \in NotifyOne("pushWait", "pushReady", pc)
  /\ UNCHANGED closed

-----------------------------------------------------------------------------
(* close: the flag under the mutex, then the two notifications.            *)

Close(t) ==
  /\ pc[t] = "idle"
  /\ closed' = TRUE
  /\ pc' = [pc EXCEPT ![t] = "closeNotEmpty"]
  /\ UNCHANGED <<q, entered, left>>

CloseNotifyNotEmpty(t) ==
  /\ pc[t] = "closeNotEmpty"
  /\ pc' = NotifyAll("popWait", "popReady", [pc EXCEPT ![t] = "closeNotFull"])
  /\ UNCHANGED <<q, closed, entered, left>>

CloseNotifyNotFull(t) ==
  /\ pc[t] = "closeNotFull"
  /\ pc' = NotifyAll("pushWait", "pushReady", [pc EXCEPT ![t] = "done"])
  /\ UNCHANGED <<q, closed, entered, left>>

\* A wait may return without a notification.
SpuriousWakeup(t) ==
  /\ \/ pc[t] = "popWait" /\ pc' = [pc EXCEPT ![t] = "popReady"]
     \/ pc[t] = "pushWait" /\ pc' = [pc EXCEPT ![t] = "pushReady"]
  /\ UNCHANGED <<q, closed, entered, left>>

\* Everybody has finished; nothing is left to do.
Terminated ==
  /\ \A t \in Consumers \union Closers : pc[t] = "done"
  /\ \A t \in Producers : pc[t] = "idle"
  /\ UNCHANGED vars

Next ==
  \/ \E t \in Producers : Push(t) \/ PushNotify(t) \/ TryPush(t)
  \/ \E t \in Consumers : Pop(t) \/ PopNotify(t) \/ TryPop(t)
  \/ \E t \in Closers : Close(t) \/ CloseNotifyNotEmpty(t) \/ CloseNotifyNotFull(t)
  \/ \E t \in Threads : SpuriousWakeup(t)
  \/ Terminated

Spec == Init /\ [][Next]_vars

\* A thread inside an operation that is not blocked goes on: it gets the mutex
\* and the processor in the end.  Nobody is obliged to call anything.
Continues(t) ==
  /\ pc[t] # "idle"
  /\ \/ t \in Producers /\ (Push(t) \/ PushNotify(t))
     \/ t \in Consumers /\ (Pop(t) \/ PopNotify(t))
     \/ t \in Closers /\ (CloseNotifyNotEmpty(t) \/ CloseNotifyNotFull(t))

LiveSpec == Spec /\ \A t \in Threads : WF_vars(Continues(t))

-----------------------------------------------------------------------------
States == {"idle", "done", "pushWait", "pushReady", "pushNotify", "popWait",
           "popReady", "popNotify", "closeNotEmpty", "closeNotFull"}

TypeOK ==
  /\ q \in Seq(Nat) /\ left \in Seq(Nat)
  /\ closed \in BOOLEAN
  /\ entered \in Nat
  /\ pc \in [Threads -> States]

\* Every item accepted is handed out exactly once and in order of acceptance,
\* whatever the threads do in between, or is still queued.
FifoExact ==
  /\ Len(left) + Len(q) = entered
  /\ \A i \in 1 .. Len(left) : left[i] = i
  /\ \A i \in 1 .. Len(q) : q[i] = Len(left) + i

WithinCapacity == Len(q) <= Capacity

\* pop reports the end only when it is final: the queue is closed and drained,
\* and no push that raced with close can still add an item nobody collects.
EndIsFinal == (\E t \in Consumers : pc[t] = "done") => closed /\ q = <<>>

\* No wakeup is lost: while a consumer sleeps, every queued item has a consumer
\* already woken for it or a producer about to notify, although the
\* notification comes after the mutex is released.  Dually for free room.
NoLostWakeup ==
  /\ At("popWait") # {} =>
       Len(q) <= Cardinality(At("popReady")) + Cardinality(At("pushNotify"))
  /\ At("pushWait") # {} /\ ~closed =>
       Capacity - Len(q) <= Cardinality(At("pushReady")) + Cardinality(At("popNotify"))

\* After close nobody sleeps on, except while the closer is still between the
\* flag and its notifications.
CloseWakesAll ==
  closed => /\ At("popWait") # {} => At("closeNotEmpty") # {}
            /\ At("pushWait") # {} => At("closeNotEmpty") \union At("closeNotFull") # {}

\* A consumer never sleeps for good beside a queued item, nor a producer beside
\* free room.
NobodySleepsForGood ==
  /\ \A t \in Consumers :
       q # <<>> /\ pc[t] = "popWait" ~> q = <<>> \/ pc[t] # "popWait"
  /\ \A t \in Producers :
       HasRoom /\ pc[t] = "pushWait" ~> ~HasRoom \/ pc[t] # "pushWait"

\* close() lets every blocked thread finish: push and pop return.
CloseReleases ==
  \A t \in Producers \union Consumers :
    closed /\ pc[t] # "idle" ~> pc[t] \in {"idle", "done"}

\* No wait outlasts its reason: an item, free room, or close ends it.
WaitersReleased == NobodySleepsForGood /\ CloseReleases

\* The queue implements the hand-off it promises.
Promised == INSTANCE Handoff

ImplementsHandoff == Promised!Spec
=============================================================================
