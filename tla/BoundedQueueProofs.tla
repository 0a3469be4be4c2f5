------------------------- MODULE BoundedQueueProofs -------------------------
(***************************************************************************)
(* BoundedQueue for every capacity and every finite set of threads: its    *)
(* safety properties, and that it implements Handoff.                      *)
(***************************************************************************)
EXTENDS BoundedQueue, FiniteSetTheorems, TLAPS

\* What the data of the queue satisfies, whatever the threads are doing.
Data == /\ q \in Seq(Nat) /\ left \in Seq(Nat) /\ entered \in Nat
        /\ FifoExact /\ WithinCapacity

\* How a step of any thread may change the data.
DataStep == \/ Enqueue /\ HasRoom /\ ~closed
            \/ Dequeue /\ q # <<>>
            \/ UNCHANGED <<q, entered, left>>

\* How a step of any thread may change the threads' places: nobody starts to
\* sleep or finishes, and everybody at a notification of close stays there.
Bystanders(t) ==
  /\ pc' \in [Threads -> States]
  /\ \A u \in Threads \ {t} :
       \/ pc'[u] = pc[u]
       \/ pc[u] = "popWait" /\ pc'[u] = "popReady"
       \/ pc[u] = "pushWait" /\ pc'[u] = "pushReady"

LEMMA EnqueueData ==
  ASSUME Data, Enqueue, HasRoom
  PROVE  Data'
<1>1. /\ q' = Append(q, entered + 1) /\ entered' = entered + 1 /\ left' = left
      /\ q \in Seq(Nat) /\ left \in Seq(Nat) /\ entered \in Nat
      /\ Len(left) + Len(q) = entered
      /\ \A i \in 1 .. Len(left) : left[i] = i
      /\ \A i \in 1 .. Len(q) : q[i] = Len(left) + i
      /\ Len(q) < Capacity
  BY DEF Data, Enqueue, HasRoom, FifoExact
<1>2. /\ q' \in Seq(Nat) /\ Len(q') = Len(q) + 1
      /\ \A i \in 1 .. Len(q') : q'[i] = IF i = Len(q) + 1 THEN entered + 1 ELSE q[i]
  BY <1>1
<1>3. Len(q') <= Capacity
  BY <1>1, <1>2, QueueAssumption
<1>4. \A i \in 1 .. Len(q') : q'[i] = Len(left') + i
  <2> SUFFICES ASSUME NEW i \in 1 .. Len(q') PROVE q'[i] = Len(left) + i
    BY <1>1
  <2> DEFINE n == Len(q)
             m == Len(left)
  <2>1. n \in Nat /\ m \in Nat /\ m + n = entered
    BY <1>1
  <2>2. i \in 1 .. n + 1 /\ q'[i] = IF i = n + 1 THEN entered + 1 ELSE q[i]
    BY <1>2
  <2>3. i \in 1 .. n => q[i] = m + i
    BY <1>1
  <2> HIDE DEF n, m
  <2>4. q'[i] = m + i
    BY <2>1, <2>2, <2>3
  <2> QED
    BY <2>4 DEF m
<1> QED
  BY <1>1, <1>2, <1>3, <1>4 DEF Data, FifoExact, WithinCapacity

LEMMA DequeueData ==
  ASSUME Data, Dequeue, q # <<>>
  PROVE  Data' /\ Head(q) = Len(left) + 1
<1>1. /\ q' = Tail(q) /\ left' = Append(left, Head(q)) /\ entered' = entered
      /\ q \in Seq(Nat) /\ left \in Seq(Nat) /\ entered \in Nat
      /\ Len(left) + Len(q) = entered
      /\ \A i \in 1 .. Len(left) : left[i] = i
      /\ \A i \in 1 .. Len(q) : q[i] = Len(left) + i
      /\ Len(q) <= Capacity
  BY DEF Data, Dequeue, FifoExact, WithinCapacity
<1>2. Head(q) = Len(left) + 1 /\ Len(q) \in Nat \ {0}
  BY <1>1
<1>3. /\ q' \in Seq(Nat) /\ Len(q') = Len(q) - 1
      /\ \A i \in 1 .. Len(q') : q'[i] = q[i + 1]
  BY <1>1, <1>2
<1>4. /\ left' \in Seq(Nat) /\ Len(left') = Len(left) + 1
      /\ \A i \in 1 .. Len(left') : left'[i] = i
  BY <1>1, <1>2
<1>5. \A i \in 1 .. Len(q') : q'[i] = Len(left') + i
  BY <1>1, <1>3, <1>4
<1>6. Len(left') + Len(q') = entered' /\ Len(q') <= Capacity
  <2> DEFINE n == Len(q)
             m == Len(left)
  <2>1. /\ n \in Nat /\ m \in Nat /\ Capacity \in Nat
        /\ m + n = entered' /\ n <= Capacity
        /\ Len(q') = n - 1 /\ Len(left') = m + 1
    BY <1>1, <1>2, <1>3, <1>4, QueueAssumption
  <2> QED
    BY <2>1
<1> QED
  BY <1>1, <1>2, <1>3, <1>4, <1>5, <1>6 DEF Data, FifoExact, WithinCapacity

LEMMA DataInvariant ==
  ASSUME Data, DataStep
  PROVE  Data'
<1>1. CASE UNCHANGED <<q, entered, left>>
  BY <1>1 DEF Data, FifoExact, WithinCapacity
<1> QED
  BY <1>1, EnqueueData, DequeueData DEF DataStep

\* notify_one moves at most one thread, from waiting to ready.
LEMMA NotifyOneEffect ==
  ASSUME NEW pcs \in [Threads -> States], NEW waiting \in States,
         NEW ready \in States, NEW f \in NotifyOne(waiting, ready, pcs)
  PROVE  /\ f \in [Threads -> States]
         /\ \A u \in Threads : f[u] = pcs[u] \/ (pcs[u] = waiting /\ f[u] = ready)
<1>1. CASE \E t \in Threads : pcs[t] = waiting
  <2>1. PICK t \in Threads : pcs[t] = waiting /\ f = [pcs EXCEPT ![t] = ready]
    BY <1>1 DEF NotifyOne
  <2> QED
    BY <2>1
<1>2. CASE ~\E t \in Threads : pcs[t] = waiting
  BY <1>2 DEF NotifyOne
<1> QED
  BY <1>1, <1>2

-----------------------------------------------------------------------------
(* Wakeups are counted: pcs is where the threads are, in the middle of a     *)
(* step too.                                                                 *)

In(pcs, state) == {t \in Threads : pcs[t] = state}

Number(pcs, state) == Cardinality(In(pcs, state))

\* While somebody waits, n things have a thread that was woken for it, or one that is
\* about to notify.
Covered(pcs, waiting, ready, notifying, n) ==
  In(pcs, waiting) # {} => n <= Number(pcs, ready) + Number(pcs, notifying)

LEMMA NumberType ==
  ASSUME NEW pcs, NEW state
  PROVE  IsFiniteSet(In(pcs, state)) /\ Number(pcs, state) \in Nat
<1>1. In(pcs, state) \in SUBSET Threads
  BY DEF In
<1>2. IsFiniteSet(In(pcs, state))
  BY <1>1, FS_Subset, QueueAssumption
<1> QED BY <1>2, FS_CardinalityType DEF Number

\* Thread t, and no other, moves to place s.
Moves(pcs, to, t, s) == \A u \in Threads : to[u] = IF u = t THEN s ELSE pcs[u]

LEMMA MoveNumber ==
  ASSUME NEW pcs, NEW to, NEW t \in Threads, NEW s, Moves(pcs, to, t, s), pcs[t] # s, NEW z
  PROVE  /\ z = s => Number(to, z) = Number(pcs, z) + 1
         /\ z = pcs[t] => Number(to, z) = Number(pcs, z) - 1
         /\ z # s /\ z # pcs[t] => Number(to, z) = Number(pcs, z)
<1>1. IsFiniteSet(In(pcs, z))
  BY NumberType
<1>2. In(to, z) = IF z = s THEN In(pcs, z) \union {t} ELSE In(pcs, z) \ {t}
  BY DEF In, Moves
<1>3. t \in In(pcs, z) <=> z = pcs[t]
  BY DEF In
<1>4. CASE z = s
  BY <1>1, <1>2, <1>3, <1>4, FS_AddElement DEF Number
<1>5. CASE z # s
  BY <1>1, <1>2, <1>3, <1>5, FS_RemoveElement DEF Number
<1> QED BY <1>4, <1>5

\* One thread moves, and not to the waiting ones: if it leaves those that cover, one
\* thing less is covered, and one more if it joins them.
LEMMA CoverMove ==
  ASSUME NEW pcs \in [Threads -> States], NEW t \in Threads, NEW s, pcs[t] # s,
         NEW waiting, NEW ready, NEW notifying, ready # notifying, s # waiting,
         NEW n \in Int, NEW m \in Int, Covered(pcs, waiting, ready, notifying, n),
         m <= n + (IF s \in {ready, notifying} THEN 1 ELSE 0)
                - (IF pcs[t] \in {ready, notifying} THEN 1 ELSE 0)
  PROVE  Covered([pcs EXCEPT ![t] = s], waiting, ready, notifying, m)
<1> DEFINE to == [pcs EXCEPT ![t] = s]
<1>1. Moves(pcs, to, t, s)
  BY DEF Moves
<1> HIDE DEF to
<1>2. In(to, waiting) \subseteq In(pcs, waiting)
  BY <1>1 DEF Moves, In
<1>3. SUFFICES ASSUME In(to, waiting) # {}
               PROVE  m <= Number(to, ready) + Number(to, notifying)
  BY DEF Covered, to
<1>4. n <= Number(pcs, ready) + Number(pcs, notifying)
  BY <1>2, <1>3 DEF Covered
<1>5. /\ Number(pcs, ready) \in Nat /\ Number(pcs, notifying) \in Nat
      /\ Number(to, ready) \in Nat /\ Number(to, notifying) \in Nat
  BY NumberType
<1>6. ASSUME NEW z
      PROVE  /\ z = s => Number(to, z) = Number(pcs, z) + 1
             /\ z = pcs[t] => Number(to, z) = Number(pcs, z) - 1
             /\ z # s /\ z # pcs[t] => Number(to, z) = Number(pcs, z)
  BY <1>1, MoveNumber
<1>7. CASE s = ready
  BY <1>4, <1>5, <1>6, <1>7
<1>8. CASE s = notifying
  BY <1>4, <1>5, <1>6, <1>8
<1>9. CASE s \notin {ready, notifying}
  BY <1>4, <1>5, <1>6, <1>9
<1> QED BY <1>7, <1>8, <1>9

\* A thread begins to wait when there is nothing to cover.
LEMMA CoverNothing ==
  ASSUME NEW pcs, NEW waiting, NEW ready, NEW notifying, NEW n \in Int, n <= 0
  PROVE  Covered(pcs, waiting, ready, notifying, n)
BY NumberType DEF Covered

\* notify_one, to those who wait: one thing more is covered, if anybody still waits.
LEMMA CoverNotify ==
  ASSUME NEW pcs \in [Threads -> States],
         NEW waiting \in States, NEW ready \in States, NEW notifying \in States,
         waiting # ready, waiting # notifying, ready # notifying,
         NEW n \in Int, NEW m \in Int, m <= n + 1, Covered(pcs, waiting, ready, notifying, n),
         NEW f \in NotifyOne(waiting, ready, pcs)
  PROVE  Covered(f, waiting, ready, notifying, m)
<1>1. CASE \E t \in Threads : pcs[t] = waiting
  <2>1. PICK t \in Threads : pcs[t] = waiting /\ f = [pcs EXCEPT ![t] = ready]
    BY <1>1 DEF NotifyOne
  <2>2. pcs[t] # ready /\ pcs[t] \notin {ready, notifying} /\ ready # waiting
    BY <2>1
  <2>3. m <= n + (IF ready \in {ready, notifying} THEN 1 ELSE 0)
               - (IF pcs[t] \in {ready, notifying} THEN 1 ELSE 0)
    BY <2>2
  <2> QED BY <2>1, <2>2, <2>3, CoverMove
<1>2. CASE ~\E t \in Threads : pcs[t] = waiting
  <2>1. In(f, waiting) = {}
    BY <1>2 DEF NotifyOne, In
  <2> QED BY <2>1 DEF Covered
<1> QED BY <1>1, <1>2

\* notify_one, to the others: nothing changes.
LEMMA CoverForeign ==
  ASSUME NEW pcs \in [Threads -> States],
         NEW waiting \in States, NEW ready \in States, NEW notifying \in States,
         ready # notifying, NEW n \in Int, Covered(pcs, waiting, ready, notifying, n),
         NEW w \in States, NEW r \in States, w # r,
         w # ready, w # notifying, r # waiting, r # ready, r # notifying,
         NEW f \in NotifyOne(w, r, pcs)
  PROVE  Covered(f, waiting, ready, notifying, n)
<1>1. CASE \E t \in Threads : pcs[t] = w
  <2>1. PICK t \in Threads : pcs[t] = w /\ f = [pcs EXCEPT ![t] = r]
    BY <1>1 DEF NotifyOne
  <2>2. /\ pcs[t] # r /\ r # waiting
        /\ r \notin {ready, notifying} /\ pcs[t] \notin {ready, notifying}
    BY <2>1
  <2>3. n <= n + (IF r \in {ready, notifying} THEN 1 ELSE 0)
               - (IF pcs[t] \in {ready, notifying} THEN 1 ELSE 0)
    BY <2>2
  <2> QED BY <2>1, <2>2, <2>3, CoverMove
<1>2. CASE ~\E t \in Threads : pcs[t] = w
  BY <1>2 DEF NotifyOne
<1> QED BY <1>1, <1>2

\* Who reads an item is woken through not_empty_, who adds one through not_full_.
ItemsCovered(pcs, n) == Covered(pcs, "popWait", "popReady", "pushNotify", n)
RoomCovered(pcs, n)  == Covered(pcs, "pushWait", "pushReady", "popNotify", n)

\* A notification of not_empty_ covers an item more, and no room less.
LEMMA NotEmptyCoversItem ==
  ASSUME NEW pcs \in [Threads -> States], NEW n \in Int, NEW m \in Int, m <= n + 1,
         ItemsCovered(pcs, n), NEW f \in NotifyOne("popWait", "popReady", pcs)
  PROVE  ItemsCovered(f, m)
BY CoverNotify DEF ItemsCovered, States

LEMMA NotEmptyKeepsRoom ==
  ASSUME NEW pcs \in [Threads -> States], NEW n \in Int, RoomCovered(pcs, n),
         NEW f \in NotifyOne("popWait", "popReady", pcs)
  PROVE  RoomCovered(f, n)
<1>1. {"pushWait", "pushReady", "popNotify", "popWait", "popReady"} \subseteq States
  BY DEF States
<1>2. Covered(pcs, "pushWait", "pushReady", "popNotify", n)
  BY DEF RoomCovered
<1>3. Covered(f, "pushWait", "pushReady", "popNotify", n)
  BY <1>1, <1>2, CoverForeign
<1> QED BY <1>3 DEF RoomCovered

\* And dually for not_full_.
LEMMA NotFullCoversRoom ==
  ASSUME NEW pcs \in [Threads -> States], NEW n \in Int, NEW m \in Int, m <= n + 1,
         RoomCovered(pcs, n), NEW f \in NotifyOne("pushWait", "pushReady", pcs)
  PROVE  RoomCovered(f, m)
BY CoverNotify DEF RoomCovered, States

LEMMA NotFullKeepsItems ==
  ASSUME NEW pcs \in [Threads -> States], NEW n \in Int, ItemsCovered(pcs, n),
         NEW f \in NotifyOne("pushWait", "pushReady", pcs)
  PROVE  ItemsCovered(f, n)
<1>1. {"popWait", "popReady", "pushNotify", "pushWait", "pushReady"} \subseteq States
  BY DEF States
<1>2. Covered(pcs, "popWait", "popReady", "pushNotify", n)
  BY DEF ItemsCovered
<1>3. Covered(f, "popWait", "popReady", "pushNotify", n)
  BY <1>1, <1>2, CoverForeign
<1> QED BY <1>3 DEF ItemsCovered

LEMMA CoveredIsNoLostWakeup ==
  /\ NoLostWakeup <=> /\ ItemsCovered(pc, Len(q))
                      /\ ~closed => RoomCovered(pc, Capacity - Len(q))
  /\ NoLostWakeup' <=> /\ ItemsCovered(pc', Len(q'))
                       /\ ~closed' => RoomCovered(pc', Capacity - Len(q'))
BY DEF NoLostWakeup, ItemsCovered, RoomCovered, Covered, Number, In, At

-----------------------------------------------------------------------------
\* The inductive invariant.
IInv == /\ Data /\ closed \in BOOLEAN /\ pc \in [Threads -> States]
        /\ EndIsFinal /\ CloseWakesAll

LEMMA InitIInv == Init => IInv
<1> SUFFICES ASSUME Init PROVE IInv
  OBVIOUS
<1>1. Data
  BY QueueAssumption DEF Init, Data, FifoExact, WithinCapacity
<1>2. closed = FALSE /\ pc \in [Threads -> States]
  BY DEF Init, States
<1>3. EndIsFinal
  BY DEF Init, EndIsFinal, Threads
<1> QED
  BY <1>1, <1>2, <1>3 DEF IInv, CloseWakesAll

\* Which steps there are, seen from the data and from the threads.
LEMMA StepShape ==
  ASSUME IInv, Next
  PROVE  /\ DataStep
         /\ \/ UNCHANGED <<closed, pc>>
            \/ \E t \in Threads :
                 /\ Bystanders(t)
                 /\ \/ /\ closed' = closed
                       /\ pc[t] \notin {"closeNotEmpty", "closeNotFull"}
                       /\ pc'[t] = "popWait" => ~closed
                       /\ pc'[t] = "pushWait" => ~closed
                       /\ pc'[t] = "done" => PopEnds /\ UNCHANGED q
                    \/ /\ closed' = TRUE
                       /\ pc'[t] = "closeNotEmpty"
                       /\ t \notin Consumers
                    \/ /\ closed' = closed
                       /\ pc'[t] = "closeNotFull"
                       /\ \A u \in Threads : pc'[u] # "popWait"
                    \/ /\ closed' = closed
                       /\ pc[t] = "closeNotFull"
                       /\ t \notin Consumers
                       /\ pc'[t] # "popWait"
                       /\ \A u \in Threads : pc'[u] # "pushWait"
<1> DEFINE Ordinary(t) ==
             /\ closed' = closed
             /\ pc[t] \notin {"closeNotEmpty", "closeNotFull"}
             /\ pc'[t] = "popWait" => ~closed
             /\ pc'[t] = "pushWait" => ~closed
             /\ pc'[t] = "done" => PopEnds /\ UNCHANGED q
<1>1. pc \in [Threads -> States]
  BY DEF IInv
<1>2. ASSUME NEW t \in Producers, Push(t)
      PROVE  DataStep /\ Bystanders(t) /\ Ordinary(t)
  BY <1>1, <1>2 DEF Push, PushWaits, PushAccepts, DataStep, Bystanders, States, Threads
<1>3. ASSUME NEW t \in Producers, PushNotify(t)
      PROVE  DataStep /\ Bystanders(t) /\ Ordinary(t)
  <2> DEFINE pcs == [pc EXCEPT ![t] = "idle"]
  <2>1. pcs \in [Threads -> States] /\ \A u \in Threads : pcs[u] = IF u = t THEN "idle" ELSE pc[u]
    BY <1>1 DEF States
  <2>2. pc' \in NotifyOne("popWait", "popReady", pcs)
    BY <1>3 DEF PushNotify
  <2> HIDE DEF pcs
  <2>3. /\ pc' \in [Threads -> States]
        /\ \A u \in Threads : pc'[u] = pcs[u] \/ (pcs[u] = "popWait" /\ pc'[u] = "popReady")
    BY <2>1, <2>2, NotifyOneEffect DEF States
  <2> QED
    BY <1>1, <1>3, <2>1, <2>3 DEF PushNotify, DataStep, Bystanders, Threads
<1>4. ASSUME NEW t \in Producers, TryPush(t)
      PROVE  DataStep /\ Bystanders(t) /\ Ordinary(t)
  <2>1. /\ pc' \in [Threads -> States]
        /\ \A u \in Threads : pc'[u] = pc[u] \/ (pc[u] = "popWait" /\ pc'[u] = "popReady")
    BY <1>1, <1>4, NotifyOneEffect DEF TryPush, States
  <2> QED
    BY <1>4, <2>1 DEF TryPush, DataStep, Bystanders, Threads
<1>5. ASSUME NEW t \in Consumers, Pop(t)
      PROVE  DataStep /\ Bystanders(t) /\ Ordinary(t)
  BY <1>1, <1>5 DEF Pop, PopEnds, DataStep, Bystanders, States, Threads
<1>6. ASSUME NEW t \in Consumers, PopNotify(t)
      PROVE  DataStep /\ Bystanders(t) /\ Ordinary(t)
  <2> DEFINE pcs == [pc EXCEPT ![t] = "idle"]
  <2>1. pcs \in [Threads -> States] /\ \A u \in Threads : pcs[u] = IF u = t THEN "idle" ELSE pc[u]
    BY <1>1 DEF States
  <2>2. pc' \in NotifyOne("pushWait", "pushReady", pcs)
    BY <1>6 DEF PopNotify
  <2> HIDE DEF pcs
  <2>3. /\ pc' \in [Threads -> States]
        /\ \A u \in Threads : pc'[u] = pcs[u] \/ (pcs[u] = "pushWait" /\ pc'[u] = "pushReady")
    BY <2>1, <2>2, NotifyOneEffect DEF States
  <2> QED
    BY <1>1, <1>6, <2>1, <2>3 DEF PopNotify, DataStep, Bystanders, Threads
<1>7. ASSUME NEW t \in Consumers, TryPop(t)
      PROVE  DataStep /\ Bystanders(t) /\ Ordinary(t)
  <2>1. /\ pc' \in [Threads -> States]
        /\ \A u \in Threads : pc'[u] = pc[u] \/ (pc[u] = "pushWait" /\ pc'[u] = "pushReady")
    BY <1>1, <1>7, NotifyOneEffect DEF TryPop, States
  <2> QED
    BY <1>7, <2>1 DEF TryPop, DataStep, Bystanders, Threads
<1>8. ASSUME NEW t \in Closers, Close(t)
      PROVE  /\ DataStep /\ Bystanders(t)
             /\ closed' = TRUE /\ pc'[t] = "closeNotEmpty" /\ t \notin Consumers
  BY <1>1, <1>8, QueueAssumption DEF Close, DataStep, Bystanders, States, Threads
<1>9. ASSUME NEW t \in Closers, CloseNotifyNotEmpty(t)
      PROVE  /\ DataStep /\ Bystanders(t)
             /\ closed' = closed /\ pc'[t] = "closeNotFull"
             /\ \A u \in Threads : pc'[u] # "popWait"
  BY <1>1, <1>9 DEF CloseNotifyNotEmpty, NotifyAll, DataStep, Bystanders, States, Threads
<1>10. ASSUME NEW t \in Closers, CloseNotifyNotFull(t)
       PROVE  /\ DataStep /\ Bystanders(t)
              /\ closed' = closed /\ pc[t] = "closeNotFull" /\ t \notin Consumers
              /\ pc'[t] # "popWait"
              /\ \A u \in Threads : pc'[u] # "pushWait"
  BY <1>1, <1>10, QueueAssumption DEF CloseNotifyNotFull, NotifyAll, DataStep,
     Bystanders, States, Threads
<1>11. ASSUME NEW t \in Threads, SpuriousWakeup(t)
       PROVE  DataStep /\ Bystanders(t) /\ Ordinary(t)
  BY <1>1, <1>11 DEF SpuriousWakeup, DataStep, Bystanders, States
<1>12. CASE Terminated
  BY <1>12 DEF Terminated, vars, DataStep
<1>13. Producers \subseteq Threads /\ Consumers \subseteq Threads /\ Closers \subseteq Threads
  BY DEF Threads
<1> QED
  BY <1>2, <1>3, <1>4, <1>5, <1>6, <1>7, <1>8, <1>9, <1>10, <1>11, <1>12, <1>13
  DEF Next

LEMMA StepIInv == IInv /\ [Next]_vars => IInv'
<1> SUFFICES ASSUME IInv, [Next]_vars
             PROVE  IInv'
  OBVIOUS
<1>1. CASE UNCHANGED vars
  BY <1>1 DEF vars, IInv, Data, FifoExact, WithinCapacity, EndIsFinal,
     CloseWakesAll, At
<1>2. CASE Next
  <2>1. DataStep
    BY <1>2, StepShape
  <2>2. Data'
    BY <2>1, DataInvariant DEF IInv
  <2>3. CASE UNCHANGED <<closed, pc>>
    <3>1. EndIsFinal'
      BY <2>1, <2>3 DEF IInv, EndIsFinal, DataStep, Dequeue
    <3>2. CloseWakesAll'
      BY <2>3 DEF IInv, CloseWakesAll, At
    <3> QED
      BY <2>2, <2>3, <3>1, <3>2 DEF IInv
  <2>4. ASSUME NEW t \in Threads, Bystanders(t)
        PROVE  /\ pc' \in [Threads -> States]
               /\ \A u \in Threads \ {t} :
                    /\ pc'[u] = "done" <=> pc[u] = "done"
                    /\ pc'[u] = "popWait" => pc[u] = "popWait"
                    /\ pc'[u] = "pushWait" => pc[u] = "pushWait"
                    /\ pc[u] = "closeNotEmpty" => pc'[u] = "closeNotEmpty"
                    /\ pc[u] = "closeNotFull" => pc'[u] = "closeNotFull"
    BY <2>4 DEF Bystanders
  <2>5. \A u \in Consumers : u \in Threads
    BY DEF Threads
  <2>6. ASSUME NEW t \in Threads, Bystanders(t), closed' = closed,
               pc[t] \notin {"closeNotEmpty", "closeNotFull"},
               pc'[t] = "popWait" => ~closed,
               pc'[t] = "pushWait" => ~closed,
               pc'[t] = "done" => PopEnds /\ UNCHANGED q
        PROVE  IInv'
    <3>1. EndIsFinal'
      BY <2>1, <2>4, <2>5, <2>6 DEF IInv, EndIsFinal, DataStep, Dequeue, PopEnds
    <3>2. CloseWakesAll'
      BY <2>4, <2>6 DEF IInv, CloseWakesAll, At
    <3> QED
      BY <2>2, <2>4, <2>6, <3>1, <3>2 DEF IInv
  <2>7. ASSUME NEW t \in Threads, Bystanders(t), closed' = TRUE,
               pc'[t] = "closeNotEmpty", t \notin Consumers
        PROVE  IInv'
    <3>1. EndIsFinal'
      BY <2>1, <2>4, <2>5, <2>7 DEF IInv, EndIsFinal, DataStep, Dequeue
    <3>2. CloseWakesAll'
      BY <2>7 DEF CloseWakesAll, At
    <3> QED
      BY <2>2, <2>4, <2>7, <3>1, <3>2 DEF IInv
  <2>8. ASSUME NEW t \in Threads, Bystanders(t), closed' = closed,
               pc'[t] = "closeNotFull", \A u \in Threads : pc'[u] # "popWait"
        PROVE  IInv'
    <3>1. EndIsFinal'
      BY <2>1, <2>4, <2>5, <2>8 DEF IInv, EndIsFinal, DataStep, Dequeue
    <3>2. CloseWakesAll'
      BY <2>8 DEF CloseWakesAll, At
    <3> QED
      BY <2>2, <2>4, <2>8, <3>1, <3>2 DEF IInv
  <2>9. ASSUME NEW t \in Threads, Bystanders(t), closed' = closed,
               pc[t] = "closeNotFull", t \notin Consumers,
               \A u \in Threads : pc'[u] # "pushWait",
               pc'[t] # "popWait"
        PROVE  IInv'
    <3>1. EndIsFinal'
      BY <2>1, <2>4, <2>5, <2>9 DEF IInv, EndIsFinal, DataStep, Dequeue
    <3>2. CloseWakesAll'
      BY <2>4, <2>9 DEF IInv, CloseWakesAll, At
    <3> QED
      BY <2>2, <2>4, <2>9, <3>1, <3>2 DEF IInv
  <2> QED
    BY <1>2, <2>3, <2>6, <2>7, <2>8, <2>9, StepShape
<1> QED
  BY <1>1, <1>2

THEOREM Invariance == Spec => []IInv
  BY InitIInv, StepIInv, PTL DEF Spec

\* TypeOK in every reachable state.
THEOREM TypeCorrect == Spec => []TypeOK
<1>1. IInv => TypeOK
  BY DEF IInv, Data, TypeOK
<1> QED
  BY <1>1, Invariance, PTL

\* Items are handed out exactly once and in order, and never more than the
\* capacity are queued.
THEOREM QueueSafe == Spec => [](FifoExact /\ WithinCapacity)
<1>1. IInv => FifoExact /\ WithinCapacity
  BY DEF IInv, Data
<1> QED
  BY <1>1, Invariance, PTL

\* The end pop reports is final.
THEOREM EndFinal == Spec => []EndIsFinal
  BY Invariance, PTL DEF IInv

\* After close only a close in progress leaves sleepers.
THEOREM CloseWakes == Spec => []CloseWakesAll
  BY Invariance, PTL DEF IInv

\* The queue implements Handoff: every step is a Put, a Get, a Close or a
\* stutter of it.
THEOREM Refinement == Spec => ImplementsHandoff
<1>1. Init => Promised!Init
  BY DEF Init, Promised!Init
<1>2. IInv /\ [Next]_vars => [Promised!Next]_(Promised!vars)
  <2> SUFFICES ASSUME IInv, [Next]_vars
               PROVE  [Promised!Next]_(Promised!vars)
    OBVIOUS
  <2>1. CASE UNCHANGED vars
    BY <2>1 DEF vars, Promised!vars
  <2>2. CASE Next
    <3>1. /\ DataStep
          /\ closed' = closed \/ closed' = TRUE
      BY <2>2, StepShape
    <3>2. closed' = closed \/ UNCHANGED <<entered, left>>
      BY <2>2 DEF Next, Push, PushNotify, TryPush, Pop, PopNotify, TryPop, Close,
         CloseNotifyNotEmpty, CloseNotifyNotFull, SpuriousWakeup, Terminated, vars
    <3>3. CASE Enqueue /\ HasRoom /\ ~closed /\ closed' = closed
      <4>1. /\ Len(left) \in Nat /\ Len(q) \in Nat /\ Len(left) + Len(q) = entered
            /\ Len(q) < Capacity
        BY <3>3 DEF IInv, Data, FifoExact, HasRoom
      <4>2. entered - Len(left) < Capacity
        BY <4>1
      <4> QED
        BY <3>3, <4>2 DEF Enqueue, Promised!Next, Promised!Put
    <3>4. CASE Dequeue /\ q # <<>> /\ closed' = closed
      <4>1. Head(q) = Len(left) + 1
        BY <3>4, DequeueData DEF IInv
      <4>2. Len(left) < entered
        <5>1. /\ Len(left) \in Nat /\ Len(q) \in Nat \ {0}
              /\ Len(left) + Len(q) = entered
          BY <3>4 DEF IInv, Data, FifoExact
        <5> QED
          BY <5>1
      <4> QED
        BY <3>4, <4>1, <4>2 DEF Dequeue, Promised!Next, Promised!Get
    <3>5. CASE UNCHANGED <<entered, left>>
      BY <3>1, <3>5 DEF Promised!Next, Promised!Close, Promised!vars
    <3> QED
      BY <3>1, <3>2, <3>3, <3>4, <3>5 DEF DataStep
  <2> QED
    BY <2>1, <2>2
<1> QED
  BY <1>1, <1>2, Invariance, PTL DEF Spec, ImplementsHandoff, Promised!Spec
-----------------------------------------------------------------------------
(* No wakeup is lost.  The invariant gives the types and the bound on Len(q);  *)
(* each step is followed through the counts.                                   *)

\* What a move does to the cover of the items, n before and m after, and to that of
\* the room.
ItemsKept(from, to, n, m) ==
  \/ to = "popWait" /\ m <= 0
  \/ /\ to # "popWait"
     /\ m <= n + (IF to \in {"popReady", "pushNotify"} THEN 1 ELSE 0)
               - (IF from \in {"popReady", "pushNotify"} THEN 1 ELSE 0)

RoomKept(from, to, n, m) ==
  \/ to = "pushWait" /\ m <= 0
  \/ /\ to # "pushWait"
     /\ m <= n + (IF to \in {"pushReady", "popNotify"} THEN 1 ELSE 0)
               - (IF from \in {"pushReady", "popNotify"} THEN 1 ELSE 0)

LEMMA MoveCovers ==
  ASSUME NEW pcs \in [Threads -> States], NEW t \in Threads, NEW s, pcs[t] # s,
         NEW to, to = [pcs EXCEPT ![t] = s], NEW n \in Int, NEW m \in Int
  PROVE  /\ ItemsCovered(pcs, n) /\ ItemsKept(pcs[t], s, n, m) => ItemsCovered(to, m)
         /\ RoomCovered(pcs, n) /\ RoomKept(pcs[t], s, n, m) => RoomCovered(to, m)
<1>1. ASSUME ItemsCovered(pcs, n), ItemsKept(pcs[t], s, n, m) PROVE ItemsCovered(to, m)
  <2>1. CASE s = "popWait" /\ m <= 0
    BY <2>1, CoverNothing DEF ItemsCovered
  <2>2. CASE s # "popWait"
    BY <1>1, <2>2, CoverMove DEF ItemsCovered, ItemsKept
  <2> QED BY <1>1, <2>1, <2>2 DEF ItemsKept
<1>2. ASSUME RoomCovered(pcs, n), RoomKept(pcs[t], s, n, m) PROVE RoomCovered(to, m)
  <2>1. CASE s = "pushWait" /\ m <= 0
    BY <2>1, CoverNothing DEF RoomCovered
  <2>2. CASE s # "pushWait"
    BY <1>2, <2>2, CoverMove DEF RoomCovered, RoomKept
  <2> QED BY <1>2, <2>1, <2>2 DEF RoomKept
<1> QED BY <1>1, <1>2

\* A critical section or a spurious wakeup: one thread moves while the number of
\* items goes from Len(q) to Len(q').
LEMMA MoveKeepsWakeups ==
  ASSUME NoLostWakeup, pc \in [Threads -> States], Len(q) \in Nat, Len(q') \in Nat,
         Capacity \in Nat, NEW t \in Threads, NEW s, pc[t] # s,
         pc' = [pc EXCEPT ![t] = s], closed => closed',
         ItemsKept(pc[t], s, Len(q), Len(q')),
         closed' \/ RoomKept(pc[t], s, Capacity - Len(q), Capacity - Len(q'))
  PROVE  NoLostWakeup'
<1> DEFINE n == Capacity - Len(q)
           m == Capacity - Len(q')
<1>1. /\ ItemsCovered(pc, Len(q)) /\ Len(q) \in Int /\ Len(q') \in Int
      /\ ~closed => RoomCovered(pc, n)
      /\ n \in Int /\ m \in Int
  BY CoveredIsNoLostWakeup
<1>2. ItemsCovered(pc', Len(q'))
  BY <1>1, MoveCovers
<1>3. closed' \/ RoomKept(pc[t], s, n, m)
  OBVIOUS
<1> HIDE DEF n, m
<1>4. ASSUME ~closed' PROVE RoomCovered(pc', m)
  BY <1>1, <1>3, <1>4, MoveCovers
<1> QED BY <1>2, <1>4, CoveredIsNoLostWakeup DEF m

\* Each step of the threads keeps the count.
LEMMA StepKeepsWakeups ==
  ASSUME IInv, NoLostWakeup, Next
  PROVE  NoLostWakeup'
<1>1. /\ pc \in [Threads -> States] /\ Len(q) \in Nat /\ Capacity \in Nat
      /\ Len(q) <= Capacity /\ closed \in BOOLEAN /\ q \in Seq(Nat) /\ entered \in Nat
  BY QueueAssumption DEF IInv, Data, WithinCapacity
<1>2. /\ Enqueue => Len(q') = Len(q) + 1 /\ Len(q') \in Nat
      /\ Dequeue /\ q # <<>> => Len(q') = Len(q) - 1 /\ Len(q') \in Nat
      /\ q = <<>> <=> Len(q) = 0
  BY <1>1 DEF Enqueue, Dequeue
<1>3. Producers \subseteq Threads /\ Consumers \subseteq Threads /\ Closers \subseteq Threads
  BY DEF Threads
<1>4. /\ ItemsCovered(pc, Len(q))
      /\ ~closed => RoomCovered(pc, Capacity - Len(q))
  BY CoveredIsNoLostWakeup
<1>5. ASSUME NEW t \in Producers, Push(t)
      PROVE  NoLostWakeup'
  <2>1. t \in Threads /\ pc[t] \in {"idle", "pushReady"} /\ closed' = closed
    BY <1>3, <1>5 DEF Push
  <2>2. CASE PushWaits /\ pc' = [pc EXCEPT ![t] = "pushWait"] /\ q' = q
    <3>1. ItemsKept(pc[t], "pushWait", Len(q), Len(q'))
      BY <1>1, <2>1, <2>2 DEF ItemsKept
    <3>2. RoomKept(pc[t], "pushWait", Capacity - Len(q), Capacity - Len(q'))
      BY <1>1, <2>2 DEF RoomKept, PushWaits, HasRoom
    <3> QED BY <1>1, <2>1, <2>2, <3>1, <3>2, MoveKeepsWakeups
  <2>3. CASE closed /\ pc' = [pc EXCEPT ![t] = "idle"] /\ q' = q
    <3>1. CASE pc[t] = "idle"
      <4>1. pc' = pc
        BY <1>1, <2>3, <3>1
      <4> QED BY <1>4, <2>1, <2>3, <4>1, CoveredIsNoLostWakeup
    <3>2. CASE pc[t] = "pushReady"
      <4>1. ItemsKept(pc[t], "idle", Len(q), Len(q'))
        BY <1>1, <2>3, <3>2 DEF ItemsKept
      <4> QED BY <1>1, <2>1, <2>3, <3>2, <4>1, MoveKeepsWakeups
    <3> QED BY <2>1, <3>1, <3>2
  <2>4. CASE PushAccepts /\ Enqueue /\ pc' = [pc EXCEPT ![t] = "pushNotify"]
    <3>1. ItemsKept(pc[t], "pushNotify", Len(q), Len(q'))
      BY <1>1, <1>2, <2>1, <2>4 DEF ItemsKept
    <3>2. RoomKept(pc[t], "pushNotify", Capacity - Len(q), Capacity - Len(q'))
      BY <1>1, <1>2, <2>1, <2>4 DEF RoomKept
    <3> QED BY <1>1, <1>2, <2>1, <2>4, <3>1, <3>2, MoveKeepsWakeups
  <2> QED BY <1>5, <2>2, <2>3, <2>4 DEF Push
<1>6. ASSUME NEW t \in Consumers, Pop(t)
      PROVE  NoLostWakeup'
  <2>1. t \in Threads /\ pc[t] \in {"idle", "popReady"} /\ closed' = closed
    BY <1>3, <1>6 DEF Pop
  <2>2. CASE q = <<>> /\ ~closed /\ pc' = [pc EXCEPT ![t] = "popWait"] /\ q' = q
    <3>1. ItemsKept(pc[t], "popWait", Len(q), Len(q'))
      BY <1>2, <2>2 DEF ItemsKept
    <3>2. RoomKept(pc[t], "popWait", Capacity - Len(q), Capacity - Len(q'))
      BY <1>1, <2>1, <2>2 DEF RoomKept
    <3> QED BY <1>1, <2>1, <2>2, <3>1, <3>2, MoveKeepsWakeups
  <2>3. CASE PopEnds /\ pc' = [pc EXCEPT ![t] = "done"] /\ q' = q
    <3>1. Len(q') = 0 /\ closed'
      BY <1>2, <2>1, <2>3 DEF PopEnds
    <3>2. ItemsCovered(pc', Len(q'))
      BY <3>1, CoverNothing DEF ItemsCovered
    <3> QED BY <3>1, <3>2, CoveredIsNoLostWakeup
  <2>4. CASE q # <<>> /\ Dequeue /\ pc' = [pc EXCEPT ![t] = "popNotify"]
    <3>1. ItemsKept(pc[t], "popNotify", Len(q), Len(q'))
      BY <1>1, <1>2, <2>1, <2>4 DEF ItemsKept
    <3>2. RoomKept(pc[t], "popNotify", Capacity - Len(q), Capacity - Len(q'))
      BY <1>1, <1>2, <2>1, <2>4 DEF RoomKept
    <3> QED BY <1>1, <1>2, <2>1, <2>4, <3>1, <3>2, MoveKeepsWakeups
  <2> QED BY <1>6, <2>2, <2>3, <2>4 DEF Pop
<1>7. ASSUME NEW t \in Producers, PushNotify(t)
      PROVE  NoLostWakeup'
  <2> DEFINE pcs == [pc EXCEPT ![t] = "idle"]
             n == Len(q)
             m == Capacity - Len(q)
  <2>1. /\ t \in Threads /\ pc[t] = "pushNotify" /\ pc[t] # "idle"
        /\ q' = q /\ closed' = closed
        /\ pcs \in [Threads -> States] /\ pcs = [pc EXCEPT ![t] = "idle"]
        /\ pc' \in NotifyOne("popWait", "popReady", pcs)
    BY <1>1, <1>3, <1>7 DEF PushNotify, States
  <2>2. /\ n \in Int /\ n - 1 \in Int /\ m \in Int /\ n <= (n - 1) + 1
        /\ ItemsCovered(pc, n) /\ (~closed => RoomCovered(pc, m))
    BY <1>1, <1>4
  <2>3. n = Len(q') /\ m = Capacity - Len(q')
    BY <2>1
  <2> HIDE DEF pcs, n, m
  <2>4. ItemsCovered(pcs, n - 1)
    <3>1. ItemsKept(pc[t], "idle", n, n - 1)
      BY <2>1, <2>2 DEF ItemsKept
    <3> QED BY <1>1, <2>1, <2>2, <3>1, MoveCovers
  <2>5. ItemsCovered(pc', n)
    BY <2>1, <2>2, <2>4, NotEmptyCoversItem
  <2>6. ASSUME ~closed PROVE RoomCovered(pc', m)
    <3>1. RoomKept(pc[t], "idle", m, m)
      BY <2>1, <2>2 DEF RoomKept
    <3>2. RoomCovered(pcs, m)
      BY <1>1, <2>1, <2>2, <2>6, <3>1, MoveCovers
    <3> QED BY <2>1, <2>2, <3>2, NotEmptyKeepsRoom
  <2> QED BY <2>1, <2>3, <2>5, <2>6, CoveredIsNoLostWakeup
<1>8. ASSUME NEW t \in Consumers, PopNotify(t)
      PROVE  NoLostWakeup'
  <2> DEFINE pcs == [pc EXCEPT ![t] = "idle"]
             n == Len(q)
             m == Capacity - Len(q)
  <2>1. /\ t \in Threads /\ pc[t] = "popNotify" /\ pc[t] # "idle"
        /\ q' = q /\ closed' = closed
        /\ pcs \in [Threads -> States] /\ pcs = [pc EXCEPT ![t] = "idle"]
        /\ pc' \in NotifyOne("pushWait", "pushReady", pcs)
    BY <1>1, <1>3, <1>8 DEF PopNotify, States
  <2>2. /\ n \in Int /\ m \in Int /\ m - 1 \in Int /\ m <= (m - 1) + 1
        /\ ItemsCovered(pc, n) /\ (~closed => RoomCovered(pc, m))
    BY <1>1, <1>4
  <2>3. n = Len(q') /\ m = Capacity - Len(q')
    BY <2>1
  <2> HIDE DEF pcs, n, m
  <2>4. ItemsCovered(pc', n)
    <3>1. ItemsKept(pc[t], "idle", n, n)
      BY <2>1, <2>2 DEF ItemsKept
    <3>2. ItemsCovered(pcs, n)
      BY <1>1, <2>1, <2>2, <3>1, MoveCovers
    <3> QED BY <2>1, <2>2, <3>2, NotFullKeepsItems
  <2>5. ASSUME ~closed PROVE RoomCovered(pc', m)
    <3>1. RoomKept(pc[t], "idle", m, m - 1)
      BY <2>1, <2>2 DEF RoomKept
    <3>2. RoomCovered(pcs, m - 1)
      BY <1>1, <2>1, <2>2, <2>5, <3>1, MoveCovers
    <3> QED BY <2>1, <2>2, <3>2, NotFullCoversRoom
  <2> QED BY <2>1, <2>3, <2>4, <2>5, CoveredIsNoLostWakeup
<1>9. ASSUME NEW t \in Producers, TryPush(t)
      PROVE  NoLostWakeup'
  <2> DEFINE n == Len(q)
             m == Capacity - Len(q)
  <2>1. /\ Len(q') = n + 1 /\ ~closed /\ closed' = closed
        /\ pc' \in NotifyOne("popWait", "popReady", pc)
    BY <1>2, <1>9 DEF TryPush
  <2>2. /\ n \in Int /\ n + 1 \in Int /\ n + 1 <= n + 1 /\ m \in Int
        /\ Len(q') = n + 1 /\ Capacity - Len(q') = m - 1
        /\ ItemsCovered(pc, n) /\ RoomCovered(pc, m)
    BY <1>1, <1>4, <2>1
  <2> HIDE DEF n, m
  <2>3. ItemsCovered(pc', n + 1)
    BY <1>1, <2>1, <2>2, NotEmptyCoversItem
  <2>4. RoomCovered(pc', m)
    BY <1>1, <2>1, <2>2, NotEmptyKeepsRoom
  <2>5. RoomCovered(pc', m - 1)
    BY <2>2, <2>4, NumberType DEF RoomCovered, Covered
  <2> QED BY <2>2, <2>3, <2>5, CoveredIsNoLostWakeup
<1>10. ASSUME NEW t \in Consumers, TryPop(t)
       PROVE  NoLostWakeup'
  <2> DEFINE n == Len(q)
             m == Capacity - Len(q)
  <2>1. /\ Len(q') = n - 1 /\ closed' = closed
        /\ pc' \in NotifyOne("pushWait", "pushReady", pc)
    BY <1>2, <1>10 DEF TryPop
  <2>2. /\ n \in Int /\ m + 1 \in Int /\ m + 1 <= m + 1 /\ m \in Int
        /\ Len(q') = n - 1 /\ Capacity - Len(q') = m + 1
        /\ ItemsCovered(pc, n) /\ (~closed => RoomCovered(pc, m))
    BY <1>1, <1>4, <2>1
  <2> HIDE DEF n, m
  <2>3. ItemsCovered(pc', n)
    BY <1>1, <2>1, <2>2, NotFullKeepsItems
  <2>4. ItemsCovered(pc', n - 1)
    BY <2>2, <2>3, NumberType DEF ItemsCovered, Covered
  <2>5. ASSUME ~closed PROVE RoomCovered(pc', m + 1)
    BY <1>1, <2>1, <2>2, <2>5, NotFullCoversRoom
  <2> QED BY <2>1, <2>2, <2>4, <2>5, CoveredIsNoLostWakeup
<1>11. ASSUME NEW t \in Closers, Close(t)
       PROVE  NoLostWakeup'
  <2>1. /\ t \in Threads /\ pc[t] = "idle" /\ closed' = TRUE /\ q' = q
        /\ pc' = [pc EXCEPT ![t] = "closeNotEmpty"]
    BY <1>3, <1>11 DEF Close
  <2>2. ItemsKept(pc[t], "closeNotEmpty", Len(q), Len(q'))
    BY <1>1, <2>1 DEF ItemsKept
  <2> QED BY <1>1, <2>1, <2>2, MoveKeepsWakeups
<1>12. ASSUME NEW t \in Closers, CloseNotifyNotEmpty(t)
       PROVE  NoLostWakeup'
  <2>1. /\ t \in Threads /\ pc[t] = "closeNotEmpty" /\ closed' = closed /\ q' = q
        /\ pc' = NotifyAll("popWait", "popReady", [pc EXCEPT ![t] = "closeNotFull"])
    BY <1>3, <1>12 DEF CloseNotifyNotEmpty
  <2>2. \A u \in Threads : pc'[u] = IF u = t THEN "closeNotFull"
                                   ELSE IF pc[u] = "popWait" THEN "popReady" ELSE pc[u]
    BY <1>1, <2>1 DEF NotifyAll
  <2>3. /\ In(pc', "popWait") = {}
        /\ In(pc', "pushWait") = In(pc, "pushWait")
        /\ In(pc', "pushReady") = In(pc, "pushReady")
        /\ In(pc', "popNotify") = In(pc, "popNotify")
    BY <2>1, <2>2 DEF In
  <2>4. ItemsCovered(pc', Len(q'))
    BY <2>3 DEF ItemsCovered, Covered
  <2>5. ~closed => RoomCovered(pc', Capacity - Len(q'))
    BY <1>4, <2>1, <2>3 DEF RoomCovered, Covered, Number
  <2> QED BY <2>1, <2>4, <2>5, CoveredIsNoLostWakeup
<1>13. ASSUME NEW t \in Closers, CloseNotifyNotFull(t)
       PROVE  NoLostWakeup'
  <2>1. /\ t \in Threads /\ pc[t] = "closeNotFull" /\ closed' = closed /\ q' = q
        /\ pc' = NotifyAll("pushWait", "pushReady", [pc EXCEPT ![t] = "done"])
    BY <1>3, <1>13 DEF CloseNotifyNotFull
  <2>2. \A u \in Threads : pc'[u] = IF u = t THEN "done"
                                   ELSE IF pc[u] = "pushWait" THEN "pushReady" ELSE pc[u]
    BY <1>1, <2>1 DEF NotifyAll
  <2>3. /\ In(pc', "pushWait") = {}
        /\ In(pc', "popWait") = In(pc, "popWait")
        /\ In(pc', "popReady") = In(pc, "popReady")
        /\ In(pc', "pushNotify") = In(pc, "pushNotify")
    BY <2>1, <2>2 DEF In
  <2>4. ItemsCovered(pc', Len(q'))
    BY <1>4, <2>1, <2>3 DEF ItemsCovered, Covered, Number
  <2>5. RoomCovered(pc', Capacity - Len(q'))
    BY <2>3 DEF RoomCovered, Covered
  <2> QED BY <2>4, <2>5, CoveredIsNoLostWakeup
<1>14. ASSUME NEW t \in Threads, SpuriousWakeup(t)
       PROVE  NoLostWakeup'
  <2>1. q' = q /\ closed' = closed
    BY <1>14 DEF SpuriousWakeup
  <2>2. CASE pc[t] = "popWait" /\ pc' = [pc EXCEPT ![t] = "popReady"]
    <3>1. ItemsKept(pc[t], "popReady", Len(q), Len(q'))
      BY <1>1, <2>1, <2>2 DEF ItemsKept
    <3>2. RoomKept(pc[t], "popReady", Capacity - Len(q), Capacity - Len(q'))
      BY <1>1, <2>1, <2>2 DEF RoomKept
    <3> QED BY <1>1, <2>1, <2>2, <3>1, <3>2, MoveKeepsWakeups
  <2>3. CASE pc[t] = "pushWait" /\ pc' = [pc EXCEPT ![t] = "pushReady"]
    <3>1. ItemsKept(pc[t], "pushReady", Len(q), Len(q'))
      BY <1>1, <2>1, <2>3 DEF ItemsKept
    <3>2. RoomKept(pc[t], "pushReady", Capacity - Len(q), Capacity - Len(q'))
      BY <1>1, <2>1, <2>3 DEF RoomKept
    <3> QED BY <1>1, <2>1, <2>3, <3>1, <3>2, MoveKeepsWakeups
  <2> QED BY <1>14, <2>2, <2>3 DEF SpuriousWakeup
<1>15. CASE Terminated
  BY <1>4, <1>15, CoveredIsNoLostWakeup DEF Terminated, vars
<1> QED
  BY <1>5, <1>6, <1>7, <1>8, <1>9, <1>10, <1>11, <1>12, <1>13, <1>14, <1>15 DEF Next

\* A sleeping thread never misses its wakeup, although push and pop notify after they
\* have released the mutex.
THEOREM WakeupsNotLost == Spec => []NoLostWakeup
<1>1. Init => NoLostWakeup
  BY DEF Init, NoLostWakeup, At
<1>2. IInv /\ NoLostWakeup /\ [Next]_vars => NoLostWakeup'
  BY StepKeepsWakeups DEF vars, NoLostWakeup, At
<1> QED
  BY <1>1, <1>2, Invariance, PTL DEF Spec
=============================================================================
