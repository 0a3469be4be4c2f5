-------------------------- MODULE MediaSessionProofs --------------------------
(***************************************************************************)
(* The media session for every number of packets, of endpoints, and of     *)
(* frames, and every capacity of the queue: the echo is in order and goes  *)
(* to an endpoint the peer was heard from, and when stop returns nothing   *)
(* is left running and nothing accepted is left unsaid.                    *)
(***************************************************************************)
EXTENDS MediaSession, FiniteSetTheorems, WellFoundedInduction, TLAPS

Increasing(s) == \A i, j \in 1 .. Len(s) : i < j => s[i] < s[j]

\* What the threads hold and share.
Types ==
  /\ jbuf \subseteq Nat /\ played \in Nat /\ {inserting, popped, taken} \subseteq Nat
  /\ accepted \in Seq(Nat) /\ left \in Seq(Nat)
  /\ echoed \in Seq([packet : Nat, to : Sources \union {SdpPeer}])
  /\ remote \in Sources \union {SdpPeer} /\ heard \subseteq Sources
  /\ send \in [Senders -> {"idle", "asking", "locking", "sending"}]

\* The packets on their way through the jitter buffer, the playout thread and the
\* queue are one increasing sequence: the buffer is ahead of what was played, and
\* what was played is ahead of what the queue accepted.
InOrder ==
  /\ \A p \in jbuf : p > played
  /\ Increasing(accepted)
  /\ \A i \in 1 .. Len(accepted) : accepted[i] <= played
  /\ playout = "push" => popped = played /\ \A i \in 1 .. Len(accepted) : accepted[i] < played

\* The output thread echoes what it takes, one by one.
Echoed ==
  /\ Len(left) <= Len(accepted)
  /\ Len(left) = IF output = "fork" THEN Len(echoed) + 1 ELSE Len(echoed)
  /\ output = "fork" => taken = accepted[Len(left)]
  /\ \A i \in 1 .. Len(echoed) : echoed[i].packet = accepted[i]

\* A packet can only come from an endpoint that has been heard.
Latched ==
  /\ main \in {"new", "connecting"} => recv = "off" /\ heard = {}
  /\ heard # {} => remote \in heard
  /\ heard = {} =>
       /\ recv \notin {"insert", "inserting"} /\ jbuf = {}
       /\ playout # "push" /\ accepted = <<>> /\ output # "fork"
  /\ \A i \in 1 .. Len(echoed) : echoed[i].to \in heard

\* A client that is being closed, or closed.
Closing ==
  /\ goal = "close" /\ user \in {"closing", "joining", "idle"}
  /\ user = "joining" => ~fdOpen
  /\ user = "idle" => ~fdOpen /\ reader = "none"

\* Who has been joined has ended, having left nothing behind; and once the client is
\* closed nobody connects it again.
Joined ==
  /\ recv # "digit" => send["recv"] = "idle"
  /\ output # "fork" => send["output"] = "idle"
  /\ output = "done" => closed /\ Len(left) = Len(accepted)
  /\ main \in {"joinPlayout", "joinOutput", "closing", "down"} => recv = "done"
  /\ main \in {"joinOutput", "closing", "down"} => playout = "done"
  /\ main \in {"closing", "down"} => output = "done" /\ Closing
  /\ main = "down" => user = "idle"

IInv == Types /\ InOrder /\ Echoed /\ Latched /\ Joined

\* Min picks the oldest queued packet.
LEMMA MinIsOldest ==
  ASSUME NEW S \in SUBSET Nat, S # {}
  PROVE  /\ Buffer!Min(S) \in S
         /\ \A e \in S : Buffer!Min(S) <= e
<1> DEFINE R == {ss \in Nat \X Nat : ss[1] < ss[2]}
<1>1. IsWellFoundedOn(R, Nat)
  BY NatLessThanWellFounded DEF OpToRel
<1>2. PICK x \in S : \A y \in S : <<y, x>> \notin R
  <2> HIDE DEF R
  <2> QED BY <1>1, WFMin
<1>3. ASSUME NEW y \in S PROVE x <= y
  <2>1. x \in Nat /\ y \in Nat /\ ~(y < x)
    BY <1>2
  <2> QED BY <2>1
<1> QED BY <1>3 DEF Buffer!Min

LEMMA InitIInv == Init => IInv
<1> SUFFICES ASSUME Init PROVE IInv
  OBVIOUS
<1>1. Types
  <2>1. send \in [Senders -> {"idle", "asking", "locking", "sending"}]
    BY DEF Init, Ws!Init
  <2> QED BY <2>1 DEF Init, Queue!Init, Buffer!Init, Types, None
<1>2. InOrder /\ Echoed /\ Latched
  BY DEF Init, Queue!Init, Buffer!Init, None, InOrder, Increasing, Echoed, Latched
<1>3. Joined
  BY DEF Init, Ws!Init, Joined, Senders
<1> QED BY <1>1, <1>2, <1>3 DEF IInv

-----------------------------------------------------------------------------
(* The steps that belong to ws_ alone *)

ClientRuns == WsUser \/ WsReader \/ Gateway \/ \E t \in Senders : WsSender(t)

\* Who is not in a call of the client does not get into one by itself.
LEMMA SendersStay ==
  ASSUME Types, ClientRuns
  PROVE  /\ send' \in [Senders -> {"idle", "asking", "locking", "sending"}]
         /\ \A t \in Senders : send[t] = "idle" => send'[t] = "idle"
<1> USE DEF Types
<1>1. CASE WsUser
  BY <1>1 DEF WsUser, Ws!UserStep, Ws!UserRuns, Ws!CloseLocks, Ws!Join, Ws!Publish, Ws!Spawn,
              Ws!HandshakeFails, Ws!HandshakeSucceeds
<1>2. CASE WsReader
  BY <1>2 DEF WsReader, Ws!ReaderStep, Ws!ReaderTop, Ws!ReaderGetsFrame, Ws!ReaderGetsError,
              Ws!PongLocks, Ws!PongSent, Ws!ReaderLeaves, Ws!ReaderGoes
<1>3. CASE Gateway
  BY <1>3 DEF Gateway, Ws!Gateway, Ws!GatewayReads, Ws!GatewaySends, Ws!GatewayLeaves, Ws!client
<1>4. ASSUME NEW t \in Senders, WsSender(t)
      PROVE  /\ send' \in [Senders -> {"idle", "asking", "locking", "sending"}]
             /\ \A u \in Senders : send[u] = "idle" => send'[u] = "idle"
  <2>1. PICK to \in {"idle", "locking", "sending"} :
          send[t] # "idle" /\ send' = [send EXCEPT ![t] = to]
    BY <1>4 DEF WsSender, Ws!SenderStep, Ws!Asked, Ws!SendLocks, Ws!SendDone, Ws!SenderGoes
  <2> QED BY <2>1
<1> QED BY <1>1, <1>2, <1>3, <1>4 DEF ClientRuns

LEMMA ClosingStays ==
  ASSUME Closing, ClientRuns
  PROVE  Closing' /\ (user = "idle" => user' = "idle")
<1> USE DEF Closing
<1>1. CASE WsUser
  BY <1>1 DEF WsUser, Ws!UserStep, Ws!UserRuns, Ws!CloseLocks, Ws!CloseFd, Ws!Join, Ws!Publish,
              Ws!Spawn, Ws!HandshakeFails, Ws!HandshakeSucceeds
<1>2. CASE WsReader
  <2>1. UNCHANGED <<goal, user>> /\ reader # "none" /\ (fdOpen' => fdOpen)
    BY <1>2 DEF WsReader, Ws!ReaderStep, Ws!ReaderTop, Ws!ReaderGetsFrame, Ws!ReaderGetsError,
                Ws!PongLocks, Ws!PongSent, Ws!Transmit, Ws!CloseFd, Ws!ReaderLeaves, Ws!ReaderGoes
  <2> QED BY <2>1
<1>3. CASE Gateway
  BY <1>3 DEF Gateway, Ws!Gateway, Ws!GatewayReads, Ws!GatewaySends, Ws!GatewayLeaves, Ws!client
<1>4. ASSUME NEW t \in Senders, WsSender(t)
      PROVE  Closing' /\ (user = "idle" => user' = "idle")
  <2>1. UNCHANGED <<goal, user, reader>> /\ (fdOpen' => fdOpen)
    BY <1>4 DEF WsSender, Ws!SenderStep, Ws!Asked, Ws!SendLocks, Ws!SendDone, Ws!SenderGoes,
                Ws!Transmit, Ws!CloseFd
  <2> QED BY <2>1
<1> QED BY <1>1, <1>2, <1>3, <1>4 DEF ClientRuns

LEMMA ClientKeeps ==
  ASSUME IInv, ClientRuns
  PROVE  IInv'
<1>1. UNCHANGED <<remote, jbuf, played, accepted, left, closed, main, recv, playout, output,
                  inserting, popped, taken, echoed, heard>>
  BY DEF ClientRuns, WsUser, WsReader, Gateway, WsSender, NotWs, jitter, queue, threads, history
<1>2. Types' /\ InOrder' /\ Echoed' /\ Latched'
  BY <1>1, SendersStay DEF IInv, Types, InOrder, Echoed, Latched
<1>3. Joined'
  <2>1. \A t \in Senders : send[t] = "idle" => send'[t] = "idle"
    BY SendersStay DEF IInv
  <2>2. main \in {"closing", "down"} => Closing' /\ (user = "idle" => user' = "idle")
    BY ClosingStays DEF IInv, Joined, Closing
  <2> QED BY <1>1, <2>1, <2>2 DEF IInv, Joined, Closing, Senders
<1> QED BY <1>2, <1>3 DEF IInv

-----------------------------------------------------------------------------
(* main *)

\* Outside start and the last join, main does not touch the client, and it never
\* touches the packets.
LEMMA MainKeeps ==
  ASSUME IInv, Start \/ ReadStats \/ Stop \/ MainStep
  PROVE  IInv'
<1> USE DEF Main, history
<1>1. /\ UNCHANGED <<jbuf, played, accepted, left, inserting, popped, taken, echoed, heard>>
      /\ UNCHANGED <<recv, playout, output>> \/ StartThreads
  BY DEF Start, ReadStats, Stop, MainStep, StartThreads, CloseQueue, JoinRecv, JoinPlayout,
         JoinOutput, Stopped, queue, Queue!Close
<1>2. UNCHANGED send
  BY DEF Start, ReadStats, Stop, MainStep, StartThreads, CloseQueue, JoinRecv, JoinPlayout,
         JoinOutput, Stopped, ws, Ws!Connect, Ws!Close, Ws!BeginClose
<1>3. CASE Start
  <2>1. UNCHANGED <<recv, playout, output, closed>> /\ main = "new" /\ main' = "connecting"
        /\ remote' = SdpPeer
    BY <1>3 DEF Start, queue
  <2>2. Types' /\ InOrder' /\ Echoed'
    BY <1>1, <1>2, <2>1 DEF IInv, Types, InOrder, Echoed
  <2>3. Latched' /\ Joined'
    BY <1>1, <1>2, <2>1 DEF IInv, Latched, Joined
  <2> QED BY <2>2, <2>3 DEF IInv
<1>4. CASE StartThreads
  <2>1. /\ recv' = "poll" /\ playout' = "top" /\ output' = "wait"
        /\ main = "connecting" /\ main' = "up" /\ UNCHANGED <<remote, closed>>
        /\ recv = "off" /\ heard = {}
    BY <1>4 DEF StartThreads, queue, IInv, Latched
  <2>2. output # "fork" /\ recv # "digit"
    BY <2>1 DEF IInv, Latched
  <2>3. Types' /\ InOrder' /\ Echoed'
    BY <1>1, <1>2, <2>1, <2>2 DEF IInv, Types, InOrder, Echoed
  <2>4. Latched' /\ Joined'
    BY <1>1, <1>2, <2>1, <2>2 DEF IInv, Latched, Joined
  <2> QED BY <2>3, <2>4 DEF IInv
<1>5. CASE ReadStats \/ Stop \/ CloseQueue \/ JoinRecv \/ JoinPlayout \/ JoinOutput \/ Stopped
  <2>1. UNCHANGED <<remote, recv, playout, output>> /\ main' \notin {"new", "connecting"}
    BY <1>5 DEF ReadStats, Stop, CloseQueue, JoinRecv, JoinPlayout, JoinOutput, Stopped
  <2>2. Types' /\ InOrder' /\ Echoed' /\ Latched'
    BY <1>1, <1>2, <2>1 DEF IInv, Types, InOrder, Echoed, Latched
  <2>3. ASSUME JoinOutput PROVE Joined'
    <3>1. main = "joinOutput" /\ main' = "closing" /\ output = "done" /\ UNCHANGED closed
          /\ user' = "closing" /\ goal' = "close"
      BY <2>3 DEF JoinOutput, Ws!Close, Ws!BeginClose, queue
    <3> QED BY <1>1, <1>2, <2>1, <3>1 DEF IInv, Joined, Closing
  <2>4. ASSUME CloseQueue PROVE Joined'
    <3>1. main' = "joinRecv" /\ closed' = TRUE
      BY <2>4 DEF CloseQueue, Queue!Close
    <3> QED BY <1>1, <1>2, <2>1, <3>1 DEF IInv, Joined
  <2>5. ASSUME ReadStats \/ Stop \/ JoinRecv \/ JoinPlayout \/ Stopped PROVE Joined'
    <3>1. UNCHANGED <<closed, goal, user, fdOpen, reader>>
      BY <2>5 DEF ReadStats, Stop, JoinRecv, JoinPlayout, Stopped, queue, ws
    <3>2. \/ main' \in {"up", "closeQueue"}
          \/ main' = "joinPlayout" /\ recv = "done"
          \/ main' = "joinOutput" /\ main = "joinPlayout" /\ playout = "done"
          \/ main' = "down" /\ main = "closing" /\ user = "idle"
      BY <2>5 DEF ReadStats, Stop, JoinRecv, JoinPlayout, Stopped
    <3> QED BY <1>1, <1>2, <2>1, <3>1, <3>2 DEF IInv, Joined, Closing
  <2>6. Joined'
    BY <1>5, <2>3, <2>4, <2>5
  <2> QED BY <2>2, <2>6 DEF IInv
<1> QED BY <1>3, <1>4, <1>5 DEF MainStep

-----------------------------------------------------------------------------
(* The receiving thread *)

LEMMA RecvKeeps ==
  ASSUME IInv, RecvVoice \/ RecvDigit \/ RecvEvent \/ RecvStep
  PROVE  IInv'
<1> USE DEF Recv
<1>1. /\ UNCHANGED <<accepted, left, closed, main, playout, output, popped, taken, echoed, played>>
      /\ recv \notin {"off", "done"}
      /\ recv' \in {"poll", "insert", "inserting", "digit", "done"}
  BY DEF RecvVoice, RecvDigit, RecvEvent, RecvStep, RecvExits, InsertBegins, InsertEnds, DigitSent,
         Buffer!Insert, jitter, queue
<1>2. main \notin {"new", "connecting", "joinPlayout", "joinOutput", "closing", "down"}
  BY <1>1 DEF IInv, Latched, Joined
<1>3. Echoed'
  BY <1>1 DEF IInv, Echoed
<1>4. ASSUME RecvVoice \/ RecvDigit \/ RecvEvent PROVE IInv'
  <2>1. PICK source \in Sources : heard' = heard \union {source} /\ remote' = source
    BY <1>4 DEF RecvVoice, RecvDigit, RecvEvent, Latch
  <2>2. UNCHANGED jbuf /\ inserting' \in Nat
    BY <1>4 DEF RecvVoice, RecvDigit, RecvEvent, jitter, Packets, IInv, Types
  <2>3. /\ send' \in [Senders -> {"idle", "asking", "locking", "sending"}]
        /\ send'["output"] = send["output"]
        /\ recv' = "digit" \/ send'["recv"] = send["recv"]
    <3>1. CASE RecvVoice
      BY <3>1 DEF RecvVoice, ws, IInv, Types
    <3>2. CASE RecvDigit
      <4>1. recv' = "digit" /\ send' = [send EXCEPT !["recv"] = "locking"]
        BY <3>2 DEF RecvDigit, Ws!CallSend, Ws!SenderGoes
      <4> QED BY <4>1 DEF IInv, Types, Senders
    <3>3. CASE RecvEvent
      BY <3>3 DEF RecvEvent, ws, IInv, Types
    <3> QED BY <1>4, <3>1, <3>2, <3>3
  <2>4. recv = "poll"
    BY <1>4 DEF RecvVoice, RecvDigit, RecvEvent
  <2>5. Types' /\ InOrder'
    BY <1>1, <2>1, <2>2, <2>3 DEF IInv, Types, InOrder
  <2>6. Latched'
    BY <1>1, <1>2, <2>1 DEF IInv, Latched
  <2>7. Joined'
    BY <1>1, <1>2, <2>3, <2>4 DEF IInv, Joined
  <2> QED BY <1>3, <2>5, <2>6, <2>7 DEF IInv
<1>5. ASSUME RecvStep PROVE IInv'
  <2>1. UNCHANGED <<remote, heard, send>>
    BY <1>5 DEF RecvStep, RecvExits, InsertBegins, InsertEnds, DigitSent, ws
  <2>2. /\ \/ jbuf' \subseteq jbuf
           \/ /\ recv = "inserting" /\ inserting > played
              /\ jbuf' \subseteq jbuf \union {inserting}
        /\ inserting' \in {inserting, None}
    BY <1>5 DEF RecvStep, RecvExits, InsertBegins, InsertEnds, DigitSent, jitter,
                Buffer!Insert, Buffer!KeptOf
  <2>3. /\ recv' \in {"insert", "inserting"} => recv = "insert"
        /\ recv' # "digit" /\ (recv = "digit" => send["recv"] = "idle")
    BY <1>5 DEF RecvStep, RecvExits, InsertBegins, InsertEnds, DigitSent
  <2>4. Types'
    <3>1. inserting \in Nat /\ inserting' \in Nat
      BY <2>2 DEF IInv, Types, None
    <3>2. jbuf' \subseteq Nat
      BY <2>2, <3>1 DEF IInv, Types
    <3> QED BY <1>1, <2>1, <3>1, <3>2 DEF IInv, Types
  <2>5. InOrder'
    BY <1>1, <2>2 DEF IInv, InOrder
  <2>6. Latched'
    BY <1>1, <1>2, <2>1, <2>2, <2>3 DEF IInv, Latched
  <2>7. Joined'
    BY <1>1, <1>2, <2>1, <2>3 DEF IInv, Joined
  <2> QED BY <1>3, <2>4, <2>5, <2>6, <2>7 DEF IInv
<1> QED BY <1>4, <1>5

-----------------------------------------------------------------------------
(* The playout thread *)

LEMMA PlayoutKeeps ==
  ASSUME IInv, PlayoutStep
  PROVE  IInv'
<1> USE DEF Playout, history
<1>1. /\ UNCHANGED <<remote, left, closed, main, recv, output, inserting, taken, echoed, heard, ws>>
      /\ playout \notin {"off", "done"}
  BY DEF PlayoutStep, PlayoutExits, PlayoutSleeps, PopBegins, PopNothing, PopPacket, TryPush,
         Queue!Put
<1>2. UNCHANGED <<send, goal, user, fdOpen, reader>>
  BY <1>1 DEF ws
<1>3. main \notin {"joinOutput", "closing", "down"}
  BY <1>1 DEF IInv, Joined
<1>4. /\ jbuf \in SUBSET Nat /\ played \in Nat /\ popped \in Nat /\ accepted \in Seq(Nat)
      /\ Len(accepted) \in Nat /\ Len(left) \in Nat
  BY DEF IInv, Types
<1>5. CASE PlayoutExits \/ PlayoutSleeps \/ PopBegins \/ PopNothing
  <2>1. UNCHANGED <<jbuf, played, accepted, popped>> /\ playout' # "push"
    BY <1>5 DEF PlayoutExits, PlayoutSleeps, PopBegins, PopNothing, jitter
  <2>2. Types' /\ InOrder' /\ Echoed' /\ Latched'
    BY <1>1, <1>2, <2>1 DEF IInv, Types, InOrder, Echoed, Latched
  <2>3. Joined'
    BY <1>1, <1>2, <1>3, <2>1 DEF IInv, Joined
  <2> QED BY <2>2, <2>3 DEF IInv
<1>6. CASE PopPacket
  <2> DEFINE p == Buffer!Oldest
  <2>1. /\ p \in jbuf /\ p \in Nat /\ \A q \in jbuf : p <= q
        /\ popped' = p /\ played' = p /\ jbuf' = jbuf \ {p}
        /\ UNCHANGED accepted /\ playout' = "push"
    BY <1>4, <1>6, MinIsOldest DEF PopPacket, Buffer!Remove, Buffer!Oldest
  <2> HIDE DEF p
  <2>2. p > played
    BY <2>1 DEF IInv, InOrder
  <2>3. \A i \in 1 .. Len(accepted) : accepted[i] < p
    <3> TAKE i \in 1 .. Len(accepted)
    <3>1. accepted[i] \in Nat /\ accepted[i] <= played
      BY <1>4 DEF IInv, InOrder
    <3> QED BY <1>4, <2>1, <2>2, <3>1
  <2>4. \A q \in jbuf \ {p} : q > p
    BY <1>4, <2>1
  <2>5. \A i \in 1 .. Len(accepted) : accepted[i] <= p
    BY <1>4, <2>1, <2>3
  <2>6. InOrder'
    BY <2>1, <2>3, <2>4, <2>5 DEF IInv, InOrder
  <2>7. Types'
    BY <1>1, <1>2, <1>4, <2>1 DEF IInv, Types
  <2>8. Echoed' /\ Latched'
    BY <1>1, <2>1 DEF IInv, Echoed, Latched
  <2>9. Joined'
    BY <1>1, <1>2, <1>3, <2>1 DEF IInv, Joined
  <2> QED BY <2>6, <2>7, <2>8, <2>9 DEF IInv
<1>7. CASE TryPush
  <2>1. UNCHANGED <<jbuf, played>> /\ popped' = None /\ playout = "push" /\ playout' = "top"
    BY <1>7 DEF TryPush, jitter
  <2>2. popped = played /\ \A i \in 1 .. Len(accepted) : accepted[i] < played
    BY <2>1 DEF IInv, InOrder
  <2>3. CASE UNCHANGED accepted
    <3>1. Types'
      BY <1>1, <1>2, <2>1, <2>3 DEF IInv, Types, None
    <3>2. InOrder' /\ Echoed'
      BY <1>1, <2>1, <2>3 DEF IInv, InOrder, Echoed
    <3>3. Latched'
      BY <1>1, <2>1, <2>3 DEF IInv, Latched
    <3>4. Joined'
      BY <1>1, <1>2, <1>3, <2>3 DEF IInv, Joined
    <3> QED BY <3>1, <3>2, <3>3, <3>4 DEF IInv
  <2>4. CASE accepted' = Append(accepted, popped) /\ Queue!Put
    <3> DEFINE n == Len(accepted)
    <3>1. /\ accepted' \in Seq(Nat) /\ Len(accepted') = n + 1 /\ accepted'[n + 1] = played
          /\ \A i \in 1 .. n : accepted'[i] = accepted[i]
      BY <1>4, <2>2, <2>4
    <3>2. ~closed /\ heard # {}
      BY <2>1, <2>4 DEF Queue!Put, IInv, Latched
    <3>3. ASSUME NEW i \in 1 .. n + 1 PROVE accepted'[i] <= played
      <4>1. i \in 1 .. n => accepted[i] \in Nat
        BY <1>4
      <4>2. i \in 1 .. n \/ i = n + 1
        BY <1>4
      <4> QED BY <1>4, <2>2, <3>1, <4>1, <4>2
    <3>4. ASSUME NEW i \in 1 .. n + 1, NEW j \in 1 .. n + 1, i < j
          PROVE  accepted'[i] < accepted'[j]
      <4>1. i \in 1 .. n /\ (j \in 1 .. n \/ j = n + 1)
        BY <1>4, <3>4
      <4>2. accepted'[i] = accepted[i] /\ accepted[i] < played
        BY <2>2, <3>1, <4>1
      <4>3. j \in 1 .. n => accepted'[j] = accepted[j] /\ accepted[i] < accepted[j]
        BY <3>1, <3>4, <4>1 DEF IInv, InOrder, Increasing
      <4> QED BY <3>1, <4>1, <4>2, <4>3
    <3>5. Len(left) <= n
      BY DEF IInv, Echoed
    <3>6. InOrder'
      <4>1. Increasing(accepted')
        BY <3>1, <3>4 DEF Increasing
      <4> QED BY <2>1, <3>1, <3>3, <4>1 DEF IInv, InOrder
    <3>7. Types'
      BY <1>1, <1>2, <2>1, <3>1 DEF IInv, Types, None
    <3>8. Echoed'
      <4>1. echoed \in Seq([packet : Nat, to : Sources \union {SdpPeer}])
        BY DEF IInv, Types
      <4>2. Len(echoed) \in Nat /\ Len(echoed) <= n /\ Len(left) <= n + 1
        BY <1>4, <3>5, <4>1 DEF IInv, Echoed
      <4>3. output = "fork" => Len(left) \in 1 .. n
        BY <1>4, <3>5, <4>1 DEF IInv, Echoed
      <4>4. \A i \in 1 .. Len(echoed) : i \in 1 .. n
        BY <1>4, <4>2
      <4> QED BY <1>1, <3>1, <4>2, <4>3, <4>4 DEF IInv, Echoed
    <3>9. Latched'
      BY <1>1, <2>1, <3>2 DEF IInv, Latched
    <3>10. Joined'
      BY <1>1, <1>2, <1>3, <3>2 DEF IInv, Joined
    <3> QED BY <3>6, <3>7, <3>8, <3>9, <3>10 DEF IInv
  <2> QED BY <1>7, <2>3, <2>4 DEF TryPush
<1> QED BY <1>5, <1>6, <1>7 DEF PlayoutStep

-----------------------------------------------------------------------------
(* The output thread *)

LEMMA OutputKeeps ==
  ASSUME IInv, OutputStep
  PROVE  IInv'
<1> USE DEF Output
<1>1. /\ UNCHANGED <<remote, jbuf, played, accepted, main, recv, playout, inserting, popped, heard>>
      /\ UNCHANGED closed /\ output \notin {"off", "done"}
  BY DEF OutputStep, OutputTakes, Echo, OutputExits, jitter, Queue!Get
<1>2. main \notin {"closing", "down"}
  BY <1>1 DEF IInv, Joined
<1>3. /\ accepted \in Seq(Nat) /\ left \in Seq(Nat) /\ taken \in Nat
      /\ echoed \in Seq([packet : Nat, to : Sources \union {SdpPeer}])
      /\ Len(accepted) \in Nat /\ Len(left) \in Nat /\ Len(echoed) \in Nat
  BY DEF IInv, Types
<1>4. InOrder'
  BY <1>1 DEF IInv, InOrder
<1>5. CASE OutputTakes
  <2>1. /\ output = "wait" /\ output' = "fork" /\ UNCHANGED echoed
        /\ Len(left) < Len(accepted)
        /\ left' = Append(left, Len(left) + 1) /\ taken' = accepted[Len(left')]
        /\ send' = [send EXCEPT !["output"] = "asking"]
    BY <1>5 DEF OutputTakes, Queue!Get, Ws!CallConnected, Ws!SenderGoes
  <2>2. left' \in Seq(Nat) /\ Len(left') = Len(left) + 1 /\ Len(left') \in 1 .. Len(accepted)
    BY <1>3, <2>1
  <2>3. /\ send' \in [Senders -> {"idle", "asking", "locking", "sending"}]
        /\ send'["recv"] = send["recv"]
    BY <2>1 DEF IInv, Types, Senders
  <2>4. taken' \in Nat
    BY <1>3, <2>1, <2>2
  <2>5. Types'
    BY <1>1, <2>1, <2>2, <2>3, <2>4 DEF IInv, Types
  <2>6. Echoed'
    BY <1>1, <1>3, <2>1, <2>2 DEF IInv, Echoed
  <2>7. Latched'
    <3>1. heard # {}
      BY <1>3, <2>1 DEF IInv, Latched
    <3> QED BY <1>1, <2>1, <3>1 DEF IInv, Latched
  <2>8. Joined'
    BY <1>1, <1>2, <2>1, <2>3 DEF IInv, Joined
  <2> QED BY <1>4, <2>5, <2>6, <2>7, <2>8 DEF IInv
<1>6. CASE Echo
  <2> DEFINE r == [packet |-> taken, to |-> remote]
             n == Len(echoed)
  <2>1. /\ output = "fork" /\ output' = "wait" /\ send["output"] = "idle"
        /\ echoed' = Append(echoed, r) /\ taken' = None
        /\ UNCHANGED <<left, send>>
    BY <1>6 DEF Echo, ws
  <2>2. r \in [packet : Nat, to : Sources \union {SdpPeer}]
    BY <1>3 DEF IInv, Types
  <2>3. r.packet = taken /\ r.to = remote
    OBVIOUS
  <2> HIDE DEF r
  <2>4. /\ echoed' \in Seq([packet : Nat, to : Sources \union {SdpPeer}])
        /\ Len(echoed') = n + 1 /\ echoed'[n + 1] = r
        /\ \A i \in 1 .. n : echoed'[i] = echoed[i]
    BY <1>3, <2>1, <2>2
  <2>5. Len(left) = n + 1 /\ taken = accepted[n + 1]
    BY <2>1 DEF IInv, Echoed
  <2>6. heard # {} /\ remote \in heard
    BY <2>1 DEF IInv, Latched
  <2>7. \A i \in 1 .. n + 1 : i \in 1 .. n \/ i = n + 1
    BY <1>3
  <2>8. Types'
    BY <1>1, <2>1, <2>4 DEF IInv, Types, None
  <2>9. Echoed'
    <3>1. \A i \in 1 .. n + 1 : echoed'[i].packet = accepted[i]
      BY <2>3, <2>4, <2>5, <2>7 DEF IInv, Echoed
    <3> QED BY <1>1, <2>1, <2>4, <2>5, <3>1 DEF IInv, Echoed
  <2>10. Latched'
    <3>1. \A i \in 1 .. n + 1 : echoed'[i].to \in heard
      BY <2>3, <2>4, <2>6, <2>7 DEF IInv, Latched
    <3> QED BY <1>1, <2>1, <2>4, <3>1 DEF IInv, Latched
  <2>11. Joined'
    BY <1>1, <1>2, <2>1 DEF IInv, Joined
  <2> QED BY <1>4, <2>8, <2>9, <2>10, <2>11 DEF IInv
<1>7. CASE OutputExits
  <2>1. /\ output = "wait" /\ output' = "done" /\ closed /\ Len(left) = Len(accepted)
        /\ UNCHANGED <<left, taken, echoed, send>>
    BY <1>7 DEF OutputExits, ws
  <2>2. Types' /\ Echoed'
    BY <1>1, <2>1 DEF IInv, Types, Echoed
  <2>3. Latched' /\ Joined'
    BY <1>1, <1>2, <2>1 DEF IInv, Latched, Joined
  <2> QED BY <1>4, <2>2, <2>3 DEF IInv
<1> QED BY <1>5, <1>6, <1>7 DEF OutputStep

-----------------------------------------------------------------------------
LEMMA NextIInv == IInv /\ [Next]_vars => IInv'
<1> SUFFICES ASSUME IInv, [Next]_vars PROVE IInv'
  OBVIOUS
<1>1. CASE UNCHANGED vars
  <2>1. UNCHANGED <<remote, jbuf, played, accepted, left, closed, main, recv, playout, output,
                    inserting, popped, taken, echoed, heard, send, goal, user, fdOpen, reader>>
    BY <1>1 DEF vars, jitter, queue, threads, history, ws
  <2>2. Types' /\ InOrder' /\ Echoed' /\ Latched'
    BY <2>1 DEF IInv, Types, InOrder, Echoed, Latched
  <2>3. Joined'
    BY <2>1 DEF IInv, Joined, Closing
  <2> QED BY <2>2, <2>3 DEF IInv
<1>2. CASE Next
  BY <1>2, MainKeeps, RecvKeeps, PlayoutKeeps, OutputKeeps, ClientKeeps DEF Next, ClientRuns
<1> QED BY <1>1, <1>2

LEMMA Invariance == Spec => []IInv
BY InitIInv, NextIInv, PTL DEF Spec

\* main.cpp:126-249: what the output thread sends back has crossed the jitter buffer, the
\* playout thread and the queue, and is in the order the peer sent it, nothing twice.
THEOREM OrderKept == Spec => []EchoInOrder
<1>1. IInv => EchoInOrder
  <2> SUFFICES ASSUME IInv, NEW i \in DOMAIN echoed, NEW j \in DOMAIN echoed, i < j
               PROVE  echoed[i].packet < echoed[j].packet
    BY DEF EchoInOrder
  <2>1. /\ echoed \in Seq([packet : Nat, to : Sources \union {SdpPeer}])
        /\ accepted \in Seq(Nat) /\ left \in Seq(Nat)
    BY DEF IInv, Types
  <2>2. i \in 1 .. Len(echoed) /\ j \in 1 .. Len(echoed)
    BY <2>1
  <2>3. Len(echoed) <= Len(accepted)
    BY <2>1 DEF IInv, Echoed
  <2>4. i \in 1 .. Len(accepted) /\ j \in 1 .. Len(accepted)
    BY <2>1, <2>2, <2>3
  <2> QED BY <2>2, <2>4 DEF IInv, Echoed, InOrder, Increasing
<1> QED BY <1>1, Invariance, PTL

\* main.cpp:165-184: the echo goes to an endpoint the peer was heard from.
THEOREM EchoFollowsPeer == Spec => []EchoGoesToHeardPeer
<1>1. IInv => EchoGoesToHeardPeer
  <2> SUFFICES ASSUME IInv, NEW i \in DOMAIN echoed PROVE echoed[i].to \in heard
    BY DEF EchoGoesToHeardPeer
  <2>1. i \in 1 .. Len(echoed)
    BY DEF IInv, Types
  <2> QED BY <2>1 DEF IInv, Latched
<1> QED BY <1>1, Invariance, PTL

\* main.cpp:92-99: when stop returns its three threads have ended, the client is idle and
\* closed, its reader joined, and every packet the queue accepted was echoed.
THEOREM StopLeavesNothing == Spec => []StoppedIsQuiet
<1>1. IInv => StoppedIsQuiet
  <2> SUFFICES ASSUME IInv, main = "down"
               PROVE  /\ {recv, playout, output} = {"done"}
                      /\ \A t \in Senders : send[t] = "idle"
                      /\ reader = "none" /\ ~fdOpen
                      /\ Len(echoed) = Len(accepted)
    BY DEF StoppedIsQuiet
  <2>1. recv = "done" /\ playout = "done" /\ output = "done" /\ user = "idle" /\ Closing
    BY DEF IInv, Joined
  <2>2. send["recv"] = "idle" /\ send["output"] = "idle" /\ Len(left) = Len(accepted)
    BY <2>1 DEF IInv, Joined
  <2> QED BY <2>1, <2>2 DEF IInv, Echoed, Closing, Senders
<1> QED BY <1>1, Invariance, PTL

-----------------------------------------------------------------------------
(* What the session is composed of: it calls the queue and the client only as  *)
(* their own modules allow, so that what is proved of those holds in it.       *)

WsProofs == INSTANCE WsClientProofs

LEMMA StepsOfQueue == [Next]_vars => [Queue!Next]_(Queue!vars)
<1> SUFFICES ASSUME [Next]_vars PROVE Queue!Next \/ UNCHANGED Queue!vars
  OBVIOUS
<1> USE DEF Queue!Next, Queue!vars
<1>1. CASE CloseQueue
  BY <1>1 DEF CloseQueue, Queue!Close
<1>2. CASE OutputTakes
  BY <1>2 DEF OutputTakes, Output, Queue!Get
<1>3. CASE UNCHANGED <<accepted, left, closed>>
  BY <1>3
<1>4. CASE TryPush
  <2>1. CASE Queue!Put
    BY <2>1
  <2> QED BY <1>3, <1>4, <2>1 DEF TryPush, Playout
<1>5. CASE Start \/ ReadStats \/ Stop \/ StartThreads \/ JoinRecv \/ JoinPlayout \/ JoinOutput \/ Stopped
  BY <1>3, <1>5 DEF Start, ReadStats, Stop, StartThreads, JoinRecv, JoinPlayout, JoinOutput,
                    Stopped, queue
<1>6. CASE RecvVoice \/ RecvDigit \/ RecvEvent \/ RecvStep
  BY <1>3, <1>6 DEF RecvVoice, RecvDigit, RecvEvent, RecvStep, RecvExits, InsertBegins, InsertEnds,
                    DigitSent, Recv, queue
<1>7. CASE PlayoutExits \/ PlayoutSleeps \/ PopBegins \/ PopNothing \/ PopPacket
  BY <1>3, <1>7 DEF PlayoutExits, PlayoutSleeps, PopBegins, PopNothing, PopPacket, Playout
<1>8. CASE Echo \/ OutputExits
  BY <1>3, <1>8 DEF Echo, OutputExits, Output
<1>9. CASE ClientRuns
  BY <1>3, <1>9 DEF ClientRuns, WsUser, WsReader, Gateway, WsSender, NotWs, queue
<1>10. CASE UNCHANGED vars
  BY <1>3, <1>10 DEF vars, queue
<1> QED
  BY <1>1, <1>2, <1>4, <1>5, <1>6, <1>7, <1>8, <1>9, <1>10
  DEF Next, MainStep, PlayoutStep, OutputStep, ClientRuns

LEMMA StepsOfBuffer == Types /\ [Next]_vars => [Buffer!Next]_(Buffer!vars)
<1> SUFFICES ASSUME Types, [Next]_vars PROVE Buffer!Next \/ UNCHANGED Buffer!vars
  OBVIOUS
<1> USE DEF Buffer!vars
<1>1. CASE InsertEnds
  <2>1. inserting \in Int /\ Buffer!Insert(inserting)
    BY <1>1 DEF InsertEnds, Types
  <2> QED BY <2>1 DEF Buffer!Next
<1>2. CASE PopPacket
  BY <1>2 DEF PopPacket, Buffer!Next
<1>3. CASE UNCHANGED <<jbuf, played>>
  BY <1>3
<1>4. CASE Start \/ ReadStats \/ Stop \/ MainStep
  BY <1>3, <1>4 DEF Start, ReadStats, Stop, MainStep, StartThreads, CloseQueue, JoinRecv,
                    JoinPlayout, JoinOutput, Stopped, Main
<1>5. CASE RecvVoice \/ RecvDigit \/ RecvEvent \/ RecvExits \/ InsertBegins \/ DigitSent
  BY <1>3, <1>5 DEF RecvVoice, RecvDigit, RecvEvent, RecvExits, InsertBegins, DigitSent, jitter
<1>6. CASE PlayoutExits \/ PlayoutSleeps \/ PopBegins \/ PopNothing \/ TryPush
  BY <1>3, <1>6 DEF PlayoutExits, PlayoutSleeps, PopBegins, PopNothing, TryPush, jitter
<1>7. CASE OutputStep
  BY <1>3, <1>7 DEF OutputStep, OutputTakes, Echo, OutputExits, Output, jitter
<1>8. CASE ClientRuns
  BY <1>3, <1>8 DEF ClientRuns, WsUser, WsReader, Gateway, WsSender, NotWs, jitter
<1>9. CASE UNCHANGED vars
  BY <1>3, <1>9 DEF vars, jitter
<1> QED
  BY <1>1, <1>2, <1>4, <1>5, <1>6, <1>7, <1>8, <1>9
  DEF Next, RecvStep, PlayoutStep, ClientRuns

LEMMA StepsOfClient == [Next]_vars => [Ws!Next]_(Ws!vars)
<1> SUFFICES ASSUME [Next]_vars PROVE Ws!Next \/ UNCHANGED Ws!vars
  OBVIOUS
<1> USE DEF Ws!vars, Ws!client, Ws!net
<1>1. CASE UNCHANGED ws
  BY <1>1 DEF ws
<1>2. CASE Start \/ JoinOutput
  BY <1>2 DEF Start, JoinOutput, Ws!Next
<1>3. CASE ReadStats \/ Stop \/ StartThreads \/ CloseQueue \/ JoinRecv \/ JoinPlayout \/ Stopped
  BY <1>1, <1>3 DEF ReadStats, Stop, StartThreads, CloseQueue, JoinRecv, JoinPlayout, Stopped
<1>4. CASE RecvDigit
  BY <1>4 DEF RecvDigit, Ws!Next, Senders
<1>5. CASE RecvVoice \/ RecvEvent \/ RecvStep
  BY <1>1, <1>5 DEF RecvVoice, RecvEvent, RecvStep, RecvExits, InsertBegins, InsertEnds, DigitSent
<1>6. CASE PlayoutStep
  <2>1. UNCHANGED ws
    BY <1>6 DEF PlayoutStep, PlayoutExits, PlayoutSleeps, PopBegins, PopNothing, PopPacket,
                TryPush, Playout
  <2> QED BY <1>1, <2>1
<1>7. CASE OutputTakes
  BY <1>7 DEF OutputTakes, Ws!Next, Senders
<1>8. CASE Echo \/ OutputExits
  BY <1>1, <1>8 DEF Echo, OutputExits
<1>9. CASE ClientRuns
  BY <1>9 DEF ClientRuns, WsUser, WsReader, Gateway, WsSender, Ws!Next
<1>10. CASE UNCHANGED vars
  BY <1>1, <1>10 DEF vars
<1> QED
  BY <1>2, <1>3, <1>4, <1>5, <1>6, <1>7, <1>8, <1>9, <1>10
  DEF Next, MainStep, OutputStep, ClientRuns

\* BoundedQueue.h as main.cpp:202, 216 and 94 use it: the session calls its queue as an
\* ordered, bounded, closable hand-off.
THEOREM QueueAsPromised == Spec => Queue!Spec
<1>1. Init => Queue!Init
  BY DEF Init, Queue!Init
<1> QED BY <1>1, StepsOfQueue, PTL DEF Spec, Queue!Spec

\* JitterBuffer.h as main.cpp:158 and 200 use it: the session puts packets in and takes
\* them out as the buffer that keeps their order allows, which JitterBuffer implements.
THEOREM BufferAsPromised == Spec => Buffer!Spec
<1>1. Init => Buffer!Init
  BY DEF Init
<1>2. IInv => Types
  BY DEF IInv
<1> QED BY <1>1, <1>2, Invariance, StepsOfBuffer, PTL DEF Spec, Buffer!Spec

\* main.cpp:77, 98, 119, 222-226: main, the output thread and the receiving thread use the
\* client as WsClient describes, one of them connecting and closing, the others sending.
THEOREM ClientAsPromised == Spec => Ws!Spec
<1>1. Init => Ws!Init
  BY DEF Init
<1> QED BY <1>1, StepsOfClient, PTL DEF Spec, Ws!Spec

LEMMA SameClient == Ws!Spec => WsProofs!Spec
<1>1. Ws!Init => WsProofs!Init
  BY DEF Ws!Init, WsProofs!Init
<1>2. [Ws!Next]_(Ws!vars) => [WsProofs!Next]_(WsProofs!vars)
  BY DEF
    Ws!Next, Ws!vars, Ws!client, Ws!net, Ws!Connect, Ws!Close, Ws!BeginClose, Ws!CloseFd,
    Ws!UserStep, Ws!UserRuns, Ws!CloseLocks, Ws!Join, Ws!HandshakeFails, Ws!HandshakeSucceeds,
    Ws!Publish, Ws!Spawn, Ws!ReaderStep, Ws!ReaderGoes, Ws!ReaderTop, Ws!ReaderGetsFrame,
    Ws!ReaderGetsError, Ws!PongLocks, Ws!PongSent, Ws!ReaderLeaves, Ws!Transmit,
    Ws!SenderStep, Ws!SenderGoes, Ws!CallConnected, Ws!CallSend, Ws!Asked, Ws!SendLocks,
    Ws!SendDone, Ws!Gateway, Ws!GatewayReads, Ws!GatewaySends, Ws!GatewayLeaves,
    WsProofs!Next, WsProofs!vars, WsProofs!client, WsProofs!net, WsProofs!Connect,
    WsProofs!Close, WsProofs!BeginClose, WsProofs!CloseFd, WsProofs!UserStep,
    WsProofs!UserRuns, WsProofs!CloseLocks, WsProofs!Join, WsProofs!HandshakeFails,
    WsProofs!HandshakeSucceeds, WsProofs!Publish, WsProofs!Spawn, WsProofs!ReaderStep,
    WsProofs!ReaderGoes, WsProofs!ReaderTop, WsProofs!ReaderGetsFrame,
    WsProofs!ReaderGetsError, WsProofs!PongLocks, WsProofs!PongSent, WsProofs!ReaderLeaves,
    WsProofs!Transmit, WsProofs!SenderStep, WsProofs!SenderGoes, WsProofs!CallConnected,
    WsProofs!CallSend, WsProofs!Asked, WsProofs!SendLocks, WsProofs!SendDone,
    WsProofs!Gateway, WsProofs!GatewayReads, WsProofs!GatewaySends, WsProofs!GatewayLeaves
<1> QED BY <1>1, <1>2, PTL DEF Ws!Spec, WsProofs!Spec

\* WsClient.cpp:107, 333-345 under main.cpp:77-119, 222-226: also with main, the output
\* thread and the receiving thread in it, no frame to the gateway is cut, and as long as
\* the session uses a connection somebody drains it.
THEOREM SessionSendsWhole == Spec => [](Ws!FramesWhole /\ Ws!ConnectionHasReader)
<1>1. WsProofs!WsAssumption
  BY MediaAssumption DEF WsProofs!WsAssumption, Senders, User, Reader, Free, MaxConnects
<1>2. WsProofs!Spec => []WsProofs!FramesWhole
  BY <1>1, WsProofs!NoFrameCut
<1>3. WsProofs!Spec => []WsProofs!ConnectionHasReader
  BY <1>1, WsProofs!AlwaysDrained
<1>4. WsProofs!FramesWhole => Ws!FramesWhole
  BY DEF Ws!FramesWhole, WsProofs!FramesWhole, Ws!Sending, WsProofs!Sending
<1>5. WsProofs!ConnectionHasReader => Ws!ConnectionHasReader
  BY DEF Ws!ConnectionHasReader, WsProofs!ConnectionHasReader
<1> QED BY <1>2, <1>3, <1>4, <1>5, SameClient, ClientAsPromised, PTL

-----------------------------------------------------------------------------
(* Types *)

\* The packet a thread holds while it has one.
InHand ==
  /\ recv \in {"insert", "inserting"} => inserting \in arrived
  /\ playout = "push" => popped \in Packets
  /\ output = "fork" => taken \in Packets

TInv == SessionTypes /\ IsFiniteSet(arrived) /\ InHand

LEMMA InitTInv == Init => TInv
<1> SUFFICES ASSUME Init PROVE TInv
  OBVIOUS
<1>1. IsFiniteSet({}) /\ MaxPackets \in Nat
  BY FS_EmptySet, MediaAssumption
<1>2. arrived = {} /\ jbuf = {} /\ played = 0 /\ digits = 0 /\ accepted = <<>> /\ left = <<>>
      /\ echoed = <<>> /\ closed = FALSE
  BY DEF Init, Buffer!Init, Queue!Init, None
<1>3. /\ <<>> \in Seq(Packets) /\ <<>> \in Seq(Nat)
      /\ <<>> \in Seq([packet : Packets, to : Sources \union {SdpPeer}])
  OBVIOUS
<1>4. played \in 0 .. MaxPackets /\ digits \in 0 .. MaxPackets
  BY <1>1, <1>2
<1>5. SessionTypes
  BY <1>2, <1>3, <1>4 DEF Init, SessionTypes
<1>6. InHand
  BY DEF Init, InHand
<1> QED BY <1>1, <1>2, <1>5, <1>6 DEF TInv

LEMMA RecvTyped ==
  ASSUME TInv, RecvVoice \/ RecvDigit \/ RecvEvent \/ RecvStep
  PROVE  TInv'
<1> USE DEF Recv, TInv
<1>1. /\ UNCHANGED <<active, accepted, left, closed, main, playout, output, popped, taken, echoed,
                     played>>
      /\ recv' \in {"poll", "insert", "inserting", "digit", "done"}
  BY DEF RecvVoice, RecvDigit, RecvEvent, RecvStep, RecvExits, InsertBegins, InsertEnds, DigitSent,
         Buffer!Insert, jitter, queue
<1>2. ASSUME RecvVoice \/ RecvDigit \/ RecvEvent PROVE TInv'
  <2>1. PICK source \in Sources : heard' = heard \union {source} /\ remote' = source
    BY <1>2 DEF RecvVoice, RecvDigit, RecvEvent, Latch
  <2>2. UNCHANGED <<jbuf, sound>> /\ recv = "poll"
    BY <1>2 DEF RecvVoice, RecvDigit, RecvEvent, jitter
  <2>3. /\ arrived' \subseteq Packets /\ arrived \subseteq arrived' /\ IsFiniteSet(arrived')
        /\ digits' \in 0 .. MaxPackets
        /\ inserting' \in Packets \union {None}
        /\ recv' \in {"insert", "inserting"} => inserting' \in arrived'
    <3>1. CASE RecvVoice
      <4>1. PICK p \in Packets : inserting' = p /\ arrived' = arrived \union {p}
        BY <3>1 DEF RecvVoice
      <4>2. IsFiniteSet(arrived \union {p})
        BY FS_AddElement
      <4> QED BY <3>1, <4>1, <4>2 DEF RecvVoice, SessionTypes
    <3>2. CASE RecvDigit
      <4>1. digits' = digits + 1 /\ Cardinality(arrived) + digits < MaxPackets
            /\ UNCHANGED <<inserting, arrived>> /\ recv' = "digit"
        BY <3>2 DEF RecvDigit, MoreToCome
      <4>2. Cardinality(arrived) \in Nat /\ digits \in Nat /\ MaxPackets \in Nat
        BY FS_CardinalityType, MediaAssumption DEF SessionTypes
      <4>3. digits' \in 0 .. MaxPackets
        BY <4>1, <4>2
      <4> QED BY <4>1, <4>3 DEF SessionTypes
    <3>3. CASE RecvEvent
      BY <3>3 DEF RecvEvent, SessionTypes
    <3> QED BY <1>2, <3>1, <3>2, <3>3
  <2>4. SessionTypes'
    BY <1>1, <2>1, <2>2, <2>3 DEF SessionTypes
  <2>5. InHand'
    BY <1>1, <2>3 DEF InHand
  <2> QED BY <2>3, <2>4, <2>5
<1>3. ASSUME RecvStep PROVE TInv'
  <2>1. UNCHANGED <<remote, heard, arrived, digits, sound>> \/ InsertBegins
    BY <1>3 DEF RecvStep, RecvExits, InsertEnds, DigitSent, jitter
  <2>2. UNCHANGED <<remote, heard, arrived, digits>> /\ sound' \in BOOLEAN
    BY <1>3, <2>1 DEF InsertBegins, SessionTypes
  <2>3. /\ \/ jbuf' \subseteq jbuf
           \/ /\ recv = "inserting" /\ inserting > played
              /\ jbuf' \subseteq jbuf \union {inserting}
        /\ inserting' \in {inserting, None}
        /\ recv' \in {"insert", "inserting"} => recv = "insert" /\ inserting' = inserting
    BY <1>3 DEF RecvStep, RecvExits, InsertBegins, InsertEnds, DigitSent, jitter,
                Buffer!Insert, Buffer!KeptOf
  <2>4. jbuf' \subseteq {p \in arrived : p > played}
    BY <2>3 DEF SessionTypes, InHand
  <2>5. inserting' \in Packets \union {None}
    BY <2>3 DEF SessionTypes
  <2>6. SessionTypes'
    BY <1>1, <2>2, <2>4, <2>5 DEF SessionTypes
  <2>7. InHand'
    BY <1>1, <2>2, <2>3 DEF InHand
  <2> QED BY <2>2, <2>6, <2>7
<1> QED BY <1>2, <1>3

LEMMA PlayoutTyped ==
  ASSUME TInv, PlayoutStep
  PROVE  TInv'
<1> USE DEF Playout, history, TInv
<1>1. /\ UNCHANGED <<active, remote, left, closed, main, recv, output, inserting, taken, echoed,
                     heard, arrived, digits>>
      /\ playout' \in {"top", "sleep", "popping", "push", "done"}
      /\ sound' \in BOOLEAN
  BY DEF PlayoutStep, PlayoutExits, PlayoutSleeps, PopBegins, PopNothing, PopPacket, TryPush,
         Queue!Put, jitter, SessionTypes
<1>2. CASE PlayoutExits \/ PlayoutSleeps \/ PopBegins \/ PopNothing
  <2>1. UNCHANGED <<jbuf, played, accepted, popped>> /\ playout' # "push"
    BY <1>2 DEF PlayoutExits, PlayoutSleeps, PopBegins, PopNothing, jitter
  <2>2. SessionTypes'
    BY <1>1, <2>1 DEF SessionTypes
  <2> QED BY <1>1, <2>1, <2>2 DEF InHand
<1>3. CASE PopPacket
  <2> DEFINE p == Buffer!Oldest
  <2>0. jbuf \in SUBSET Nat
    BY DEF SessionTypes, Packets
  <2>1. /\ p \in jbuf /\ \A q \in jbuf : p <= q
        /\ popped' = p /\ played' = p /\ jbuf' = jbuf \ {p} /\ UNCHANGED accepted
    BY <1>3, <2>0, MinIsOldest DEF PopPacket, Buffer!Remove, Buffer!Oldest
  <2> HIDE DEF p
  <2>2. p \in Packets /\ p \in 0 .. MaxPackets
    BY <2>1, MediaAssumption DEF SessionTypes, Packets
  <2>3. jbuf' \subseteq {q \in arrived : q > played'}
    BY <2>0, <2>1 DEF SessionTypes
  <2>4. SessionTypes'
    BY <1>1, <2>1, <2>2, <2>3 DEF SessionTypes
  <2> QED BY <1>1, <2>1, <2>2, <2>4 DEF InHand
<1>4. CASE TryPush
  <2>1. UNCHANGED <<jbuf, played>> /\ popped' = None /\ playout = "push" /\ playout' = "top"
        /\ accepted' \in {accepted, Append(accepted, popped)}
    BY <1>4 DEF TryPush, jitter
  <2>2. accepted' \in Seq(Packets)
    <3>1. accepted \in Seq(Packets) /\ popped \in Packets
      BY <2>1 DEF SessionTypes, InHand
    <3> QED BY <2>1, <3>1
  <2>3. SessionTypes'
    BY <1>1, <2>1, <2>2 DEF SessionTypes
  <2> QED BY <1>1, <2>1, <2>3 DEF InHand
<1> QED BY <1>2, <1>3, <1>4 DEF PlayoutStep

LEMMA OutputTyped ==
  ASSUME TInv, OutputStep
  PROVE  TInv'
<1> USE DEF Output, TInv
<1>1. /\ UNCHANGED <<active, remote, jbuf, played, sound, accepted, main, recv, playout, inserting,
                     popped, heard, arrived, digits, closed>>
      /\ output' \in {"wait", "fork", "done"}
  BY DEF OutputStep, OutputTakes, Echo, OutputExits, jitter, Queue!Get
<1>2. ASSUME left' \in Seq(Nat), taken' \in Packets \union {None},
             output' = "fork" => taken' \in Packets,
             echoed' \in Seq([packet : Packets, to : Sources \union {SdpPeer}])
      PROVE  TInv'
  <2>1. SessionTypes'
    BY <1>1, <1>2 DEF SessionTypes
  <2> QED BY <1>1, <1>2, <2>1 DEF InHand
<1>3. CASE OutputTakes
  <2>1. /\ left \in Seq(Nat) /\ accepted \in Seq(Packets)
        /\ Len(left) < Len(accepted) /\ left' = Append(left, Len(left) + 1)
        /\ taken' = accepted[Len(left')] /\ UNCHANGED echoed
    BY <1>3 DEF OutputTakes, Queue!Get, SessionTypes
  <2>2. left' \in Seq(Nat) /\ Len(left') \in 1 .. Len(accepted)
    BY <2>1
  <2>3. taken' \in Packets
    BY <2>1, <2>2
  <2> QED BY <1>2, <2>1, <2>2, <2>3 DEF SessionTypes
<1>4. CASE Echo
  <2> DEFINE r == [packet |-> taken, to |-> remote]
  <2>1. /\ output = "fork" /\ output' = "wait" /\ taken' = None /\ UNCHANGED left
        /\ echoed' = Append(echoed, r)
    BY <1>4 DEF Echo
  <2>2. r \in [packet : Packets, to : Sources \union {SdpPeer}]
    BY <2>1 DEF SessionTypes, InHand
  <2> HIDE DEF r
  <2>3. echoed' \in Seq([packet : Packets, to : Sources \union {SdpPeer}])
    BY <2>1, <2>2 DEF SessionTypes
  <2> QED BY <1>2, <2>1, <2>3 DEF SessionTypes
<1>5. CASE OutputExits
  <2>1. UNCHANGED <<left, taken, echoed>> /\ output' = "done"
    BY <1>5 DEF OutputExits
  <2> QED BY <1>2, <2>1 DEF SessionTypes
<1> QED BY <1>3, <1>4, <1>5 DEF OutputStep

\* What main and the client's own threads do is no concern of the packets.
LEMMA OthersTyped ==
  ASSUME TInv, Start \/ ReadStats \/ Stop \/ MainStep \/ ClientRuns
  PROVE  TInv'
<1> USE DEF Main, history, TInv
<1>1. /\ UNCHANGED <<jbuf, played, accepted, left, inserting, popped, taken, echoed, heard,
                     arrived, digits>>
      /\ \/ UNCHANGED <<recv, playout, output>>
         \/ recv' = "poll" /\ playout' = "top" /\ output' = "wait"
  BY DEF Start, ReadStats, Stop, MainStep, StartThreads, CloseQueue, JoinRecv, JoinPlayout,
         JoinOutput, Stopped, queue, Queue!Close,
         ClientRuns, WsUser, WsReader, Gateway, WsSender, NotWs, jitter, threads
<1>2. /\ active' \in BOOLEAN /\ closed' \in BOOLEAN /\ sound' \in BOOLEAN
      /\ remote' \in Sources \union {SdpPeer}
      /\ main' \in {"new", "connecting", "up", "closeQueue", "joinRecv", "joinPlayout",
                    "joinOutput", "closing", "down"}
  BY DEF Start, ReadStats, Stop, MainStep, StartThreads, CloseQueue, JoinRecv, JoinPlayout,
         JoinOutput, Stopped, queue, Queue!Close, SessionTypes,
         ClientRuns, WsUser, WsReader, Gateway, WsSender, NotWs, jitter, threads
<1>3. SessionTypes'
  BY <1>1, <1>2 DEF SessionTypes
<1>4. InHand'
  BY <1>1 DEF InHand
<1> QED BY <1>1, <1>3, <1>4

LEMMA NextTInv == TInv /\ [Next]_vars => TInv'
<1> SUFFICES ASSUME TInv, [Next]_vars PROVE TInv'
  OBVIOUS
<1>1. CASE UNCHANGED vars
  <2>1. /\ UNCHANGED <<active, remote, jbuf, played, sound, accepted, left, closed>>
        /\ UNCHANGED <<main, recv, playout, output, inserting, popped, taken>>
        /\ UNCHANGED <<echoed, arrived, heard, digits>>
    BY <1>1 DEF vars, jitter, queue, threads, history
  <2>2. SessionTypes' /\ InHand'
    BY <2>1 DEF TInv, SessionTypes, InHand
  <2> QED BY <2>1, <2>2 DEF TInv
<1>2. CASE Next
  BY <1>2, RecvTyped, PlayoutTyped, OutputTyped, OthersTyped DEF Next, ClientRuns
<1> QED BY <1>1, <1>2

\* Every variable of the session and of its client keeps its type: what waits in the
\* jitter buffer has arrived and is newer than what was played, and a thread that goes on
\* with a packet has one.
THEOREM TypeCorrect == Spec => []TypeOK
<1>1. WsProofs!WsAssumption
  BY MediaAssumption DEF WsProofs!WsAssumption, Senders, User, Reader, Free, MaxConnects
<1>2. WsProofs!Spec => []WsProofs!TypeOK
  BY <1>1, WsProofs!TypeCorrect
<1>3. WsProofs!TypeOK => Ws!TypeOK
  BY DEF WsProofs!TypeOK, Ws!TypeOK
<1>4. TInv /\ Ws!TypeOK => TypeOK
  BY DEF TInv, TypeOK
<1> QED BY <1>2, <1>3, <1>4, InitTInv, NextTInv, SameClient, ClientAsPromised, PTL DEF Spec
=============================================================================
