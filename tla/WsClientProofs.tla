---------------------------- MODULE WsClientProofs ----------------------------
(***************************************************************************)
(* The WebSocket client for any number of sending threads, of connections  *)
(* and of frames, on both platforms: its types, that no frame is cut, that *)
(* a connection has a reader, and that reconnection meets no trace of the  *)
(* connection before.                                                      *)
(***************************************************************************)
EXTENDS WsClient, TLAPS

\* Between the two halves of close, and until a new connection is published, the
\* descriptor is closed; only then is there a moment without a reader to it.
DescriptorClosed ==
  /\ user = "joining" => ~fdOpen
  /\ user = "spawning" => reader = "none"

IInv ==
  /\ TypeOK
  /\ FramesWhole
  /\ ConnectionHasReader
  /\ OldConnectionGone
  /\ DescriptorClosed

LEMMA InitIInv == Init => IInv
<1> SUFFICES ASSUME Init PROVE IInv
  OBVIOUS
<1>1. TypeOK
  <2>1. inbox \in Seq({"ping", "data", "close"})
    BY DEF Init
  <2>2. send \in [Senders -> {"idle", "asking", "locking", "sending"}]
    BY DEF Init
  <2>3. MaxConnects \in Nat /\ MaxFrames \in Nat /\ SendBuffer \in Nat
    BY WsAssumption
  <2>4. outbox \in 0 .. SendBuffer /\ connects \in 0 .. MaxConnects /\ frames \in 0 .. MaxFrames
    BY <2>3 DEF Init
  <2>5. mu \in Senders \union {User, Reader, Free}
    BY DEF Init
  <2>6. /\ fdOpen = FALSE /\ connected = FALSE /\ readerStop = FALSE /\ crashed = FALSE
        /\ user = "idle" /\ goal = "close" /\ reader = "none" /\ link = "none"
    BY DEF Init
  <2> QED BY <2>1, <2>2, <2>4, <2>5, <2>6, Zenon DEF TypeOK
<1>2. FramesWhole
  BY DEF Init, FramesWhole, Sending
<1> QED
  BY <1>1, <1>2 DEF Init, IInv, ConnectionHasReader, OldConnectionGone, DescriptorClosed

-----------------------------------------------------------------------------
(* Every step keeps the types *)

\* What sendAll may do: only the end of the connection touches the descriptor.
LEMMA TransmitTypes ==
  ASSUME TypeOK, Transmit
  PROVE  /\ fdOpen' \in BOOLEAN /\ connected' = fdOpen'
         /\ fdOpen' => fdOpen
         /\ link' \in {"none", "up", "reset"}
         /\ outbox' \in 0 .. SendBuffer
         /\ crashed' \in BOOLEAN
<1> USE WsAssumption DEF TypeOK
<1>1. CASE link = "up" /\ outbox < SendBuffer /\ outbox' = outbox + 1
             /\ UNCHANGED <<fdOpen, connected, link, crashed>>
  BY <1>1
<1>2. CASE UNCHANGED <<fdOpen, connected, link, outbox, crashed>>
  BY <1>2
<1>3. CASE CloseFd /\ UNCHANGED <<outbox, crashed>>
  BY <1>3 DEF CloseFd
<1>4. CASE crashed' = TRUE /\ UNCHANGED <<fdOpen, connected, link, outbox>>
  BY <1>4
<1> QED BY <1>1, <1>2, <1>3, <1>4 DEF Transmit

LEMMA UserTypes ==
  ASSUME TypeOK, Connect \/ Close \/ UserStep
  PROVE  TypeOK'
<1> USE WsAssumption DEF TypeOK
<1>1. CASE Connect
  BY <1>1 DEF Connect, BeginClose, net
<1>2. CASE Close
  BY <1>2 DEF Close, BeginClose, net
<1>3. CASE CloseLocks
  BY <1>3 DEF CloseLocks, CloseFd
<1>4. CASE Join
  BY <1>4 DEF Join, net
<1>5. CASE Publish
  BY <1>5 DEF Publish, net
<1>6. CASE Spawn
  BY <1>6 DEF Spawn, net
<1>7. CASE HandshakeFails
  BY <1>7 DEF HandshakeFails, net
<1>8. CASE HandshakeSucceeds
  BY <1>8 DEF HandshakeSucceeds
<1> QED BY <1>1, <1>2, <1>3, <1>4, <1>5, <1>6, <1>7, <1>8 DEF UserStep, UserRuns

LEMMA ReaderTypes ==
  ASSUME TypeOK, ReaderStep
  PROVE  TypeOK'
<1> USE WsAssumption DEF TypeOK
<1>1. CASE ReaderTop
  BY <1>1 DEF ReaderTop, ReaderGoes, net
<1>2. CASE ReaderGetsFrame
  <2>1. inbox' \in Seq({"ping", "data", "close"})
    BY <1>2 DEF ReaderGetsFrame
  <2> QED BY <1>2, <2>1 DEF ReaderGetsFrame, ReaderGoes
<1>3. CASE ReaderGetsError
  BY <1>3 DEF ReaderGetsError, ReaderGoes, net
<1>4. CASE PongLocks
  BY <1>4 DEF PongLocks, ReaderGoes, net
<1>5. CASE PongSent
  BY <1>5, TransmitTypes DEF PongSent
<1>6. CASE ReaderLeaves
  BY <1>6 DEF ReaderLeaves, CloseFd
<1> QED BY <1>1, <1>2, <1>3, <1>4, <1>5, <1>6 DEF ReaderStep

LEMMA SenderTypes ==
  ASSUME TypeOK, NEW t \in Senders, CallConnected(t) \/ CallSend(t) \/ SenderStep(t)
  PROVE  TypeOK'
<1> USE WsAssumption DEF TypeOK, SenderGoes
<1>1. CASE CallConnected(t)
  BY <1>1 DEF CallConnected, net
<1>2. CASE CallSend(t)
  BY <1>2 DEF CallSend, net
<1>3. CASE Asked(t)
  BY <1>3 DEF Asked, net
<1>4. CASE SendLocks(t)
  BY <1>4 DEF SendLocks, net
<1>5. CASE SendDone(t)
  BY <1>5, TransmitTypes DEF SendDone
<1> QED BY <1>1, <1>2, <1>3, <1>4, <1>5 DEF SenderStep

LEMMA GatewayTypes ==
  ASSUME TypeOK, Gateway
  PROVE  TypeOK'
<1> USE WsAssumption DEF TypeOK, client
<1>1. CASE GatewayReads
  BY <1>1 DEF GatewayReads
<1>2. CASE GatewaySends
  <2>1. inbox' \in Seq({"ping", "data", "close"})
    BY <1>2 DEF GatewaySends
  <2> QED BY <1>2, <2>1 DEF GatewaySends
<1>3. CASE GatewayLeaves
  BY <1>3 DEF GatewayLeaves
<1> QED BY <1>1, <1>2, <1>3 DEF Gateway

-----------------------------------------------------------------------------
(* The mutex *)

\* A thread that closes or opens the descriptor finds nobody in sendAll, and a thread
\* that ends a sendAll was alone in it.
LEMMA WholeStep ==
  ASSUME TypeOK, FramesWhole, Next
  PROVE  FramesWhole'
<1> USE WsAssumption DEF TypeOK, FramesWhole, Sending
<1>0. ~(User \in Senders) /\ ~(Reader \in Senders) /\ ~(Free \in Senders)
  OBVIOUS
<1>1. CASE UNCHANGED <<mu, fdOpen, connected, send>> /\ (reader' = "ponging" => reader = "ponging")
  BY <1>1
<1>2. CASE mu = Free /\ UNCHANGED <<mu, send>> /\ (reader' = "ponging" => reader = "ponging")
  BY <1>2
<1>3. ASSUME Connect \/ Close \/ UserStep PROVE FramesWhole'
  <2>1. CASE CloseLocks
    BY <1>2, <2>1 DEF CloseLocks
  <2>2. CASE Publish
    BY <1>2, <2>2 DEF Publish
  <2>3. CASE Connect \/ Close
    BY <1>1, <2>3 DEF Connect, Close, BeginClose
  <2>4. CASE Join
    BY <1>1, <2>4 DEF Join
  <2>5. CASE Spawn \/ HandshakeFails \/ HandshakeSucceeds
    BY <1>1, <2>5 DEF Spawn, HandshakeFails, HandshakeSucceeds
  <2> QED BY <1>3, <2>1, <2>2, <2>3, <2>4, <2>5 DEF UserStep, UserRuns
<1>4. ASSUME ReaderStep PROVE FramesWhole'
  <2>1. CASE ReaderTop \/ ReaderGetsFrame \/ ReaderGetsError
    BY <1>1, <2>1 DEF ReaderTop, ReaderGetsFrame, ReaderGetsError, ReaderGoes
  <2>2. CASE PongLocks
    BY <2>2, <1>0 DEF PongLocks, ReaderGoes
  <2>3. CASE PongSent
    <3>1. \A t \in Senders : send[t] # "sending"
      BY <2>3, <1>0 DEF PongSent
    <3> QED BY <2>3, <3>1, <1>0 DEF PongSent
  <2>4. CASE ReaderLeaves
    BY <1>2, <2>4 DEF ReaderLeaves
  <2> QED BY <1>4, <2>1, <2>2, <2>3, <2>4 DEF ReaderStep
<1>5. ASSUME NEW t \in Senders, CallConnected(t) \/ CallSend(t) \/ SenderStep(t)
      PROVE  FramesWhole'
  <2>1. CASE CallConnected(t)
    BY <2>1, <1>0 DEF CallConnected, SenderGoes
  <2>2. CASE CallSend(t)
    BY <2>2, <1>0 DEF CallSend, SenderGoes
  <2>3. CASE Asked(t)
    BY <2>3, <1>0 DEF Asked, SenderGoes
  <2>4. CASE SendLocks(t)
    BY <2>4, <1>0 DEF SendLocks, SenderGoes
  <2>5. CASE SendDone(t)
    <3>1. reader # "ponging" /\ \A u \in Senders \ {t} : send[u] # "sending"
      BY <2>5, <1>0 DEF SendDone
    <3> QED BY <2>5, <3>1, <1>0 DEF SendDone, SenderGoes
  <2> QED BY <1>5, <2>1, <2>2, <2>3, <2>4, <2>5 DEF SenderStep
<1>6. ASSUME Gateway PROVE FramesWhole'
  BY <1>1, <1>6 DEF Gateway, GatewayReads, GatewaySends, GatewayLeaves, client
<1> QED BY <1>3, <1>4, <1>5, <1>6 DEF Next

-----------------------------------------------------------------------------
(* The descriptor and its reader *)

ReaderThere == ConnectionHasReader /\ OldConnectionGone /\ DescriptorClosed

\* Whoever sends can only close the descriptor.
LEMMA SendersCloseOnly ==
  ASSUME TypeOK, ReaderThere, UNCHANGED <<user, reader>>, fdOpen' => fdOpen, connected' = fdOpen'
  PROVE  ReaderThere'
BY DEF TypeOK, ReaderThere, ConnectionHasReader, OldConnectionGone, DescriptorClosed

LEMMA ReaderThereStep ==
  ASSUME TypeOK, ReaderThere, Next
  PROVE  ReaderThere'
<1> USE DEF TypeOK
<1>1. ASSUME Connect \/ Close \/ UserStep PROVE ReaderThere'
  <2> USE DEF ReaderThere, ConnectionHasReader, OldConnectionGone, DescriptorClosed
  <2>1. CASE Connect
    BY <2>1 DEF Connect, BeginClose
  <2>2. CASE Close
    BY <2>2 DEF Close, BeginClose
  <2>3. CASE CloseLocks
    BY <2>3 DEF CloseLocks, CloseFd
  <2>4. CASE Join
    BY <2>4 DEF Join
  <2>5. CASE Publish
    BY <2>5 DEF Publish
  <2>6. CASE Spawn
    BY <2>6 DEF Spawn
  <2>7. CASE HandshakeFails
    BY <2>7 DEF HandshakeFails
  <2>8. CASE HandshakeSucceeds
    BY <2>8 DEF HandshakeSucceeds
  <2> QED BY <1>1, <2>1, <2>2, <2>3, <2>4, <2>5, <2>6, <2>7, <2>8 DEF UserStep, UserRuns
<1>2. ASSUME ReaderStep PROVE ReaderThere'
  <2> USE DEF ReaderThere, ConnectionHasReader, OldConnectionGone, DescriptorClosed
  <2>1. CASE ReaderTop
    BY <2>1 DEF ReaderTop, ReaderGoes
  <2>2. CASE ReaderGetsFrame
    BY <2>2 DEF ReaderGetsFrame, ReaderGoes
  <2>3. CASE ReaderGetsError
    BY <2>3 DEF ReaderGetsError, ReaderGoes
  <2>4. CASE PongLocks
    BY <2>4 DEF PongLocks, ReaderGoes
  <2>5. CASE PongSent
    BY <2>5, TransmitTypes DEF PongSent
  <2>6. CASE ReaderLeaves
    BY <2>6 DEF ReaderLeaves, CloseFd
  <2> QED BY <1>2, <2>1, <2>2, <2>3, <2>4, <2>5, <2>6 DEF ReaderStep
<1>3. ASSUME NEW t \in Senders, CallConnected(t) \/ CallSend(t) \/ SenderStep(t)
      PROVE  ReaderThere'
  <2>1. CASE SendDone(t)
    BY <2>1, TransmitTypes, SendersCloseOnly DEF SendDone, SenderGoes
  <2> QED BY <1>3, <2>1, SendersCloseOnly
       DEF SenderStep, CallConnected, CallSend, Asked, SendLocks, SenderGoes
<1>4. ASSUME Gateway PROVE ReaderThere'
  BY <1>4, SendersCloseOnly DEF Gateway, GatewayReads, GatewaySends, GatewayLeaves, client
<1> QED BY <1>1, <1>2, <1>3, <1>4 DEF Next

-----------------------------------------------------------------------------
LEMMA StepIInv == IInv /\ [Next]_vars => IInv'
<1> SUFFICES ASSUME IInv, [Next]_vars PROVE IInv'
  OBVIOUS
<1>1. CASE Next
  <2>1. TypeOK'
    BY <1>1, UserTypes, ReaderTypes, SenderTypes, GatewayTypes DEF Next, IInv
  <2>2. FramesWhole'
    BY <1>1, WholeStep DEF IInv
  <2>3. ReaderThere'
    BY <1>1, ReaderThereStep DEF IInv, ReaderThere
  <2> QED BY <2>1, <2>2, <2>3 DEF IInv, ReaderThere
<1>2. CASE UNCHANGED vars
  BY <1>2 DEF vars, client, net, IInv, TypeOK, FramesWhole, Sending, ConnectionHasReader,
              OldConnectionGone, DescriptorClosed
<1> QED BY <1>1, <1>2

LEMMA Invariance == Spec => []IInv
BY InitIInv, StepIInv, PTL DEF Spec

\* WsClient.h:30-48: the members of the client, where its threads are, and that the
\* connection is up exactly while the descriptor is open.
THEOREM TypeCorrect == Spec => []TypeOK
<1>1. IInv => TypeOK
  BY DEF IInv
<1> QED BY <1>1, Invariance, PTL

\* WsClient.cpp:107, 333-345: whoever is in sendAll holds mu_ alone over an open
\* descriptor, so that no other frame gets between its bytes and close does not cut it.
THEOREM NoFrameCut == Spec => []FramesWhole
<1>1. IInv => FramesWhole
  BY DEF IInv
<1> QED BY <1>1, Invariance, PTL

\* WsClient.cpp:149-231 and docs/ISSUES.md, ISSUE-001: whatever the gateway does, a
\* connection in use is drained.
THEOREM AlwaysDrained == Spec => []ConnectionHasReader
<1>1. IInv => ConnectionHasReader
  BY DEF IInv
<1> QED BY <1>1, Invariance, PTL

\* WsClient.cpp:127-145: when connect opens a new connection the old reader has been
\* joined and the old descriptor closed.
THEOREM NothingLeftOver == Spec => []OldConnectionGone
<1>1. IInv => OldConnectionGone
  BY DEF IInv
<1> QED BY <1>1, Invariance, PTL
=============================================================================
