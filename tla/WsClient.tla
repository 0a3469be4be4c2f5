------------------------------- MODULE WsClient -------------------------------
(***************************************************************************)
(* sipdemo::WsClient (WsClient.h, WsClient.cpp) and the gateway at the     *)
(* other end of its TCP connection.                                        *)
(*                                                                         *)
(* Threads: User calls connect and close, the Senders call connected,      *)
(* sendBinary and sendText, and connect spawns the reader.  A critical     *)
(* section of mu_ in which nothing blocks is one step; sendAll, which      *)
(* blocks while the TCP buffers are full, is called with mu_ held and      *)
(* spans two.  Frames stand for their bytes: the header, length and mask   *)
(* of a frame are read in one step.                                        *)
(*                                                                         *)
(* Two things differ between the platforms the code is built for and are   *)
(* selected by Posix: close of a descriptor does not wake a recv on it in  *)
(* another thread (closesocket does), and send on a connection that was    *)
(* reset raises SIGPIPE, which the program leaves at its default.          *)
(***************************************************************************)
EXTENDS Naturals, Sequences

CONSTANTS
  Senders,            \* threads that send
  User, Reader, Free, \* the other holders of mu_, and nobody
  Posix,
  SendBuffer,         \* frames the TCP buffers hold
  MaxConnects, MaxFrames   \* bounds: connections, and frames from the gateway on each

ASSUME WsAssumption ==
  /\ Posix \in BOOLEAN
  /\ SendBuffer \in Nat \ {0}
  /\ {MaxConnects, MaxFrames} \subseteq Nat
  /\ User # Reader /\ User # Free /\ Reader # Free
  /\ {User, Reader, Free} \cap Senders = {}

VARIABLES
  mu,                 \* who holds mu_ over a blocking call
  fdOpen, connected, readerStop,
  user, goal,         \* where User is in connect or close, and what close is for
  reader,             \* where the reader is; "none": not joinable
  send,               \* where each sender is
  link,               \* the connection: "none", "up", or "reset" by the gateway
  inbox, outbox,      \* frames to be received; number of frames the gateway has not read
  crashed,            \* the process was killed by SIGPIPE
  connects, frames    \* bounds' counters

client == <<mu, fdOpen, connected, readerStop, user, goal, reader, send>>
net    == <<link, inbox, outbox, frames>>
vars   == <<client, net, crashed, connects>>

Init ==
  /\ mu = Free
  /\ fdOpen = FALSE /\ connected = FALSE /\ readerStop = FALSE
  /\ user = "idle" /\ goal = "close" /\ reader = "none"
  /\ send = [t \in Senders |-> "idle"]
  /\ link = "none" /\ inbox = <<>> /\ outbox = 0
  /\ crashed = FALSE /\ connects = 0 /\ frames = 0

\* closeFdUnlocked.  A recv under way keeps a POSIX socket alive.
CloseFd ==
  /\ fdOpen' = FALSE /\ connected' = FALSE
  /\ link' = IF Posix /\ reader = "recv" THEN link ELSE "none"

\* sendAll of one frame by the holder of mu_.  On a connection that was reset the
\* frame may still vanish in the buffers, the call may fail, or the signal be raised.
Transmit ==
  \/ /\ link = "up" /\ outbox < SendBuffer
     /\ outbox' = outbox + 1
     /\ UNCHANGED <<fdOpen, connected, link, crashed>>
  \/ link = "reset" /\ UNCHANGED <<fdOpen, connected, link, outbox, crashed>>
  \/ link = "reset" /\ CloseFd /\ UNCHANGED <<outbox, crashed>>
  \/ link = "reset" /\ Posix /\ crashed' = TRUE /\ UNCHANGED <<fdOpen, connected, link, outbox>>

-----------------------------------------------------------------------------
(* connect and close *)

BeginClose(for) ==
  /\ ~crashed /\ user = "idle" /\ user' = "closing" /\ goal' = for
  /\ readerStop' = TRUE
  /\ UNCHANGED <<mu, fdOpen, connected, reader, send, net, crashed>>

Close == BeginClose("close") /\ UNCHANGED connects

\* connect closes first: "stop any previous reader".
Connect == connects < MaxConnects /\ BeginClose("connect") /\ connects' = connects + 1

\* Mutant of CloseLocks: the descriptor is closed without the mutex.
CloseLocks_NoLock ==
  /\ ~crashed /\ user = "closing"
  /\ CloseFd
  /\ user' = "joining"
  /\ UNCHANGED <<mu, readerStop, goal, reader, send, inbox, outbox, crashed, connects, frames>>

\* Mutant of CloseLocks: the mutex is kept over the join (ISSUES.md, ISSUE-002).
CloseLocks_Keeps ==
  /\ ~crashed /\ user = "closing" /\ mu = Free
  /\ CloseFd
  /\ user' = "joining" /\ mu' = User
  /\ UNCHANGED <<readerStop, goal, reader, send, inbox, outbox, crashed, connects, frames>>

CloseLocks ==
  /\ ~crashed /\ user = "closing" /\ mu = Free
  /\ CloseFd
  /\ user' = "joining"
  /\ UNCHANGED <<mu, readerStop, goal, reader, send, inbox, outbox, crashed, connects, frames>>

\* Mutant of Join: the old reader is not waited for.
Join_Skipped ==
  /\ ~crashed /\ user = "joining"
  /\ IF goal = "connect"
       THEN user' = "handshake" /\ readerStop' = FALSE
       ELSE user' = "idle" /\ UNCHANGED readerStop
  /\ UNCHANGED <<mu, fdOpen, connected, goal, reader, send, net, crashed, connects>>

Join ==
  /\ ~crashed /\ user = "joining" /\ reader \in {"none", "done"}
  /\ reader' = "none"
  /\ IF goal = "connect"
       THEN user' = "handshake" /\ readerStop' = FALSE
       ELSE user' = "idle" /\ UNCHANGED readerStop
  /\ UNCHANGED <<mu, fdOpen, connected, goal, send, net, crashed, connects>>

\* No address, no connection, or no 101 in the answer; or SIGPIPE at the request, when
\* the connection is reset at once.
HandshakeFails ==
  /\ ~crashed /\ user = "handshake"
  /\ \/ user' = "idle" /\ UNCHANGED crashed
     \/ Posix /\ crashed' = TRUE /\ UNCHANGED user
  /\ UNCHANGED <<mu, fdOpen, connected, readerStop, goal, reader, send, net, connects>>

HandshakeSucceeds ==
  /\ ~crashed /\ user = "handshake" /\ user' = "publishing"
  /\ link' = "up" /\ inbox' = <<>> /\ outbox' = 0 /\ frames' = 0
  /\ UNCHANGED <<mu, fdOpen, connected, readerStop, goal, reader, send, crashed, connects>>

Publish ==
  /\ ~crashed /\ user = "publishing" /\ mu = Free
  /\ fdOpen' = TRUE /\ connected' = TRUE
  /\ user' = "spawning"
  /\ UNCHANGED <<mu, readerStop, goal, reader, send, net, crashed, connects>>

Spawn ==
  /\ ~crashed /\ user = "spawning"
  /\ reader' = "top" /\ user' = "idle"
  /\ UNCHANGED <<mu, fdOpen, connected, readerStop, goal, send, net, crashed, connects>>

-----------------------------------------------------------------------------
(* readerLoop *)

ReaderGoes(to) ==
  /\ ~crashed /\ reader' = to
  /\ UNCHANGED <<fdOpen, connected, readerStop, user, goal, send, crashed, connects>>

\* The loop condition, then recv on the descriptor as it is then.
ReaderTop ==
  /\ reader = "top"
  /\ ReaderGoes(IF readerStop \/ ~fdOpen THEN "leaving" ELSE "recv")
  /\ UNCHANGED <<mu, net>>

\* A frame arrives.  Close frames and frames that are too long end the loop, and so
\* does readerStop in the middle of any frame.
ReaderGetsFrame ==
  /\ reader = "recv" /\ inbox # <<>>
  /\ \/ Head(inbox) = "ping" /\ ReaderGoes("pong")
     \/ Head(inbox) = "data" /\ ReaderGoes("top")
     \/ (Head(inbox) = "close" \/ readerStop) /\ ReaderGoes("leaving")
  /\ inbox' = Tail(inbox)
  /\ UNCHANGED <<mu, link, outbox, frames>>

\* recv fails: the gateway is gone or, except under POSIX, the descriptor is.
ReaderGetsError ==
  /\ reader = "recv" /\ inbox = <<>> /\ (link = "reset" \/ (~Posix /\ ~fdOpen))
  /\ ReaderGoes("leaving")
  /\ UNCHANGED <<mu, net>>

PongLocks ==
  /\ reader = "pong" /\ mu = Free
  /\ IF connected THEN mu' = Reader /\ ReaderGoes("ponging")
                  ELSE UNCHANGED mu /\ ReaderGoes("top")
  /\ UNCHANGED net

PongSent ==
  /\ ~crashed /\ reader = "ponging"
  /\ Transmit
  /\ reader' = "top" /\ mu' = Free
  /\ UNCHANGED <<readerStop, user, goal, send, inbox, connects, frames>>

\* Mutant of ReaderLeaves: the socket is left open.
ReaderLeaves_Open ==
  /\ ~crashed /\ reader = "leaving" /\ mu = Free
  /\ reader' = "done"
  /\ UNCHANGED <<mu, fdOpen, connected, readerStop, user, goal, send, net, crashed, connects>>

ReaderLeaves ==
  /\ ~crashed /\ reader = "leaving" /\ mu = Free
  /\ CloseFd
  /\ reader' = "done"
  /\ UNCHANGED <<mu, readerStop, user, goal, send, inbox, outbox, crashed, connects, frames>>

ReaderStep ==
  \/ ReaderTop \/ ReaderGetsFrame \/ ReaderGetsError
  \/ PongLocks \/ PongSent \/ ReaderLeaves

-----------------------------------------------------------------------------
(* connected, sendBinary, sendText *)

SenderGoes(t, to) ==
  /\ ~crashed /\ send' = [send EXCEPT ![t] = to]
  /\ UNCHANGED <<readerStop, user, goal, reader, connects>>

\* A caller that asks connected() first, and one that sends at once.
CallConnected(t) ==
  /\ send[t] = "idle" /\ SenderGoes(t, "asking")
  /\ UNCHANGED <<mu, fdOpen, connected, net, crashed>>

CallSend(t) ==
  /\ send[t] = "idle" /\ SenderGoes(t, "locking")
  /\ UNCHANGED <<mu, fdOpen, connected, net, crashed>>

Asked(t) ==
  /\ send[t] = "asking" /\ mu = Free
  /\ SenderGoes(t, IF connected THEN "locking" ELSE "idle")
  /\ UNCHANGED <<mu, fdOpen, connected, net, crashed>>

SendLocks(t) ==
  /\ send[t] = "locking" /\ mu = Free
  /\ IF connected /\ fdOpen THEN mu' = t /\ SenderGoes(t, "sending")
                            ELSE UNCHANGED mu /\ SenderGoes(t, "idle")
  /\ UNCHANGED <<fdOpen, connected, net, crashed>>

\* Mutant of SendDone: the mutex stays locked when the frame was not sent.
SendDone_KeepsLock(t) ==
  /\ send[t] = "sending"
  /\ Transmit
  /\ SenderGoes(t, "idle") /\ mu' = IF outbox' = outbox THEN mu ELSE Free
  /\ UNCHANGED <<inbox, frames>>

SendDone(t) ==
  /\ send[t] = "sending"
  /\ Transmit
  /\ SenderGoes(t, "idle") /\ mu' = Free
  /\ UNCHANGED <<inbox, frames>>

-----------------------------------------------------------------------------
(* The gateway *)

GatewayReads ==
  /\ link = "up" /\ outbox > 0 /\ outbox' = outbox - 1
  /\ UNCHANGED <<client, link, inbox, crashed, connects, frames>>

GatewaySends ==
  /\ link = "up" /\ frames < MaxFrames
  /\ \E frame \in {"ping", "data", "close"} : inbox' = Append(inbox, frame)
  /\ frames' = frames + 1
  /\ UNCHANGED <<client, link, outbox, crashed, connects>>

GatewayLeaves ==
  /\ link = "up" /\ link' = "reset"
  /\ UNCHANGED <<client, inbox, outbox, crashed, connects, frames>>

Gateway == GatewayReads \/ GatewaySends \/ GatewayLeaves

\* The steps of calls under way, of the reader and of the gateway.
UserRuns == CloseLocks \/ Join \/ Publish \/ Spawn
UserStep == UserRuns \/ HandshakeFails \/ HandshakeSucceeds
SenderStep(t) == Asked(t) \/ SendLocks(t) \/ SendDone(t)

Next ==
  \/ Connect \/ Close \/ UserStep \/ ReaderStep \/ Gateway
  \/ \E t \in Senders : CallConnected(t) \/ CallSend(t) \/ SenderStep(t)

Spec == Init /\ [][Next]_vars

\* Every thread runs, and a mutex that is free again and again is got in the end.  The
\* gateway keeps reading: a send into full TCP buffers waits for it holding the mutex.
\* The handshake depends on the gateway too, and nobody limits how long it takes.
Fairness ==
  /\ SF_vars(UserRuns) /\ SF_vars(ReaderStep) /\ \A t \in Senders : SF_vars(SenderStep(t))
  /\ WF_vars(GatewayReads)

LiveSpec == Spec /\ Fairness

-----------------------------------------------------------------------------
TypeOK ==
  /\ mu \in Senders \union {User, Reader, Free}
  /\ fdOpen \in BOOLEAN /\ connected = fdOpen /\ readerStop \in BOOLEAN
  /\ user \in {"idle", "closing", "joining", "handshake", "publishing", "spawning"}
  /\ goal \in {"close", "connect"}
  /\ reader \in {"none", "top", "recv", "pong", "ponging", "leaving", "done"}
  /\ send \in [Senders -> {"idle", "asking", "locking", "sending"}]
  /\ link \in {"none", "up", "reset"}
  /\ inbox \in Seq({"ping", "data", "close"}) /\ outbox \in 0 .. SendBuffer
  /\ crashed \in BOOLEAN /\ connects \in 0 .. MaxConnects /\ frames \in 0 .. MaxFrames

Sending(t) == IF t = Reader THEN reader = "ponging" ELSE send[t] = "sending"

\* No frame is cut: a thread in sendAll holds mu_ alone, and the descriptor it writes
\* to is neither closed nor exchanged under it.
FramesWhole ==
  \A t \in Senders \union {Reader} : Sending(t) => mu = t /\ fdOpen /\ connected

\* ISSUE-001: a connection in use always has a reader draining it, except for the
\* moment between publishing it and spawning the reader.
ConnectionHasReader ==
  connected /\ user # "spawning" => reader \notin {"none", "done"}

\* A new connection meets no trace of the old one: its reader is gone, so that the
\* thread object is not assigned over (std::terminate), and the descriptor closed.
OldConnectionGone ==
  user \in {"handshake", "publishing"} => reader = "none" /\ ~fdOpen

\* On POSIX a reader blocked in recv is not woken by the close of its descriptor.
ReaderStranded == Posix /\ reader = "recv" /\ ~fdOpen

\* close returns, and connect gets to its handshake, whatever the senders, the reader
\* and the gateway do, unless the reader is one that close does not reach and stays
\* in recv for ever.
CloseReturns ==
  user = "closing" ~> user \in {"idle", "handshake"} \/ crashed \/ []ReaderStranded

\* ISSUES.md:94-96 "close() sets readerStop_, closes the socket (unblocks recv), then
\* joins without holding mu_": the reader is woken, and the join ends.
CloseUnblocksReader ==
  user = "closing" ~> user \in {"idle", "handshake"} \/ crashed

\* README.md:95 "RTP path never blocks on Vosk": as long as the gateway keeps reading,
\* however slowly, the threads of the RTP path come back from the client.
SendsReturn ==
  \A t \in Senders : send[t] # "idle" ~> send[t] = "idle" \/ crashed
=============================================================================
