----------------------------- MODULE MediaSession -----------------------------
(***************************************************************************)
(* The MediaSession of main.cpp: the threads rtp-recv, playout and output, *)
(* main starting and stopping them, and what they share.                   *)
(*                                                                         *)
(*   - queue_ is the abstract Handoff, which BoundedQueue is shown to      *)
(*     implement; accepted remembers which packet is its n-th item;        *)
(*   - ws_ is the WsClient, called by main, output and rtp-recv;           *)
(*   - jitter_ is the abstract InOrderBuffer, which JitterBuffer is shown  *)
(*     to implement; played is the packet popped last, or None.  It has no *)
(*     lock: insert and pop span two steps, and sound is FALSE once they   *)
(*     have overlapped, or main has read the counters during one of them:  *)
(*     the behaviour is undefined then, and the order of the echo is not   *)
(*     promised any more.                                                  *)
(*                                                                         *)
(* Packets are numbered in the order the peer sent them.  Decoding and     *)
(* encoding, the text of a digit, and the counters of RtpStats are left    *)
(* out; sections of statsMu_ and remoteMu_ are part of the step they are   *)
(* in.                                                                     *)
(***************************************************************************)
EXTENDS Naturals, Sequences, FiniteSets

CONSTANTS
  Sources,            \* the UDP endpoints the peer sends from
  SdpPeer,            \* the endpoint it named in its offer
  Capacity,           \* of queue_
  JitterCapacity,     \* of jitter_
  Posix, SendBuffer,  \* see WsClient
  MaxPackets, MaxFrames \* bounds: packets of voice and key presses; gateway frames

ASSUME MediaAssumption ==
  /\ Capacity \in Nat \ {0} /\ JitterCapacity \in Nat
  /\ Posix \in BOOLEAN /\ SendBuffer \in Nat \ {0}
  /\ {MaxPackets, MaxFrames} \subseteq Nat

VARIABLES
  active,
  remote,             \* where the echo goes
  jbuf, played, sound,\* jitter_: its packets, the last one popped, and whether it is intact
  accepted, left, closed,              \* queue_
  main, recv, playout, output,         \* where each thread is
  inserting, popped, taken,            \* the packet each of the three holds, or None
  echoed,             \* packets sent back, with their destination
  arrived, heard,     \* packets and endpoints received from so far
  digits,             \* digits reported so far
  mu, fdOpen, connected, readerStop, user, goal, reader, send,    \* ws_
  link, inbox, outbox, crashed, connects, frames                  \* and its gateway

None == 0
Packets == 1 .. MaxPackets
MoreToCome == Cardinality(arrived) + digits < MaxPackets

Senders == {"output", "recv"}
User == "main"
Reader == "reader"
Free == "free"
MaxConnects == 1

Ws == INSTANCE WsClient
Queue == INSTANCE Handoff WITH entered <- Len(accepted)
Buffer == INSTANCE InOrderBuffer
            WITH Room <- JitterCapacity, Before <- None, queued <- jbuf, last <- played

ws      == <<mu, fdOpen, connected, readerStop, user, goal, reader, send,
             link, inbox, outbox, crashed, connects, frames>>
queue   == <<accepted, left, closed>>
jitter  == <<jbuf, played, sound>>
threads == <<main, recv, playout, output, inserting, popped, taken>>
history == <<echoed, arrived, heard, digits>>
vars    == <<active, remote, jitter, queue, threads, history, ws>>

Init ==
  /\ active = FALSE /\ remote = SdpPeer
  /\ Buffer!Init /\ sound = TRUE
  /\ accepted = <<>> /\ Queue!Init
  /\ main = "new" /\ recv = "off" /\ playout = "off" /\ output = "off"
  /\ inserting = None /\ popped = None /\ taken = None
  /\ echoed = <<>> /\ arrived = {} /\ heard = {} /\ digits = 0
  /\ Ws!Init

-----------------------------------------------------------------------------
(* main: start, printStats, stop *)

Main(from, to) ==
  /\ ~crashed
  /\ main = from /\ main' = to
  /\ UNCHANGED <<inserting, popped, taken, history, jbuf, played>>

Start ==
  /\ Main("new", "connecting")
  /\ active' = TRUE /\ remote' = SdpPeer
  /\ Ws!Connect
  /\ UNCHANGED <<sound, queue, recv, playout, output>>

\* connect has returned, with a connection or without.
StartThreads ==
  /\ Main("connecting", "up") /\ user = "idle"
  /\ recv' = "poll" /\ playout' = "top" /\ output' = "wait"
  /\ UNCHANGED <<active, remote, sound, queue, ws>>

\* jitter_.stats() inside printStats: statsMu_ is held, which insert and pop ignore.
ReadStats ==
  /\ Main("up", "up")
  /\ sound' = (sound /\ recv # "inserting" /\ playout # "popping")
  /\ UNCHANGED <<active, remote, queue, recv, playout, output, ws>>

Stop ==
  /\ Main("up", "closeQueue")
  /\ active' = FALSE
  /\ UNCHANGED <<remote, sound, queue, recv, playout, output, ws>>

\* Mutant of CloseQueue: the queue stays open.
CloseQueue_Forgotten ==
  /\ Main("closeQueue", "joinRecv")
  /\ UNCHANGED <<active, remote, sound, queue, recv, playout, output, ws>>

CloseQueue ==
  /\ Main("closeQueue", "joinRecv")
  /\ UNCHANGED accepted /\ Queue!Close
  /\ UNCHANGED <<active, remote, sound, recv, playout, output, ws>>

JoinRecv ==
  /\ Main("joinRecv", "joinPlayout") /\ recv = "done"
  /\ UNCHANGED <<active, remote, sound, queue, recv, playout, output, ws>>

JoinPlayout ==
  /\ Main("joinPlayout", "joinOutput") /\ playout = "done"
  /\ UNCHANGED <<active, remote, sound, queue, recv, playout, output, ws>>

\* Mutant of JoinOutput: the output thread is not waited for.
JoinOutput_Skipped ==
  /\ Main("joinOutput", "closing")
  /\ Ws!Close
  /\ UNCHANGED <<active, remote, sound, queue, recv, playout, output>>

\* The last join, and ws_.close() begins.
JoinOutput ==
  /\ Main("joinOutput", "closing") /\ output = "done"
  /\ Ws!Close
  /\ UNCHANGED <<active, remote, sound, queue, recv, playout, output>>

Stopped ==
  /\ Main("closing", "down") /\ user = "idle"
  /\ UNCHANGED <<active, remote, sound, queue, recv, playout, output, ws>>

-----------------------------------------------------------------------------
(* recvLoop *)

Recv(from, to) ==
  /\ ~crashed
  /\ recv = from /\ recv' = to
  /\ UNCHANGED <<active, queue, main, playout, output, popped, taken, echoed>>

RecvExits ==
  /\ Recv("poll", "done") /\ ~active
  /\ UNCHANGED <<remote, jitter, inserting, arrived, heard, digits, ws>>

\* Mutant of Latch: the echo stays with the endpoint of the offer.
Latch_Never(source) == heard' = heard \union {source} /\ UNCHANGED remote

\* latchRemoteIfNeeded: whether latched before or not, the echo follows the packet.
Latch(source) == heard' = heard \union {source} /\ remote' = source

RecvVoice ==
  /\ Recv("poll", "insert") /\ MoreToCome
  /\ \E source \in Sources : Latch(source)
  /\ \E p \in Packets \ arrived : inserting' = p /\ arrived' = arrived \union {p}
  /\ UNCHANGED <<jitter, digits, ws>>

InsertBegins ==
  /\ Recv("insert", "inserting")
  /\ sound' = (sound /\ playout # "popping")
  /\ UNCHANGED <<remote, jbuf, played, inserting, arrived, heard, digits, ws>>

InsertEnds ==
  /\ Recv("inserting", "poll")
  /\ Buffer!Insert(inserting)
  /\ inserting' = None
  /\ UNCHANGED <<remote, sound, arrived, heard, digits, ws>>

\* A key press complete: the digit is sent to the gateway on this very thread.
RecvDigit ==
  /\ Recv("poll", "digit") /\ MoreToCome
  /\ \E source \in Sources : Latch(source)
  /\ digits' = digits + 1
  /\ Ws!CallSend("recv")
  /\ UNCHANGED <<jitter, inserting, arrived>>

\* A packet of a key still down, or of an end reported before.
RecvEvent ==
  /\ Recv("poll", "poll")
  /\ \E source \in Sources : Latch(source)
  /\ UNCHANGED <<jitter, inserting, arrived, digits, ws>>

DigitSent ==
  /\ Recv("digit", "poll") /\ send["recv"] = "idle"
  /\ UNCHANGED <<remote, jitter, inserting, arrived, heard, digits, ws>>

-----------------------------------------------------------------------------
(* playoutLoop *)

Playout(from, to) ==
  /\ ~crashed
  /\ playout = from /\ playout' = to
  /\ UNCHANGED <<active, remote, left, closed, main, recv, output, inserting, taken, history, ws>>

PlayoutExits == Playout("top", "done") /\ ~active /\ UNCHANGED <<jitter, accepted, popped>>
PlayoutSleeps == Playout("top", "sleep") /\ active /\ UNCHANGED <<jitter, accepted, popped>>

PopBegins ==
  /\ Playout("sleep", "popping")
  /\ sound' = (sound /\ recv # "inserting")
  /\ UNCHANGED <<jbuf, played, accepted, popped>>

\* Not primed, an underrun or a slot declared lost: no packet.
PopNothing == Playout("popping", "top") /\ UNCHANGED <<jitter, accepted, popped>>

PopPacket ==
  /\ Playout("popping", "push")
  /\ Buffer!Remove /\ popped' = played'
  /\ UNCHANGED <<sound, accepted>>

\* tryPush: refused when the queue is full or closed, and the packet is dropped.
TryPush ==
  /\ Playout("push", "top")
  /\ \/ accepted' = Append(accepted, popped) /\ Queue!Put
     \/ (closed \/ Len(accepted) - Len(left) = Capacity) /\ UNCHANGED accepted
  /\ popped' = None
  /\ UNCHANGED jitter

-----------------------------------------------------------------------------
(* outputLoop *)

Output(from, to) ==
  /\ ~crashed
  /\ output = from /\ output' = to
  /\ UNCHANGED <<active, remote, jitter, accepted, main, recv, playout, inserting, popped,
                 arrived, heard, digits>>

\* pop returns the next item, and ws_.connected() is asked.
OutputTakes ==
  /\ Output("wait", "fork")
  /\ Queue!Get
  /\ taken' = accepted[Len(left')]
  /\ Ws!CallConnected("output")
  /\ UNCHANGED echoed

\* connected has answered, which decides only whether the fork is fed.
Echo ==
  /\ Output("fork", "wait") /\ send["output"] = "idle"
  /\ echoed' = Append(echoed, [packet |-> taken, to |-> remote])
  /\ taken' = None
  /\ UNCHANGED <<left, closed, ws>>

\* Mutant of OutputExits: what is left in the queue is abandoned.
OutputExits_Undrained ==
  /\ Output("wait", "done") /\ closed
  /\ UNCHANGED <<left, closed, taken, echoed, ws>>

OutputExits ==
  /\ Output("wait", "done") /\ closed /\ Len(left) = Len(accepted)
  /\ UNCHANGED <<left, closed, taken, echoed, ws>>

-----------------------------------------------------------------------------
(* The steps of ws_ between a call and its return *)

NotWs == <<active, remote, jitter, queue, threads, history>>

WsUser      == Ws!UserStep /\ UNCHANGED NotWs
WsRuns      == Ws!UserRuns /\ UNCHANGED NotWs
WsReader    == Ws!ReaderStep /\ UNCHANGED NotWs
WsSender(t) == Ws!SenderStep(t) /\ UNCHANGED NotWs
Gateway     == Ws!Gateway /\ UNCHANGED NotWs
Reads       == Ws!GatewayReads /\ UNCHANGED NotWs

MainStep    == StartThreads \/ CloseQueue \/ JoinRecv \/ JoinPlayout \/ JoinOutput
                 \/ Stopped
RecvStep    == RecvExits \/ InsertBegins \/ InsertEnds \/ DigitSent
PlayoutStep == PlayoutExits \/ PlayoutSleeps \/ PopBegins \/ PopNothing \/ PopPacket \/ TryPush
OutputStep  == OutputTakes \/ Echo \/ OutputExits

Next ==
  \/ Start \/ ReadStats \/ Stop \/ MainStep
  \/ RecvVoice \/ RecvDigit \/ RecvEvent \/ RecvStep
  \/ PlayoutStep
  \/ OutputStep
  \/ WsUser \/ WsReader \/ Gateway \/ \E t \in Senders : WsSender(t)

Spec == Init /\ [][Next]_vars

\* Every thread runs, a free mutex is got in the end, the gateway keeps reading or goes.
Fairness ==
  /\ WF_vars(MainStep) /\ WF_vars(RecvStep) /\ WF_vars(PlayoutStep) /\ WF_vars(OutputStep)
  /\ SF_vars(WsRuns) /\ SF_vars(WsReader) /\ \A t \in Senders : SF_vars(WsSender(t))
  /\ WF_vars(Reads)

LiveSpec == Spec /\ Fairness

-----------------------------------------------------------------------------
SessionTypes ==
  /\ active \in BOOLEAN /\ closed \in BOOLEAN /\ sound \in BOOLEAN
  /\ remote \in Sources \union {SdpPeer} /\ heard \subseteq Sources
  /\ arrived \subseteq Packets /\ jbuf \subseteq {p \in arrived : p > played}
  /\ played \in 0 .. MaxPackets /\ digits \in 0 .. MaxPackets
  /\ accepted \in Seq(Packets) /\ left \in Seq(Nat)
  /\ {inserting, popped, taken} \subseteq Packets \union {None}
  /\ echoed \in Seq([packet : Packets, to : Sources \union {SdpPeer}])
  /\ main \in {"new", "connecting", "up", "closeQueue", "joinRecv", "joinPlayout",
               "joinOutput", "closing", "down"}
  /\ recv \in {"off", "poll", "insert", "inserting", "digit", "done"}
  /\ playout \in {"off", "top", "sleep", "popping", "push", "done"}
  /\ output \in {"off", "wait", "fork", "done"}

TypeOK == Ws!TypeOK /\ SessionTypes

\* The caller hears itself in order: packets cross three threads, the jitter buffer
\* and the queue, and none is echoed twice or after a later one.
EchoInOrder ==
  sound => \A i, j \in DOMAIN echoed : i < j => echoed[i].packet < echoed[j].packet

\* main.cpp:165-184: nothing is echoed to an endpoint no packet has come from: the
\* latch is set before the first packet can reach the output thread.
EchoGoesToHeardPeer == \A i \in DOMAIN echoed : echoed[i].to \in heard

\* When stop returns nothing runs that uses the session, whose members may now be
\* destroyed, and what the queue had accepted was echoed first.
StoppedIsQuiet ==
  main = "down" =>
    /\ {recv, playout, output} = {"done"}
    /\ \A t \in Senders : send[t] = "idle"
    /\ reader = "none" /\ ~fdOpen
    /\ Len(echoed) = Len(accepted)

\* PERFORMANCE.md:63-64 "Jitter buffer itself may stay lock-free if only the recv thread
\* inserts and only playout pops (today's ownership model already matches that)": that
\* needs that no two threads are in it at a time.
JitterBufferNotShared == sound

\* Whatever becomes of the gateway, as long as it does not hang, the packets accepted
\* for output are echoed: again and again the output thread has caught up with them.
AcceptedIsEchoed == []<>(Len(echoed) = Len(accepted) \/ crashed)

\* stop returns: none of its joins waits for ever.
StopReturns == main = "closeQueue" ~> main = "down" \/ crashed
=============================================================================
