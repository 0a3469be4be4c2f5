# A TLA+ verification project for sipdemo

`sipdemo` is a small C++17 SIP user agent: it answers one call at a time over
UDP, plays the caller's own voice back (RTP, G.711), reports DTMF digits and
forks the decoded audio to a speech-to-text gateway over a WebSocket. This
directory holds TLA+ models of its state machines and threads, the TLC runs
that check them, and TLAPS proofs about the parts that matter most.

Paths below are relative to the repository root.

## 1. Inventory

### Components

| Component | Source | State it keeps | Operations |
|---|---|---|---|
| Main loop, call control | `src/app/main.cpp` 282-372 | `uas`, `unique_ptr<MediaSession> media`, `g_stop` | receive a datagram, `handle`, send the responses, start or stop the media, SIGINT |
| SipUas | `SipUas.h`, `src/sip/SipUas.cpp` | `haveDialog_`, `answered_`, `callId_`, `inviteCSeq_`, `lastInvite_`, `last2xxInvite_` | `handle` for INVITE, ACK, BYE, CANCEL, OPTIONS, others |
| MediaSession | `src/app/main.cpp` 55-274 | `active_`, latched `remote_`, the threads, what they share | `start`, `stop`, `printStats`; `recvLoop`, `playoutLoop`, `outputLoop` |
| JitterBuffer | `JitterBuffer.h`, `src/jitter/JitterBuffer.cpp` | `buf_`, `started_`, `primed_`, `highestExt_`, `playoutExt_`, `stats_` | `insert`, `pop`, `reset`, `stats`, `size` |
| BoundedQueue | `include/sipdemo/BoundedQueue.h` | `q_`, `closed_`, one mutex, two condition variables | `push`, `tryPush`, `pop`, `tryPop`, `close` |
| RtpStats | `RtpStats.h`, `src/stats/RtpStats.cpp` | `baseExt_`, `maxExt_`, `received_`, `reordered_`, jitter estimate | `update`, `expected`, `lost`, `reordered`, `reset` |
| DtmfDecoder | `Rfc4733.h`, `src/dtmf/Rfc4733.cpp` | `lastEvent_`, `emittedForCurrent_`, `lastDuration_` | `feed`, `reset` |
| WsClient | `WsClient.h`, `src/ws/WsClient.cpp` | `fd_`, `connected_`, `readerStop_`, `mu_`, `reader_` | `connect`, `close`, `connected`, `sendBinary`, `sendText`, `readerLoop` |
| SIP parser | `SipMessage.h`, `SipParser.h`, `src/sip/SipParser.cpp` | the headers of a message, in order | `parseSip`, `get`, `getAll`, `set`, `add`, `remove`, `serialize`; `parseCSeq`, `headerParam` |
| SDP | `Sdp.h`, `src/sip/Sdp.cpp` | none beyond one parse | `parseSdp`, `makeAnswer`, `SdpSession::generate` |
| RTP packet codec | `RtpPacket.h`, `src/rtp/RtpPacket.cpp` | none | `parse`, `serialize`, `seqLess`, `seqDiff` |
| G.711, resampling | `src/codec/*.cpp` | none | encode and decode in both laws, one sample or many; doubling of the rate |
| UDP socket | `src/net/UdpSocket.cpp` | a descriptor | `bind`, `sendTo`, `recvFrom` with a timeout |
| rtp_sender | `src/tools/rtp_sender.cpp` | sequence number, one held packet (`holding`, `held`), counters | the sending loop with drops, the held packet and its release, the flush behind the loop |
| Gateway | `gateway/app.py` | speech recogniser | reads audio, sends text |

### Interaction

- A datagram on the SIP port goes through `parseSip`, `handle` (which reads the body of
  an INVITE with `parseSdp`, answers it with `makeAnswer` and copies headers into its
  responses) and `serialize`; one on the RTP port through `parse` and `recvLoop`, which
  takes telephone events out of the stream and counts the others in RtpStats.
- The **main thread** alone runs the SIP side. `handle` returns the responses to
  send and a `MediaAction`; main owns the media and does what the action says.
  The UAS does not know whether media runs and main does not know whether a
  dialog exists: only the actions keep them together.
- A **MediaSession** has three threads. `rtp-recv` inserts voice into the jitter
  buffer and feeds DTMF to the decoder, sending digits to the gateway itself;
  `playout` pops a packet every 20 ms and `tryPush`es it to the queue; `output`
  pops the queue, forks the audio to the gateway and echoes the packet.
- The **WsClient** is called by main (`connect`, `close`), by `output`
  (`connected`, `sendBinary`) and by `rtp-recv` (`sendText`), and has a reader
  thread that answers pings and closes the socket when it leaves.
- `stop` clears `active_`, closes the queue, joins the three threads and closes
  the WsClient, which joins the reader.

### What is hard, and what makes each component correct

| Component | Hard behaviour | Correct when |
|---|---|---|
| Main loop + SipUas | lost, duplicated and overtaking requests; a second caller; failures after the dialog was set; SIGINT | the media runs exactly for the dialog, for a softphone that is in the call; an INVITE starts media once; a hang-up ends it |
| SipUas | retransmission, missing and unparsable headers | one final response per INVITE with the identifiers of the request; a dialog is always answered; other calls do not disturb it |
| MediaSession | three threads, joins, a jitter buffer without a lock | the echo is in order and goes to an endpoint heard from; `stop` returns and nothing runs after it |
| JitterBuffer | wraparound, overflow, late packets meeting at the cursor | nothing is stranded behind the cursor, counters add up, playout is in order |
| BoundedQueue | notification outside the lock, `close` racing with waits | first in first out, no lost wakeup, the end is final, `close` releases everybody |
| RtpStats | wraparound with reordering and duplicates | true positions are recovered; loss is never overstated |
| DtmfDecoder | ends sent several times over a link that loses packets | once per press, in order, missed only when it cannot be told |
| SIP parser, SDP | folded, stacked, repeated and misspelt headers, wrong lengths, bodies with lines in any order | a caller can read every response as the answer to its request; media starts as both sides negotiated |
| RTP codec, G.711 | optional parts of the header shift the payload; segment ends, sign and clip | whatever the header, the samples spoken are heard, within the quantisation |
| rtp_sender, RtpStats | a packet held back while others are dropped; telephone events share the sequence numbers | the sender's counters are true and the receiver's agree with them |
| WsClient | blocking sends under a mutex, a reader closing the socket under everyone, reconnection | no frame is cut, a connection is always drained, calls return |

Every hazard is listed with its line in `PROJECT.json` under `hazards`.

## 2. Modules

```
SeqArith <- JitterBuffer <- JitterBufferProofs
    ^--- RtpStats <- RtpStream <- RtpStreamProofs   (RtpStream EXTENDS RtpPacket, Codec too)
InOrderBuffer <= JitterBuffer                       ( <= : is implemented by)
Handoff <= BoundedQueue <- BoundedQueueProofs
SipUas <- SipServer <- SipServerProofs        (SipServer EXTENDS SipParser, Sdp too)
   ^--- SipEndpoint <- SipEndpointProofs      (INSTANCE SipUas)
WsClient <- WsClientProofs
   ^--- MediaSession <- MediaSessionProofs    (INSTANCE WsClient, Handoff, InOrderBuffer;
                                               the proofs INSTANCE WsClientProofs)
DtmfDecoder <- DtmfDecoderProofs
```

| Module | Models | Correspondence |
|---|---|---|
| `SeqArith` | `seqLess`, `seqDiff` (`RtpPacket.cpp`), `extend` (`JitterBuffer.cpp`, `RtpStats.cpp`) | `Half` stands for `0x8000`, so that a small instance wraps. The correction loops of `extend` run at most once and are an `IF`. |
| `JitterBuffer` | the class, one thread at a time | `Insert` = `insert` with its branches `Discard` and `Accept` (which includes the overflow drop and the cursor skip); `Pop` = `pop` with `Play`, `DeclareLost`, `Underrun`; `Reset`. The keys of `buf_` are the packets. |
| `InOrderBuffer` | what the jitter buffer promises | `Insert`, `Remove` (of the oldest), `Clear` over numbered packets: any packet may be refused, beyond the room the oldest gives way, and what leaves leaves in order. Sequence numbers, the playout cursor and the losses it declares, priming and counters are not seen. |
| `RtpStats` | `update`, `expected`, `lost`, `reset` | The environment keeps the true position of each packet; the class sees the remainder. The floating-point jitter estimate is left out. |
| `RtpPacket` | `parse`, `serialize` | A datagram is its fixed header, field by field, and the bytes behind it; `WellFormed` has the length checks in the order of the code. Timestamp and SSRC are left out. |
| `Codec` | both companders, bulk forms, `Resample.cpp` | Shifts and masks are divisions and remainders; whole numbers, as the code's. |
| `RtpStream` | the loop of `rtp_sender`, a UDP link, `recvLoop` up to the jitter buffer | `Drop`, `Hold`, `SendAndRelease`, `Send`, `Flush` are the branches of one iteration and what follows the loop; whether a packet is to be dropped or held (there a random number) is nondeterministic. `Lose`, `Duplicate`, `Overtake` are the link. `Hear` parses, tells events from speech and calls `Update` of `RtpStats`; `Ignore` is a datagram that does not parse. |
| `BoundedQueue` | the class with its mutex and condition variables | A critical section is a step. `push`, `pop` and `close` notify after the unlock, so their notification is a step of its own. A woken thread is *Ready*: it still has to take the mutex and evaluate the predicate again. Waits may wake spuriously. |
| `Handoff` | what the queue promises | Put, Get, Close over numbered items. |
| `SipUas` | `handle` | One action per method; the Result of the call is kept in `result`. `callId_` and `inviteCSeq_` are fields of `invite`. Of the SDP only the outcome of `parseSdp` and `makeAnswer` is kept (`Offers`; computed from the body in `SipServer`). An unparsable CSeq is numbered -1, as in the code. |
| `SipParser` | `parseSip` and the methods of `SipMessage` | A header's value is a sequence of words; folding, trimming, names in any case, Content-Length, on its line or folded, against the body at hand. `ParseSip` folds the lines one by one as the code does. |
| `Sdp` | `parseSdp`, `makeAnswer`, `generate` | A body is a sequence of lines of the kinds the parser tells apart; a word that is no number is `Garbage`, and `Atoi` makes it 0. |
| `SipServer` | receive, `parseSip`, `handle`, `serialize` in main's loop | `Receive` is one iteration. `RequestOf` takes from the parsed message what `SipUas` tells apart, with the outcome of the real negotiation in place of an arbitrary one; `MakeResponse` builds the responses. `outbox` holds the responses of the Result and `Sent` what goes out for each. `lastInvite` and `last2xxInvite` are the messages the code keeps (without the body, and only while a dialog makes them readable). |
| `SipEndpoint` | main's loop, with softphones and the network | `Serve` is one iteration: `handle`, the responses, start or stop of the media. `StartMedia` over a session binds a used port and ends the process. `ServeThrows` is an iteration that ends it at one of the responses, because `sendTo` fails. `Interrupt` is SIGINT, inside `select` (an exception) or outside (a clean exit). `wire` holds the requests under way, `answers` the final responses a softphone waits for, which may be lost (`LoseAnswer`); `sent` is a history. |
| `DtmfDecoder` | `feed` behind a link | A press is a train of packets with growing durations and `EndCopies` ends, as RFC 4733 and `rtp_sender` send it. |
| `WsClient` | the class, its reader and the gateway | The critical sections that block (`sendAll`) hold `mu` over two steps. `Posix` selects what differs between the two builds: whether closing a descriptor wakes a `recv` on it, and SIGPIPE, in the handshake too. |
| `MediaSession` | `start`, `stop`, `printStats`, the three loops | The queue is a `Handoff` (shown to be implemented by `BoundedQueue`), the client is the whole `WsClient`, the jitter buffer is an `InOrderBuffer` (shown to be implemented by `JitterBuffer`): `insert` may drop the packet or an older one, `pop` may yield no packet, or the oldest queued one. Of telephone events `RecvDigit` yields a digit, `RecvEvent` none; both latch the sender. `insert` and `pop` span two steps, so that they can overlap; `sound` records whether they did. |

Operators named `X_Something`, next to the definition `X` they vary, are
*mutants*: plausible bugs used to check that each property can tell the code
from a broken version of it (section 3). No specification uses them.

## 3. Runs

Each run checks the properties of its `.cfg`; section 4 explains the fairness of
those with a `LiveSpec`. For every property of a passing run `PROJECT.json` names
a mutant under which TLC finds it violated.

| Run | Instance | What it shows |
|---|---|---|
| `jitter` | `Half` 3 (space of 6), target depth 2, cap 3, 6 inserts | `NothingStranded`, `CountersAgree`, `PlayedInOrder`, `LossOnlyBehindGap`, `QueuedPacketsLeave` |
| `stats` | `RtpStream`: `Half` 4 (space of 8), streams of 4 packets from every first number, 2 faults of the link; single packets with every sample in both laws and every style of header | `UnwrapExact`, `LossNeverOverstated`, `ImplementsRtpStats`, `SenderAccounts`, `LossAccounted`, `HeardAsSpoken` |
| `queue` | 2 producers, 2 consumers, a closer, capacity 2, 4 items | `EndIsFinal`, `NoLostWakeup`, `WaitersReleased`, `ImplementsHandoff`; deadlock is checked: the only terminal state is everybody finished |
| `uas` | `SipServer`: 3 Call-IDs (one of them folded), 2 CSeq numbers, 2 unparsable CSeqs; the first datagram is one of about two thousand odd ones, the later ones are plain | `DialogIsAnswered`, `OneFinalResponse`, `EchoesRequest`, `ActiveCallUndisturbed` for every sequence of requests; `ResponsesReadBack`, `MediaAsNegotiated` for what is sent and started |
| `endpoint` | 2 softphones, 2 requests of each in flight, answers lost, SIGINT, `sendTo` failing | `MediaMatchesDialog`, `MediaOnlyDuringCall`, `MediaStartedOncePerInvite`, `HangUpEndsMedia` |
| `endpoint_any` | the same with re-INVITEs and overtaking requests, without SIGINT | `UpHasMedia` survives both; `DriftOnlyByReInvite`: dialog and media drift apart through nothing but an INVITE inside the call |
| `dtmf` | 3 presses of two digits and a non-digit, durations up to 3, two ends each, one duplicated packet | `OncePerPress`, `TypedInOrder`, `PressesDetected` |
| `dtmf_reorder` | one press of it, nothing duplicated, packets overtake | *violates* `OncePerPress` (section 6) |
| `ws` | POSIX, 2 senders, 2 connections, one gateway frame on each | `FramesWhole`, `ConnectionHasReader`, `OldConnectionGone`, `CloseReturns`, `SendsReturn` |
| `ws_posix_close` | one connection | *violates* `CloseUnblocksReader` (section 6) |
| `media` | Winsock, 2 packets, each voice or a key press, queue capacity 1, jitter buffer capacity 2 | `EchoInOrder`, `EchoGoesToHeardPeer`, `StoppedIsQuiet`, `AcceptedIsEchoed`, `StopReturns` |
| `media_race` | 2 packets | *violates* `JitterBufferNotShared` (section 6) |

Type invariants (`TypeOK`) are proved for every module that has one
(section 5) and kept out of the runs, whose properties are about behaviour.

### Bounds and why they are enough

- **JitterBuffer.** A space of 6 wraps within the 6 inserts, the cap is reached
  and exceeded, and `reset` starts over; each insert may carry any number. The
  proofs lift the bounds altogether.
- **RtpStream.** Four packets can be dropped, held, and released behind a drop; from
  every first number of a space of 8 some of them wrap. One of the four may be a telephone
  event. Two faults lose, repeat or swap what the sender already swapped, or do so twice;
  six packets at most are counted, which `MaxUpdates` admits. A frame of two
  samples is the least in which an order and a midpoint can be wrong; the first sample
  takes all 65536 values, the second is the one above it.
- **BoundedQueue.** Two waiters on each condition variable are the fewest with
  which `notify_one` can wake the wrong number; a capacity of 2 with 4 items
  fills and drains the queue several times. Safety is proved for any number of threads.
- **SipUas.** The state depends on one Call-ID and one CSeq: two of each
  distinguish "mine" from "another".
- **SipServer.** Odd datagrams differ from plain ones in one respect at a time: the
  stack of Vias, the spelling and folding of the Call-ID, the lengths, or the body (any
  two of 13 lines, or an origin, an address and any three of them). Each is followed by
  every sequence of plain requests, which is what meets the state it left behind.
- **SipEndpoint.** Two softphones contest the one call slot; two requests in
  flight allow a request and its retransmission, or BYE behind INVITE. Of the responses
  those count that a softphone waits for when they are sent: each may be lost, and those
  of earlier copies of its request arrive in any order; hearing one ends the wait.
  Network and softphones are followed while the program runs.
- **DtmfDecoder.** Three presses include the same key twice in a row, with and
  without another between; event 16 is no digit.
- **WsClient.** Two connections are what reconnection needs; the frame from the
  gateway may be a ping, data or a close, while it may also leave at any time. One
  frame fills the TCP buffers, so sends do block.
- **MediaSession.** Two packets can be out of order; a queue of capacity 1 is
  full when the second comes, so `tryPush` drops it; a jitter buffer of capacity 2 holds both
  and puts them in order (it overflows in the run `jitter`; the proofs hold for any). One of the two may be a key press
  instead, which makes `rtp-recv` contend for the client's mutex with `output`.

`CHECK_DEADLOCK FALSE` appears only where the environment may fall silent for
ever (all calls over, all keys pressed, the stream sent, the session stopped).

## 4. Fairness

| Specification | Fairness | Justification |
|---|---|---|
| `JitterBuffer!LiveSpec` | weak, `Pop` | `playoutLoop` calls `pop` every 20 ms while the call lasts |
| `BoundedQueue!LiveSpec` | weak, per thread inside an operation that is not blocked | the scheduler runs a runnable thread; nobody is obliged to *call* anything. Weak fairness is enough: nobody holds the mutex between two steps |
| `SipEndpoint!LiveSpec` | strong, delivery of requests and hearing answers; weak, retransmitting | main keeps receiving; a softphone retransmits (RFC 3261 timers); a request sent again and again is not lost every time, nor is every one of the answers sent again and again. An answer sent once may be lost, so that the 481 to a copy of a BYE is needed. Nothing makes a softphone hang up |
| `WsClient!LiveSpec` | strong, the steps of calls and of the reader; weak, the gateway reading | a thread that waits for a mutex free again and again gets it; the gateway reads while it lives. The handshake has none: the code sets no timeout |
| `MediaSession!LiveSpec` | as WsClient; weak, each media thread | the same |

No liveness property asks that someone calls, presses or stops: each starts from
a call under way. In POSIX builds SIGPIPE may end the process; properties of the
client and the session say "or crashed" and hold for executions that go on.

## 5. Proofs

Proofs are in `*Proofs.tla`. They hold for every value of the constants that
satisfies the module's `ASSUME`: any size of sequence space, capacity, depth, set
of threads, headers or softphones.

**JitterBufferProofs.** The invariant `IInv` is the conjunction of the types,
`NothingStranded`, `WithinCapacity`, `PacketsConserved`, `SlotsAccounted` and
`Fresh` (before the first packet cursor and first key agree). None is inductive
alone: that an overflow drop moves the cursor *forward* needs that nothing was
queued behind it; that one drop is enough needs the cap; that the drop is counted
once needs the account of slots. One lemma per operation (`AcceptIInv`,
`PopIInv`, reset inside `StepIInv`). From it: `TypeCorrect`, `NeverStranded`,
`CapacityKept`, `CountersExact`, and the action properties `PlayoutOrdered` and
`LossJustified`. `KeepsPromise` is the refinement `Spec => Promised!Spec`: seen as the set
queued and the packet played last, the object is an `InOrderBuffer`. That a packet accepted
is newer than the last one played is `NothingStranded` and `SlotsAccounted` together
(`LastPlayedIs`), that `Play` takes the oldest is `NothingStranded` again; `HasLast`, an
invariant beside `IInv`, says that one of the packets played is the last, which a set of
numbers need not have. `MaxPackets` appears in no proof except as a guard that is
dropped: the results hold without the bound.

**RtpStreamProofs** goes from the arithmetic of sequence numbers to the whole stream.

- *Sequence arithmetic.* `SeqExtendExact`: if a packet's true position is less than half a
  space from the reference, `extend` of its remainder is that position. `SerialExact`:
  under the same premise `seqLess` and `seqDiff` are `<` and `-`. Both positions are
  written as cycle and remainder (`DivMod`), and the cycles are equal or neighbours
  (`NeighbouringCycles`).
- *RtpStats.* `IInv` adds to the properties that every received packet is counted at least
  once (`CountsEach`) and that the last packet is within half a space of the newest
  (`NearNewest`). `StatsExact`, `LossBounded` and `OrderExact` follow, for any stream that
  stays within half a space of its newest packet.
- *The sender.* `SenderTrue`, for streams of any length over any sequence space. `SInv` adds
  to the types that what went out is ordered but for packets that exactly one other overtook,
  with `sent` and `swapped` counting them (`Orderly`), and that every index below `next` is
  dropped, sent or held, in one of them only, everything sent being older than the packet
  held (`Accounted`). That a release adds exactly one to the overtaken ones rests on lemmas
  about appending to the log.
- *The packet codec.* `PayloadFound`: for any payload of bytes, any payload type and number
  and every style of header, `parse` of what `serialize` and the phone's dressing make
  gives them back. `BytesHeard` carries this through the link: the payload that `recvLoop`
  takes for frame `i` is the one the sender made for frame `i`, and it is taken for a
  telephone event exactly if it is one.
- *Refinement.* `StreamIsCounted`: `rtp_sender`, the link and `recvLoop` together implement
  `RtpStats!Spec`, with the index in the call as the true position. `LinkInv` says that each
  datagram under way is one the sender made for its index (`WireType`, `Packed`), and that
  positions on the scale of RtpStats are indices shifted by where the count began
  (`Placed`). A call of at most `Half` packets (`MaxTotal <= Half`) keeps all of them within
  half a space of each other, which is what makes the reordering of the sender and of the
  link harmless. `MaxUpdates` bounds how often module `RtpStats` lets `update` be called; it
  has to leave room for the call and its duplicates (`MaxUpdates >= MaxTotal + MaxFaults`,
  used with `Budget`). The instance of the run `stats` meets both exactly. `StreamLossBounded`
  is the composition with `StatsExact` and `LossBounded`.
- *Speech.* `CodecFaithful`: either law gives back every sample at most one part in 32 (and
  8) off, in the order of the samples, and gives back unchanged what it gave back before.
  Not by trying samples: the code words are cells of a segment (`MuTable`, `AWidths`), a
  sample is in one cell, and comes back as its middle (`MuReturns`, `AReturns`).
  `SpeechHeard` carries it through frame, packet, link and the doubling of the rate to
  `HeardAsSpoken`, under the same hypotheses as `StreamIsCounted`, on `BytesHeard`.
- *Loss.* `LossTold` proves `LossAccounted`, under the same two hypotheses. While the link
  has made no fault, the wire is the tail of the sender's log (`InStep`), and what was
  counted are the arrived packets of the log that are no telephone event, each once
  (`CountedOnce`). At the end the sender's own account (`SInv`) says which indices are
  missing from the log, and the difference is the loss reported.

**DtmfDecoderProofs.** `TypeCorrect` holds in whatever order packets arrive; the other
three assume `~Reorders`. Then the wire holds packets in the order they were made, and
none that something heard has passed (`Sequenced`); the presses reported increase
(`Increasing`) and were heard to end (`DigitsTrue`); and as long as no later press was
heard than the one reported last, the latch is set with its event and duration
(`Latched`): `PressReportedOnce` and `DigitsAsTyped` follow. `PressNotMissed` adds that
the decoder remembers the packet heard last of the last press heard (`LastHeard`).
The bounds of the run on presses, durations, copies and duplicates are constants: the
theorems hold for any.

**BoundedQueueProofs.** `IInv` has a data part (contents of the queue are exactly
the items between the last one out and the last one in) and a control part
(`EndIsFinal`, `CloseWakesAll`). `StepShape` reduces every action to one of three
changes of the data and to a bound on what happens to *bystanders*, threads other
than the one that moves. `QueueSafe`, `EndFinal`, `CloseWakes`, and `Refinement`:
`Spec => ImplementsHandoff`, where each step is a Put, a Get, a Close or a stutter.
`WakeupsNotLost` proves `NoLostWakeup`, given the types, as an inductive invariant of its
own: the threads that are awake for an item, or about to notify for one, are counted, and
each step is a move of one thread, or of one thread and the sleeper it wakes. `ItemsKept`
and `RoomKept` say what such a move may do to the count, and lemmas about the
cardinality of a set to which one thread is added, or from which one is taken, do the rest.

**SipServerProofs** goes from the agent alone to main's loop with the parser in front
and the writer behind, for any sets of Call-IDs and CSeq headers.

- *The agent* (`SipUas`). `DialogIsAnswered` with the types is inductive: `DialogStep`
  shows that a call of `handle` leaves the dialog, sets an answered one, or drops it.
  `AlwaysAnswered`, `FinalResponseOnce`, `CallUndisturbed` follow, unparsable headers
  included. `ResponsesEcho` needs more: the cached 200 echoes the INVITE it answered
  (`CachedEchoes`), and a retransmission has that INVITE's Call-ID and number, so that only
  two unparsable CSeqs can differ.
- *Reading*. Every datagram that comes is *readable* (`Comes`): its lines parse to *sound*
  headers, with at most one tag in a To and a Call-ID and CSeq the agent knows. The requests
  `handle` is given are therefore requests of `SipUas` (`FineRequest`), and each iteration
  of the loop is one of its steps or leaves it alone: `ServerImplementsAgent`,
  `ServerSpec => Spec`. `ServerKeepsPromises` composes it with the theorems about the agent.
- *Writing*. `RoundTrip`: `parseSip` undoes `serialize`, but for blanks around values and the
  Content-Length. `ResponseFiled` says which headers `makeResponse` leaves in the response;
  together they are `ResponsesAreRead`, which is `ResponsesReadBack`.
- *Negotiation*. `OfferReads` says what a session parsed from a body has to do with its
  lines (by induction over the lines, `OfferStep`), `AnswerWritten` what the answer's lines
  are, and `AcceptNegotiates` that its reader finds in it what the media is started with:
  `MediaIsNegotiated`, which is `MediaAsNegotiated`, its exceptions included.

The last two rest on `ServerInv`, which adds `Memory` to the agent's invariant: while a
dialog is up, the INVITE and the 200 the code keeps are a readable INVITE without its body
and the answer to it. Without it nothing is known of the cached 200, nor of the request a
487 is made from. The parser is a fold over lines and headers, and a lemma cannot have an
operator as its parameter: that a fold is a run of its steps is a lemma about functions
(`FoldDefined`, `FoldRun`), and the three folds of the model have one each (`HeaderFold`,
`ViaFold`, `LineFold`). For the same reason the filter of the headers (`Keep`) is a recursive
function. The odd datagrams are those of the run, with any number of Call-IDs. Assumed of the
words that stand for headers: a blank, a tag and a Call-ID are different words
(`BlankAssumption`, `WordAssumption`), 1 is a CSeq number and some CSeq does not parse
(`CSeqAssumption`), one Call-ID is folded and another is not (`FoldedCallIdAssumption`).

**SipEndpointProofs** has five invariants about calls and media, for any number of
softphones and of requests in flight. They speak of the program while it runs: it may end
at any time, by SIGINT, by a failing `sendTo` or by the second bind.

- `Inv`, under `~ReInvites`: `MediaAgrees` and `NeverTwoSessions` (the second bind never
  happens: `OneMediaSession`, which no run repeats), whether requests overtake
  each other or not. `OwnRequests` says that each softphone sends under its own Call-ID and
  INVITEs only with its first number, so that an INVITE of the active call is always
  recognised as a retransmission and never starts a second session.
- `MInv`, with no hypothesis: `CallHasMedia`. A softphone that is up was told 200
  (`AcceptedHasMedia`); as long as it has not hung up no BYE of its Call-ID exists (`Talk`),
  so that nothing it sends can take the dialog away, and the media stays that of the
  dialog's caller (`Held`), even if re-INVITEs are answered as new calls.
- `DInv` (with `MInv`), with no hypothesis: `OnlyReInvitesDrift`. A dialog always has the
  media of its INVITE (`Recorded`), and every INVITE that can drop the dialog or start over
  the session is one inside the call (`Renewed`): the first INVITE of a softphone that was
  accepted has a good offer in all its copies (`Offered`), so that a copy of it is a
  retransmission or finds the line free. `ServeDrifts` sorts what one request does to
  dialog and media into five cases; `ServeKeepsDrift` takes them one by one.
- `OInv` (with the first two), under `~ReInvites` and `~Reorders`: `MediaEndsWithCall`.
  On a network that keeps the order, no INVITE of a Call-ID is behind a BYE
  (`InviteFirst`), and a softphone that was told its call is over has nothing but BYEs left
  in the network (`Gone`, `Told`). `MediaOnlyDuringCall` is false without either hypothesis,
  as TLC finds on the instance of `endpoint_any` (section 6 names what the code does).
- `RInv` (`MInv` with `Once`), under `~Reorders` alone: `InviteStartsMediaOnce`. Every
  INVITE that once started the media is that of the session, or of a softphone that has
  nothing but BYEs left in the network. An INVITE inside the call cannot start it again
  either: it is new to the UAS, but the port is taken and the process ends (section 6). On a
  network that reorders, `MediaStartedOncePerInvite` is false.

`TypeCorrect` and `EndpointDrivesAgent` need none of them: what `handle` returns is typed
(`HandleTyped`), so every step of the endpoint keeps all the types, and is one step of
`SipUas` or leaves the agent alone.

The hypotheses are assumptions of these theorems, not of the module.

**WsClientProofs.** For any number of senders, connections and frames, on both platforms:
`TypeCorrect`, `NoFrameCut`, `AlwaysDrained`, `NothingLeftOver`. `IInv` is these four
properties with `DescriptorClosed`: between the two halves of `close` the descriptor is
closed, and a connection just published has no reader yet. The types are part of the
argument: `connected` goes with an open descriptor, which is what makes a thread that finds
`connected_` under the mutex write to a live connection.

**MediaSessionProofs.** For any number of packets, endpoints and frames, and any capacity.
`IInv` says that the jitter buffer is ahead of what was played and that ahead of what the
queue accepted (`InOrder`), that the output thread echoes what it takes, one by one
(`Echoed`), that nothing moves before an endpoint was heard (`Latched`), and what every
thread that was joined has left behind (`Joined`). From it `OrderKept`, `EchoFollowsPeer`
and `StopLeavesNothing`. Then the session is taken apart: `QueueAsPromised`,
`BufferAsPromised` and `ClientAsPromised` show that each of its steps is a step of `Handoff`,
of `InOrderBuffer` and of `WsClient`, or leaves them alone, so that what is proved of those
holds inside the session: the first two are what `BoundedQueue` and `JitterBuffer` are proved
to implement (`Refinement`, `KeepsPromise`);
`SessionSendsWhole` does it for `NoFrameCut` and `AlwaysDrained`, with an instance of
`WsClientProofs`. `TypeCorrect` takes the client's part from there, too, and adds that a
thread that goes on with a packet has one (`InHand`). `MediaAssumption` includes what `WsClient` assumes of its constants.
The theorems are about the model, in which `insert` and `pop` may overlap but an
overlap does no harm: what undefined behaviour it may have is not represented (`media_race`).

**Only model-checked.** Liveness (all leads-to properties: the prover does not do
`ENABLED`). All invariants and action properties of the passing runs are proved, within the
hypotheses named above. `WithinCapacity` of the jitter buffer, `OneMediaSession` and the
types are only proved, no run repeats them.

## 6. Known divergences

Three are shown by a run.

- **`dtmf_reorder`.** `Rfc4733.cpp` 36-38 clears the latch on any packet without the
  end bit. If one arrives after the first end of its press, the next copy of the end
  is a second digit: the trace is one press whose first end is heard ahead of the packet
  before it. (With several presses the reset of another event, 27-31, does the same when
  packets of one press arrive among those of another.) `Rfc4733.h` 27-28: "emits once per
  key *press* on the end bit".
- **`ws_posix_close`.** `close` closes the descriptor without `shutdown`; on POSIX a
  `recv` already blocked on it stays blocked and `join` waits until the gateway sends
  or leaves. `docs/ISSUES.md` 94-96: "closes the socket (unblocks recv), then joins".
  `CloseReturns`, checked in `ws`, says that this is the *only* way `close` can hang.
- **`media_race`.** `insert` on `rtp-recv`, `pop` on `playout` and `stats` on main use
  the jitter buffer without a common lock; `docs/PERFORMANCE.md` 63-64 says it "may
  stay lock-free" under this ownership. The models say nothing of what follows the
  race: `EchoInOrder` is about executions in which it did not happen.

Others were met while modelling and are part of the model, as outcomes or as
exceptions that a property names:

- A re-INVITE of the active call (other CSeq) is answered as a new call and a second
  MediaSession is constructed over the first: its bind throws and the process ends
  (`main.cpp` 329; `StartMedia`, `proc = "crashed"`). If its offer is refused, the dialog is
  dropped while the media goes on (`SipUas.cpp` 122, 131): the BYE is then answered 481 and
  the media stays until the next call is accepted, which is a second session.
  `DriftOnlyByReInvite` says that nothing else has these effects. `README.md` 242-243 lists
  re-INVITE as out of scope.
- A copy of an INVITE delayed beyond the BYE sets up a call nobody is in (`SipUas.cpp`
  98; excluded from `endpoint` by `Reorders = FALSE`).
- Only the 200 is cached: a retransmitted INVITE that was answered 486 is answered 200
  once the line is free (`Refused` in `MediaOnlyDuringCall`).
- Two unparsable CSeqs are both -1 (`SipUas.cpp` 94; the exception in `EchoesRequest`).
- SIGPIPE is neither ignored nor masked on POSIX (`WsClient.cpp` 107; `crashed`).
- A gateway that stops reading blocks a send under `mu_`, and every caller with it
  (`WsClient.cpp` 107), whereas `README.md` 95 says the RTP path never blocks on the
  recogniser. `SendsReturn` assumes a gateway that keeps reading.
- SIGINT during `select` makes `recvFrom` throw in main, and a failing `sendto` makes
  `sendTo` throw (`UdpSocket.cpp` 149, 127; `proc = "thrown"`).
- `seqDiff` of a gap of exactly half the space is -32768, which `RtpPacket.h` 40
  excludes.
- `rtp_sender` releases a held packet behind the next packet that is *not dropped*,
  which may be many slots later; the comment at `rtp_sender.cpp` 204 says one slot.
- Telephone events share the numbers of the speech and are not given to RtpStats
  (`main.cpp` 145): each is reported as a lost packet (`LossAccounted` says so).
- `recvLoop` decodes by the law of the session, not by the payload type of the packet
  (`main.cpp` 218).
- The mu-law code 127, a negative zero, is decoded to 0 and echoed as 255; all other
  codes return as they came.
- `serialize` writes the padding and extension bits of a packet without the bytes they
  announce (`RtpPacket.cpp` 74-75): such a packet does not parse back. No caller sets them.
- `Sdp.h` 35-36 says `parseSdp` returns nothing if the connection address is missing; the
  session starts with 127.0.0.1, so the test never fails and media goes to that address.
- The address is that of the last `o=` or `c=` line of any section (`Sdp.cpp` 105 has
  "`c=` wins below", which is so only if it comes after), and several `m=audio` lines
  add their formats up. `MediaAsNegotiated` checks the address of `Ordinary` offers.
- A format that is no number is 0, which is PCMU and is answered (`Garbled`). A telephone
  event at payload type 0 or 8 takes the speech for key presses, and is not announced
  back. `Sdp.h` 40-43 says that without an offered event 101 is advertised; it is not.
- A Call-ID folded onto a line of its own keeps a blank in front and is another Call-ID
  (`CallIdOf`). Abbreviated header names (`i`, `v`) are not recognised.
- The cached 200 carries the Vias of the INVITE it answered, also when it is sent to
  another transaction with the same Call-ID and number (`ResponsesReadBack`).

## 7. Not modelled

- **Character-level syntax of SIP**: what makes a start line, a CSeq (`parseCSeq`) or a
  parameter (`headerParam`) well-formed; their outcomes are in the model.
- **SDP session ids and wording, RTP timestamps and SSRC.**
- **RtpStats' interarrival jitter**: floating point over raw timestamps.
- **rtp_sender's arguments, WAV reader, tone and pacing.**
- **WsClient's bytes**: masks, keys, frame lengths, URL parsing, and bytes that arrive
  behind the 101 in the handshake's read. Frames stand for their bytes.
- **Data races on `fd_`** (the reader uses it without the mutex): the model reads the
  descriptor of the moment the reader enters `recv`.
- **The rest of UdpSocket**, logging, argument parsing, scripts, build files.
- **The gateway's recogniser**: external.

## 8. Plan

Done: all modules of section 2 and eight proof modules.

Left, extending the model:

1. The handshake of `WsClient` with the bytes that arrive behind the 101, and the frame
   headers of `sendAll` and of the reader.
2. The timestamp arithmetic of the jitter estimate, without the smoothing.

Of what the runs check only liveness is left unproved (section 5).

## 9. Running

```
tlc -config JitterBuffer.cfg JitterBuffer.tla      # any other run likewise
tlapm JitterBufferProofs.tla                       # any other *Proofs module
```

The longest runs are `uas` and `media`, about a minute each on two to four cores; `jitter` and
`stats` take below a minute, `endpoint` half of one, the others from a second to a quarter. The longest proofs
are `SipServerProofs` and `RtpStreamProofs`, about five minutes each; `SipEndpointProofs` takes
two, the others a minute or less each.
