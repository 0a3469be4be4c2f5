------------------------------ MODULE RtpStream ------------------------------
(***************************************************************************)
(* One direction of the media: the loop of tools/rtp_sender.cpp, which     *)
(* drops packets and holds packets back on purpose, a UDP link that may    *)
(* lose, duplicate and swap datagrams, and recvLoop of app/main.cpp, which *)
(* parses a datagram, takes telephone events out of the stream and counts  *)
(* the others in RtpStats.  The queueing of the accepted packets is module *)
(* JitterBuffer.                                                           *)
(***************************************************************************)
EXTENDS RtpStats, RtpPacket, Codec, SequencesExt

CONSTANTS
  Tones,         \* the first sample of the speech, in the calls of several packets
  MaxTotal,      \* number of packets of those calls
  MaxFaults      \* bound of the runs on what the link does wrong

ASSUME StreamAssumption ==
  /\ Tones \subseteq Sample
  /\ MaxTotal \in Nat \ {0}
  /\ MaxFaults \in Nat

EventPT == 101
NoIndex == 0

VARIABLES
  call,          \* what the sender was started with; never changes
  next,          \* index of the frame the loop comes to
  seq,           \* its sequence number
  holding, held, \* the packet held back, with its index
  sent, swapped, \* the sender's counters sent and reordered
  dropped,       \* the indices dropped; the sender counts them
  log,           \* history: the indices in the order they were sent
  wire, faults,  \* the link: datagrams under way, and what it did wrong
  heard,         \* history: the packet recvLoop parsed last, and its index
  firstAt        \* history: index of the first packet the statistics counted

senderVars == <<next, seq, holding, held, sent, swapped, dropped, log>>
streamVars == <<call, senderVars, wire, faults, heard, firstAt, vars>>

-----------------------------------------------------------------------------
(* The sender's packets *)

\* Two samples per packet, the second one step louder than the first.
Wrapped(sample) == ((sample + 32768) % 65536) - 32768
Frame(i) == LET s == Wrapped(call.tone + 1000 * (i - 1)) IN <<s, Wrapped(s + 1)>>

\* What other phones put around the payload, and recvLoop has to skip.
Dress(dg, style) ==
  LET csrc == <<1, 2, 3, 4>>
      ext  == <<9, 9, 0, 1, 5, 6, 7, 8>>
  IN  CASE style = "plain"     -> dg
        [] style = "csrc"      -> [head |-> [dg.head EXCEPT !.cc = 1],
                                   rest |-> csrc \o dg.rest]
        [] style = "extension" -> [head |-> [dg.head EXCEPT !.extension = TRUE],
                                   rest |-> ext \o dg.rest]
        [] style = "padding"   -> [head |-> [dg.head EXCEPT !.padding = TRUE],
                                   rest |-> dg.rest \o <<0, 2>>]
        [] style = "all"       -> [head |-> [dg.head EXCEPT !.cc = 1, !.extension = TRUE,
                                                            !.padding = TRUE],
                                   rest |-> csrc \o ext \o dg.rest \o <<0, 2>>]

\* Datagrams that are no packets: STUN, and headers that promise more than comes.
Stray ==
  LET dg == Serialize(Packet(FALSE, 0, 0, <<200, 200>>))
  IN  {[head |-> [dg.head EXCEPT !.version = 0], rest |-> dg.rest],
       [head |-> [dg.head EXCEPT !.cc = 1], rest |-> dg.rest],
       [head |-> [dg.head EXCEPT !.extension = TRUE], rest |-> dg.rest],
       [head |-> [dg.head EXCEPT !.extension = TRUE], rest |-> <<0, 0, 0, 2>> \o dg.rest],
       [head |-> [dg.head EXCEPT !.padding = TRUE], rest |-> dg.rest],
       [head |-> [dg.head EXCEPT !.padding = TRUE], rest |-> <<0, 0>>]}

\* The packet of frame i; at call.key the phone sends a telephone event in its place.
Datagram(i) ==
  [at |-> i,
   dg |-> Dress(Serialize(
            IF i = call.key THEN Packet(TRUE, EventPT, seq, <<5, 10, 0, 0>>)
            ELSE Packet(i = 1, IF call.law = "A" THEN 8 ELSE 0, seq,
                        Encode(call.law, Frame(i)))),
          call.style)]

-----------------------------------------------------------------------------
(* One iteration of the sender's loop *)

Iterate ==
  /\ next <= call.total
  /\ next' = next + 1
  /\ seq' = (seq + 1) % SeqSpace
  /\ UNCHANGED <<call, faults, heard, firstAt, vars>>

\* Mutant of Drop: a packet that is not sent takes no sequence number.
Drop_KeepsNumber ==
  /\ next <= call.total
  /\ next' = next + 1
  /\ dropped' = dropped \union {next}
  /\ UNCHANGED <<call, seq, holding, held, sent, swapped, log, wire, faults, heard, firstAt, vars>>

Drop ==
  /\ Iterate
  /\ dropped' = dropped \union {next}
  /\ UNCHANGED <<holding, held, sent, swapped, log, wire>>

\* Mutant of Release: holding stays set, the held packet goes out again.
Release_KeepsHolding == UNCHANGED holding

Release == holding' = FALSE

SendAndRelease ==
  /\ holding
  /\ Iterate
  /\ wire' = wire \o <<Datagram(next), held>>
  /\ log' = log \o <<next, held.at>>
  /\ Release
  /\ swapped' = swapped + 1
  /\ sent' = sent + 2
  /\ UNCHANGED <<held, dropped>>

\* There is no holding back of the last packet.
Hold ==
  /\ ~holding
  /\ next < call.total
  /\ Iterate
  /\ held' = Datagram(next)
  /\ holding' = TRUE
  /\ UNCHANGED <<sent, swapped, dropped, log, wire>>

Send ==
  /\ ~holding
  /\ Iterate
  /\ wire' = Append(wire, Datagram(next))
  /\ log' = Append(log, next)
  /\ sent' = sent + 1
  /\ UNCHANGED <<holding, held, swapped, dropped>>

\* Behind the loop.  The program ends here, so holding is not looked at again.
Flush ==
  /\ next = call.total + 1
  /\ holding
  /\ wire' = Append(wire, held)
  /\ log' = Append(log, held.at)
  /\ sent' = sent + 1
  /\ holding' = FALSE
  /\ UNCHANGED <<call, next, seq, held, swapped, dropped, faults, heard, firstAt, vars>>

SenderDone == next = call.total + 1 /\ ~holding

-----------------------------------------------------------------------------
(* The link *)

Fault ==
  /\ faults < MaxFaults
  /\ call.total > 1
  /\ faults' = faults + 1
  /\ UNCHANGED <<call, senderVars, heard, firstAt, vars>>

Lose ==
  /\ wire # <<>>
  /\ Fault
  /\ wire' = Tail(wire)

Duplicate ==
  /\ wire # <<>>
  /\ Fault
  /\ wire' = Append(wire, wire[1])

Overtake ==
  /\ Len(wire) >= 2
  /\ Fault
  /\ wire' = <<wire[2], wire[1]>> \o SubSeq(wire, 3, Len(wire))

-----------------------------------------------------------------------------
(* recvLoop *)

\* Mutant of IsEvent: telephone events are counted like speech.
IsEvent_Never(pkt) == FALSE

\* The offer named a format for telephone events, and this is it.
IsEvent(pkt) == EventPT >= 0 /\ pkt.payloadType = EventPT

\* The true position of index i, on the scale on which RtpStats starts.
Position(i, pkt) == IF started THEN baseExt + (i - firstAt) ELSE pkt.sequence

\* update, and the histories of module RtpStats.
Count(i, pkt) ==
  LET p == Position(i, pkt)
  IN  /\ Update(pkt.sequence)
      /\ pos' = p
      /\ seen' = seen \union {p}
      /\ late' = IF \E q \in seen : p < q THEN late + 1 ELSE late
      /\ firstAt' = IF started THEN firstAt ELSE i

Arrive ==
  /\ wire # <<>>
  /\ wire' = Tail(wire)
  /\ UNCHANGED <<call, senderVars, faults>>

Ignore ==
  /\ Arrive
  /\ Parse(wire[1].dg) = NoPacket
  /\ UNCHANGED <<heard, firstAt, vars>>

Hear ==
  LET pkt == Parse(wire[1].dg)
  IN  /\ Arrive
      /\ pkt # NoPacket
      /\ heard' = [at |-> wire[1].at, pkt |-> pkt]
      /\ IF IsEvent(pkt) THEN UNCHANGED <<firstAt, vars>> ELSE Count(wire[1].at, pkt)

-----------------------------------------------------------------------------
Styles == {"plain", "csrc", "extension", "padding", "all"}

\* One packet with every first sample there is, one with every header, and a stream
\* that starts anywhere in the sequence space.
Calls ==
  [law : Laws, tone : Sample, total : {1}, start : {0}, key : {NoIndex}, style : {"plain"}]
    \union
  [law : {"mu"}, tone : Tones, total : {1}, start : {0}, key : {NoIndex, 1}, style : Styles]
    \union
  [law : {"A"}, tone : Tones, total : {MaxTotal}, start : SeqNum,
   key : NoIndex .. MaxTotal, style : {"plain"}]

StreamInit ==
  /\ Init
  /\ call \in Calls
  /\ next = 1 /\ seq = call.start
  /\ holding = FALSE /\ held = [at |-> NoIndex]
  /\ sent = 0 /\ swapped = 0 /\ dropped = {} /\ log = <<>>
  /\ wire \in {<<>>} \union
       (IF call.total = 1 /\ call.style = "all" THEN {<<[at |-> NoIndex, dg |-> s]>> : s \in Stray}
        ELSE {})
  /\ faults = 0
  /\ heard = [at |-> NoIndex] /\ firstAt = NoIndex

StreamNext ==
  \/ Drop \/ SendAndRelease \/ Hold \/ Send \/ Flush
  \/ Lose \/ Duplicate \/ Overtake
  \/ Ignore \/ Hear

StreamSpec == StreamInit /\ [][StreamNext]_streamVars

-----------------------------------------------------------------------------
\* Every packet is sent at most once, is overtaken by at most one other, which the
\* counter reordered tells exactly, and is in the end either sent or counted as
\* dropped: what rtp_sender prints when it is done is true (rtp_sender.cpp:213).
SenderAccounts ==
  LET overtaken == {i \in 1 .. Len(log) - 1 : log[i] > log[i + 1]}
  IN  /\ sent = Len(log) /\ IsInjective(log)
      /\ swapped = Cardinality(overtaken)
      /\ \A i, j \in 1 .. Len(log) : i < j /\ log[i] > log[j] => j = i + 1
      /\ dropped \intersect ToSet(log) = {}
      /\ SenderDone => dropped \union ToSet(log) = 1 .. call.total

\* What recvLoop hands to update is a stream as RtpStats takes it to be (RtpStats.h:13-17):
\* each packet it counts has the 16-bit remainder of the place it has in the speech,
\* drops, swaps and telephone events included, less than half a space from the newest.
\* So what is proved of that module's Spec holds of these calls.
ImplementsRtpStats == Spec

\* Behind a link that does nothing wrong, the loss the receiver reports is what the
\* sender dropped between the first and the newest packet that came, and the
\* telephone events sent there, less one if a packet came from before the first.
LossAccounted ==
  SenderDone /\ wire = <<>> /\ faults = 0 /\ started =>
    LET index(p) == firstAt + (p - baseExt)
        silent   == {p \in baseExt .. maxExt : index(p) \in dropped \union {call.key}}
        early    == {p \in seen : p < baseExt}
        missing  == Cardinality(silent) - Cardinality(early)
    IN  /\ Cardinality(early) <= 1
        /\ Lost = IF missing > 0 THEN missing ELSE 0

\* Whatever header a packet has, recvLoop finds the samples that were spoken: at
\* most one part in 32 off, a louder one never decoded as a quieter one, unchanged
\* when the echo encodes and decodes them again, and at twice the rate, in their
\* places, with the midpoints between them, for the gateway.
HeardAsSpoken ==
  heard.at # NoIndex /\ heard.at # call.key =>
    LET law     == call.law
        spoken  == Frame(heard.at)
        pcm     == Decode(law, heard.pkt.payload)
        doubled == Upsample(pcm)
    IN  /\ Len(pcm) = Len(spoken)
        /\ \A i \in 1 .. Len(pcm) :
             /\ 32 * Magnitude(pcm[i] - spoken[i]) <= Magnitude(spoken[i]) + 256
             /\ doubled[2 * i - 1] = pcm[i]
        /\ \A i, j \in 1 .. Len(pcm) : spoken[i] <= spoken[j] => pcm[i] <= pcm[j]
        /\ Decode(law, Encode(law, pcm)) = pcm
        /\ Len(doubled) = 2 * Len(pcm)
        /\ \A i \in 1 .. Len(pcm) - 1 :
             Magnitude(2 * doubled[2 * i] - pcm[i] - pcm[i + 1]) <= 1
=============================================================================
