--------------------------------- MODULE Sdp ---------------------------------
(***************************************************************************)
(* parseSdp, makeAnswer and SdpSession::generate of sip/Sdp.cpp.  A body   *)
(* is a sequence of lines, and a line is what the parser tells apart:      *)
(*   [type |-> "o" or "c", addr |-> an address]                            *)
(*   [type |-> "m", media |-> "audio" or not, port, pts |-> the formats]   *)
(*   [type |-> "ptime", ms]     [type |-> "rtpmap", pt, name]              *)
(*   [type |-> "x"]             any other, or one with too few words       *)
(***************************************************************************)
EXTENDS Integers, Sequences, SequencesExt

Garbage == 100000                  \* a word where a number is due

Atoi(word) == IF word = Garbage THEN 0 ELSE word

Blankline == [type |-> "x"]

-----------------------------------------------------------------------------
(* parseSdp *)

EmptySession ==
  [connectionAddress |-> "127.0.0.1", audioPort |-> 0, payloadTypes |-> <<>>,
   ptimeMs |-> 20, dtmfPayloadType |-> -1]

\* A further m=audio line adds its formats and overrides the port, and the last of
\* all o= and c= lines gives the address, of whatever section it is.
ParseLine(s, line) ==
  CASE line.type \in {"o", "c"} -> [s EXCEPT !.connectionAddress = line.addr]
    [] line.type = "m" ->
         IF line.media = "audio" /\ line.pts # <<>>
           THEN [s EXCEPT !.audioPort = Atoi(line.port) % 65536,
                          !.payloadTypes = @ \o [i \in DOMAIN line.pts |-> Atoi(line.pts[i])]]
           ELSE s
    [] line.type = "ptime" -> [s EXCEPT !.ptimeMs = Atoi(line.ms)]
    [] line.type = "rtpmap" ->
         IF line.name = "telephone-event" THEN [s EXCEPT !.dtmfPayloadType = Atoi(line.pt)]
         ELSE s
    [] OTHER -> s

ParseSdp(body) == FoldLeft(ParseLine, EmptySession, body)

\* parseSdp returns a value.  The test for a missing address never fails, as the
\* address of EmptySession is not empty.
IsOffer(s) == s.payloadTypes # <<>>

-----------------------------------------------------------------------------
(* makeAnswer *)

OffersPcmu(s) == 0 \in ToSet(s.payloadTypes)
OffersPcma(s) == 8 \in ToSet(s.payloadTypes)

HasAnswer(offer) == OffersPcmu(offer) \/ OffersPcma(offer)

\* Mutant of Chosen: whatever the caller lists first.
Chosen_First(offer) == offer.payloadTypes[1]

Chosen(offer) == IF OffersPcmu(offer) THEN 0 ELSE 8

MakeAnswer(offer, localAddr, localPort) ==
  [connectionAddress |-> localAddr, audioPort |-> localPort,
   payloadTypes |-> <<Chosen(offer)>> \o
     (IF offer.dtmfPayloadType >= 0 THEN <<offer.dtmfPayloadType>> ELSE <<>>),
   ptimeMs |-> IF offer.ptimeMs > 0 THEN offer.ptimeMs ELSE 20,
   dtmfPayloadType |-> offer.dtmfPayloadType]

-----------------------------------------------------------------------------
(* generate *)

\* The lines of one format; a telephone event at 0 or 8 is written as speech.
RtpmapLines(s, pt) ==
  CASE pt = 0 -> <<[type |-> "rtpmap", pt |-> 0, name |-> "pcmu"]>>
    [] pt = 8 -> <<[type |-> "rtpmap", pt |-> 8, name |-> "pcma"]>>
    [] pt \notin {0, 8} /\ pt = s.dtmfPayloadType /\ pt >= 0 ->
         <<[type |-> "rtpmap", pt |-> pt, name |-> "telephone-event"], Blankline>>
    [] OTHER -> <<>>

Generate(s) ==
  <<Blankline, [type |-> "o", addr |-> s.connectionAddress], Blankline,
    [type |-> "c", addr |-> s.connectionAddress], Blankline,
    [type |-> "m", media |-> "audio", port |-> s.audioPort, pts |-> s.payloadTypes]>>
  \o FlattenSeq([i \in DOMAIN s.payloadTypes |-> RtpmapLines(s, s.payloadTypes[i])])
  \o <<[type |-> "ptime", ms |-> s.ptimeMs], Blankline>>
=============================================================================
