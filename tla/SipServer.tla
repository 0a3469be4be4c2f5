------------------------------ MODULE SipServer ------------------------------
(***************************************************************************)
(* The signalling half of the loop of app/main.cpp: a datagram is received,*)
(* parsed (SipParser), handled (SipUas, whose SDP work is module Sdp) and  *)
(* answered with serialized responses.  SipUas sees of a request its       *)
(* method, its identifiers and what becomes of its offer; here the whole   *)
(* responses are built, with the headers they copy and the SDP answer.     *)
(*                                                                         *)
(* The first datagram is one of many, the later ones are plain requests,   *)
(* so that each odd datagram is followed by any requests of its call.      *)
(***************************************************************************)
EXTENDS SipUas, SipParser, Sdp

CONSTANTS
  FoldedCallId,           \* the Call-ID that a value of several words is
  Tag                     \* the word that stands for the parameter tag=...

\* Not every Call-ID is folded.
ASSUME FoldedCallIdAssumption == FoldedCallId \in CallIds /\ CallIds # {FoldedCallId}

\* CSeq headers that the datagrams below have: 1, and one that does not parse.
ASSUME CSeqAssumption == 1 \in CSeqs /\ BadCSeqs # {}

\* Tag is no other word, nor is a space a CSeq.
ASSUME WordAssumption ==
  /\ Tag \notin Nat \union CallIds \union {Blank, "p", "q", "x", "ann", "bob"}
  /\ Blank \notin BadCSeqs

VARIABLES
  msg,           \* what parseSip made of the datagram that came last
  lastInvite,    \* lastInvite_, without the body, and last2xxInvite_: the messages,
  last2xxInvite, \* as long as there is a dialog, without which nothing reads them
  outbox,        \* the Result's responses, which the loop serializes and sends
  started,       \* the Result's remoteRtp, payloadType and dtmfPayloadType
  opening        \* no datagram has come yet

serverVars == <<vars, msg, lastInvite, last2xxInvite, outbox, started, opening>>

LocalIp == "10.0.0.1"
RtpPort == 40000
NotStarted == [payloadType |-> -1]

-----------------------------------------------------------------------------
(* From the message to what SipUas tells apart *)

\* What handle does with the body of an INVITE.
Outcome(body) ==
  LET offer == ParseSdp(body)
  IN  IF ~IsOffer(offer) THEN "unparsable"
      ELSE IF ~HasAnswer(offer) THEN "no_codec" ELSE "good"

\* A value folded onto a line of its own keeps a leading blank, and is another one.
CallIdOf(value) == IF Len(value) = 1 THEN value[1] ELSE FoldedCallId

RequestOf(m) ==
  [method |-> m.start.method,
   cid    |-> IF Has(m, "Call-ID") THEN CallIdOf(Get(m, "Call-ID")) ELSE NoHeader,
   cseq   |-> IF Has(m, "CSeq") THEN Get(m, "CSeq")[1] ELSE NoHeader,
   offer  |-> Outcome(m.body)]

-----------------------------------------------------------------------------
(* makeResponse *)

\* Mutant of CopyVias: set in place of add, the lowest Via alone is kept.
CopyVias_Set(resp, m) ==
  FoldLeft(LAMBDA r, h : Set(r, "Via", h.value), resp, GetAll(m, "Via"))

CopyVias(resp, m) ==
  FoldLeft(LAMBDA r, h : Add(r, "Via", h.value), resp, GetAll(m, "Via"))

Copy(resp, m, name) == IF Has(m, name) THEN Set(resp, name, Get(m, name)) ELSE resp

\* The To header gets our tag unless it has one; 100 never does.
CopyTo(resp, m, code) ==
  IF ~Has(m, "To") THEN resp
  ELSE LET to == Get(m, "To")
       IN  Set(resp, "To", IF Tag \in ToSet(to) \/ code = 100 THEN to ELSE Append(to, Tag))

MakeResponse(m, code, body) ==
  LET bare == [isRequest |-> FALSE, start |-> [form |-> "status", code |-> code],
               headers |-> <<>>, body |-> body]
  IN  Copy(Copy(CopyTo(Copy(CopyVias(bare, m), m, "From"), m, code), m, "Call-ID"), m, "CSeq")

\* The 200 to an INVITE, with the answer to its offer.
AcceptMessage(m) ==
  MakeResponse(m, 200, Generate(MakeAnswer(ParseSdp(m.body), LocalIp, RtpPort)))

StartOf(m) ==
  LET offer  == ParseSdp(m.body)
      answer == MakeAnswer(offer, LocalIp, RtpPort)
  IN  [addr |-> offer.connectionAddress, port |-> offer.audioPort,
       payloadType |-> answer.payloadTypes[1], dtmfPayloadType |-> answer.dtmfPayloadType]

-----------------------------------------------------------------------------
(* One iteration of the loop *)

\* handle sends the cached 200.
FromCache(req) == req.method = "INVITE" /\ ~Incomplete(req) /\ Retransmitted(req)

SetsUpCall(req) ==
  req.method = "INVITE" /\ ~Incomplete(req) /\ ~Retransmitted(req) /\ ~Foreign(req)

\* The message that stands for the response number i.
Answer(m, req, i) ==
  LET code == result'.responses[i].code
  IN  IF FromCache(req) THEN last2xxInvite
      ELSE IF code = 200 /\ SetsUpCall(req) THEN AcceptMessage(m)
      ELSE IF code = 487 THEN MakeResponse(lastInvite, code, <<>>)
      ELSE MakeResponse(m, code, <<>>)

Process(m) ==
  LET req == RequestOf(m)
      new == SetsUpCall(req)
  IN  /\ Handle(req)
      /\ lastInvite' = IF ~haveDialog' THEN NoMessage
                       ELSE IF new THEN [m EXCEPT !.body = <<>>] ELSE lastInvite
      /\ last2xxInvite' = IF ~haveDialog' THEN NoMessage
                          ELSE IF new THEN AcceptMessage(m) ELSE last2xxInvite
      /\ outbox' = [i \in 1 .. Len(result'.responses) |-> Answer(m, req, i)]
      /\ started' = IF result'.media = "Start" THEN StartOf(m) ELSE NotStarted

\* The datagram that goes out for the response number i.
Sent(i) == Serialize(outbox[i])

\* A response, or what does not parse.
Discard ==
  /\ outbox' = <<>> /\ started' = NotStarted
  /\ UNCHANGED <<vars, lastInvite, last2xxInvite>>

\* A datagram comes that parses to m.
Receive(m) ==
  /\ msg' = m /\ opening' = FALSE
  /\ IF m.isRequest THEN Process(m) ELSE Discard

-----------------------------------------------------------------------------
(* The datagrams *)

PlainCallIds == CallIds \ {FoldedCallId}

OptionalLine(name, word) == IF word = NoHeader THEN <<>> ELSE <<HeaderLine(name, <<word>>)>>

Addresses == <<HeaderLine("From", <<"ann">>), HeaderLine("To", <<"bob">>)>>

RequestStart(method) == [form |-> "request", method |-> method]

Plain(method, cid, cseq, body) ==
  [start |-> RequestStart(method),
   lines |-> <<HeaderLine("Via", <<"p">>)>> \o Addresses
               \o OptionalLine("Call-ID", cid) \o OptionalLine("CSeq", cseq),
   blank |-> TRUE, body |-> body]

Audio(port, pts) == [type |-> "m", media |-> "audio", port |-> port, pts |-> pts]

GoodBody == <<[type |-> "c", addr |-> "host"], Audio(5000, <<0>>)>>
BadBodies == {<<>>, <<Audio(5000, <<18>>)>>}

\* Of the other methods handle reads no CSeq.
PlainDatagrams ==
  {Plain("INVITE", cid, cseq, GoodBody) :
     cid \in PlainCallIds \union {NoHeader}, cseq \in CSeqs \union BadCSeqs \union {NoHeader}}
  \union
  {Plain("INVITE", cid, cseq, body) :
     cid \in PlainCallIds, cseq \in CSeqs, body \in BadBodies}
  \union
  {Plain(method, cid, cseq, <<>>) :
     method \in Methods \ {"INVITE"}, cid \in PlainCallIds \union {NoHeader},
     cseq \in {1, NoHeader}}

\* Headers spelt, stacked, repeated, abbreviated and folded in many ways, and lengths
\* that are right, short, too long, no number, folded or given twice.
Vias ==
  {<<>>, <<HeaderLine("v", <<"p">>)>>,
   <<HeaderLine("VIA", <<"p">>), HeaderLine("Via", <<Blank, "q">>)>>,
   <<HeaderLine("Via", <<"p">>), FoldedLine("x"), HeaderLine("Via", <<"q">>)>>,
   <<HeaderLine("Via", <<>>), FoldedLine("p")>>,
   <<FoldedLine("p")>>, <<NoiseLine>>}

Ids(id) ==
  {<<HeaderLine("Call-ID", <<id>>)>>, <<HeaderLine("i", <<id>>)>>,
   <<HeaderLine("CALL-ID", <<>>), FoldedLine(id)>>,
   <<HeaderLine("Call-ID", <<id>>), HeaderLine("CALL-ID", <<FoldedCallId>>)>>}

Lengths ==
  LET length(word) == HeaderLine("Content-Length", <<word>>)
      none         == CHOOSE word \in BadCSeqs : TRUE
  IN  {<<>>, <<length(2)>>, <<length(1)>>, <<length(3)>>, <<length(none)>>,
       <<length(2), length(3)>>, <<HeaderLine("Content-Length", <<>>), FoldedLine(1)>>}

OneId(id) == <<HeaderLine("Call-ID", <<id>>)>>

Stacked  == {vias \o Addresses \o ids : vias \in Vias, ids \in UNION {Ids(id) : id \in PlainCallIds}}
InDialog == {<<HeaderLine("To", <<"bob", Tag>>)>> \o OneId(id) : id \in PlainCallIds}
Measured == {OneId(id) \o length : id \in PlainCallIds, length \in Lengths}

FirstInvite(lines) ==
  [start |-> RequestStart("INVITE"), lines |-> lines \o <<HeaderLine("CSeq", <<1>>)>>,
   blank |-> TRUE, body |-> GoodBody]

Bare(start, blank) == [start |-> start, lines |-> <<>>, blank |-> blank, body |-> <<>>]
Starts == {[form |-> "garbled"], [form |-> "status", code |-> 200], RequestStart("BYE")}

OddHeaders ==
  {FirstInvite(lines) : lines \in Stacked \union InDialog \union Measured}
  \union {Bare(start, blank) : start \in Starts, blank \in BOOLEAN}

\* Bodies of two of these lines, or of three behind an origin and an address.
BodyLines ==
  {[type |-> "o", addr |-> "origin"], [type |-> "c", addr |-> "other"], Blankline,
   Audio(5000, <<0, 101>>), Audio(70000, <<3, 8>>), Audio(Garbage, <<Garbage>>), Audio(5000, <<>>),
   [type |-> "m", media |-> "video", port |-> 6000, pts |-> <<8>>],
   [type |-> "rtpmap", pt |-> 101, name |-> "telephone-event"],
   [type |-> "rtpmap", pt |-> 8, name |-> "telephone-event"],
   [type |-> "rtpmap", pt |-> 96, name |-> "opus"],
   [type |-> "ptime", ms |-> Garbage], [type |-> "ptime", ms |-> 30]}

OfferHead == <<[type |-> "o", addr |-> "origin"], [type |-> "c", addr |-> "host"]>>
AnyPlainCallId == CHOOSE id \in PlainCallIds : TRUE

OddBodies ==
  {Plain("INVITE", AnyPlainCallId, 1, body) :
     body \in SeqOf(BodyLines, 2) \union {OfferHead \o lines : lines \in SeqOf(BodyLines, 3)}}

-----------------------------------------------------------------------------
ServerInit ==
  /\ Init
  /\ msg = NoMessage
  /\ lastInvite = NoMessage /\ last2xxInvite = NoMessage
  /\ outbox = <<>> /\ started = NotStarted
  /\ opening = TRUE

OddMessages   == {ParseSip(dg) : dg \in OddHeaders \union OddBodies}
PlainMessages == {ParseSip(dg) : dg \in PlainDatagrams}

Open == opening /\ \E m \in OddMessages : Receive(m)

Serve == \E m \in PlainMessages : Receive(m)

ServerNext == Open \/ Serve

ServerSpec == ServerInit /\ [][ServerNext]_serverVars

-----------------------------------------------------------------------------
\* The caller can read every response (SipUas.cpp:41-43): it parses, with the stack of
\* Vias of the request from top to bottom, the same From, Call-ID and CSeq, and a To
\* with exactly one tag behind 100.  The cached 200 has those of the INVITE it answered.
ResponsesReadBack ==
  LET cached  == result.req.method = "INVITE" /\ Len(outbox) = 1 /\ result.responses[1].code = 200
      request == IF cached THEN lastInvite ELSE msg
      values(m, name) == LET all == GetAll(m, name)
                         IN  [i \in 1 .. Len(all) |-> Trim(all[i].value)]
      first(m, name)  == IF Has(m, name) THEN Trim(Get(m, name)) ELSE <<>>
  IN  \A i \in 1 .. Len(outbox) :
        LET back == ParseSip(Sent(i))
        IN  /\ back # NoMessage
            /\ back.start = [form |-> "status", code |-> result.responses[i].code]
            /\ values(back, "Via") = values(request, "Via")
            /\ \A name \in {"From", "Call-ID", "CSeq"} :
                 first(back, name) = first(request, name)
            /\ Has(back, "To") /\ back.start.code > 100 =>
                 Cardinality({k \in 1 .. Len(Get(back, "To")) : Get(back, "To")[k] = Tag}) = 1

\* A format of the offer is no number; parseSdp takes it for 0, which is PCMU.
Garbled(body) ==
  \E line \in ToSet(body) :
    line.type = "m" /\ Garbage \in ToSet(line.pts)

\* Offers with one audio section behind one origin and one address.
Ordinary(body) ==
  /\ Len(body) >= 3 /\ body[1].type = "o" /\ body[2].type = "c"
  /\ \A i \in 3 .. Len(body) : body[i].type \notin {"o", "c"}
  /\ Cardinality({i \in 1 .. Len(body) : body[i].type = "m"}) = 1

\* When media starts, both sides mean the same: the codec and the telephone event are
\* formats the offer has, PCMU where it is offered, and for an ordinary offer the
\* packets go where it says; and the caller reads from our answer the very codec,
\* port and telephone event we use, if that is not at 0 or 8.
MediaAsNegotiated ==
  result.media = "Start" /\ started # NotStarted =>
    LET body    == msg.body
        audio   == {line \in ToSet(body) : line.type = "m" /\ line.media = "audio"}
        formats == UNION {ToSet(line.pts) : line \in audio}
        events  == {line.pt : line \in {l \in ToSet(body) : l.type = "rtpmap" /\ l.name = "telephone-event"}}
        read    == ParseSdp(ParseSip(Sent(Len(outbox))).body)
    IN  /\ ~Garbled(body) => /\ started.payloadType \in formats \intersect {0, 8}
                             /\ 0 \in formats => started.payloadType = 0
        /\ started.dtmfPayloadType \in events \union {-1}
        /\ events # {} => started.dtmfPayloadType # -1
        /\ Ordinary(body) =>
             /\ started.addr = body[2].addr
             /\ \A line \in audio : line.port < 65536 => started.port = line.port
        /\ IsOffer(read)
        /\ read.connectionAddress = LocalIp /\ read.audioPort = RtpPort
        /\ read.payloadTypes[1] = started.payloadType
        /\ started.dtmfPayloadType \notin {0, 8} => read.dtmfPayloadType = started.dtmfPayloadType
=============================================================================
