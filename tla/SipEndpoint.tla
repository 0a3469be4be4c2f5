----------------------------- MODULE SipEndpoint -----------------------------
(***************************************************************************)
(* The signalling side of the program: main's loop (main.cpp) around a     *)
(* SipUas and at most one MediaSession, with softphones calling in over    *)
(* UDP.  One iteration of the loop is one step: the main thread alone uses *)
(* uas and media.                                                          *)
(*                                                                         *)
(* The softphones and the network are the environment.  A softphone makes  *)
(* one call under one Call-ID, retransmits a request until it has a final  *)
(* response, may send an INVITE inside the call when ReInvites, and hangs  *)
(* up with BYE.  The network loses and duplicates what it carries, both    *)
(* ways.  It keeps the requests of one softphone in order unless Reorders; *)
(* responses arrive in any order.                                          *)
(***************************************************************************)
EXTENDS Integers, Sequences, FiniteSets, SequencesExt

CONSTANTS
  CallIds,            \* the softphones, each with one call
  NoHeader,
  ReInvites,          \* softphones send an INVITE inside the call
  Reorders,           \* requests of one softphone overtake each other
  Interrupts,         \* the user presses Ctrl+C
  MaxInFlight         \* bound: requests of one softphone on their way

CSeqs == 1 .. 3       \* INVITE, INVITE inside the call, BYE
BadCSeqs == {}

ASSUME EndpointAssumption ==
  /\ NoHeader \notin CallIds \union CSeqs
  /\ {ReInvites, Reorders, Interrupts} \subseteq BOOLEAN
  /\ MaxInFlight \in Nat \ {0}

VARIABLES
  haveDialog, answered, invite, last2xx, result,    \* uas
  media,              \* the INVITE the MediaSession was started for, or Uas!NoRequest
  proc,               \* the process
  wire,               \* wire[c]: the requests of c on their way
  sent,               \* history: the responses sent so far
  answers,            \* those on their way for which a softphone waits
  phase, pending,     \* each softphone, and the request it awaits an answer to
  startedFor          \* history: the INVITEs a MediaSession was started for

Uas == INSTANCE SipUas

uas         == <<haveDialog, answered, invite, last2xx, result>>
endpoint    == <<uas, media, proc, startedFor>>
network     == <<wire, sent, answers>>
environment == <<network, phase, pending>>
vars        == <<endpoint, environment>>

NoMedia == Uas!NoRequest

Init ==
  /\ Uas!Init
  /\ media = NoMedia /\ proc = "running" /\ startedFor = {}
  /\ wire = [c \in CallIds |-> <<>>] /\ sent = {} /\ answers = {}
  /\ phase = [c \in CallIds |-> "idle"]
  /\ pending = [c \in CallIds |-> Uas!NoRequest]

-----------------------------------------------------------------------------
(* main *)

\* The new MediaSession is constructed before the one in place is destroyed: both
\* bind the RTP port, the second bind throws, and nothing in main catches it.
StartMedia(req) ==
  /\ startedFor' = startedFor \union {req}
  /\ IF media = NoMedia
       THEN media' = req /\ UNCHANGED proc
       ELSE proc' = "crashed" /\ UNCHANGED media

\* Mutant of StopMedia: the stop is forgotten.
StopMedia_Skipped == UNCHANGED <<media, proc, startedFor>>

StopMedia == media' = NoMedia /\ UNCHANGED <<proc, startedFor>>

Waits(c) == phase[c] \in {"calling", "reinviting", "closing"}

\* A final response to the pending request.  A softphone that does not wait for it when
\* it is sent never will, and ignores it.
Awaited(r) == r.code >= 200 /\ \E c \in CallIds : Waits(c) /\ r.cid = c /\ r.cseq = pending[c].cseq

Transmit(responses) ==
  /\ sent' = sent \union ToSet(responses)
  /\ answers' = answers \union {r \in ToSet(responses) : Awaited(r)}

\* One datagram: the request is handled, the responses sent, the media started
\* or stopped.
Serve(req) ==
  /\ proc = "running"
  /\ Uas!Handle(req)
  /\ Transmit(result'.responses)
  /\ CASE result'.media = "Start" -> StartMedia(req)
       [] result'.media = "Stop"  -> StopMedia
       [] result'.media = "None"  -> UNCHANGED <<media, proc, startedFor>>

\* sendTo throws at one of the responses, which nothing in main catches.
ServeThrows(req) ==
  /\ proc = "running"
  /\ Uas!Handle(req)
  /\ \E i \in DOMAIN result'.responses : Transmit(SubSeq(result'.responses, 1, i - 1))
  /\ proc' = "thrown" /\ UNCHANGED <<media, startedFor>>

\* SIGINT.  Outside select the loop ends and the media is released; inside, select
\* fails with EINTR and recvFrom throws.
Interrupt ==
  /\ Interrupts /\ proc = "running"
  /\ \/ proc' = "exited" /\ media' = NoMedia
     \/ proc' = "thrown" /\ UNCHANGED media
  /\ UNCHANGED <<uas, startedFor, environment>>

-----------------------------------------------------------------------------
(* The network.  It and the softphones are followed while the program runs. *)

Arriving(c) == IF Reorders THEN DOMAIN wire[c] ELSE DOMAIN wire[c] \cap {1}

Deliver(c) ==
  \E i \in Arriving(c) :
    /\ Serve(wire[c][i])
    /\ wire' = [wire EXCEPT ![c] = RemoveAt(@, i)]
    /\ UNCHANGED <<phase, pending>>

DeliverCopy(c) ==
  \E i \in Arriving(c) :
    /\ Serve(wire[c][i])
    /\ UNCHANGED <<wire, phase, pending>>

DeliverLast(c) ==
  \E i \in Arriving(c) :
    /\ ServeThrows(wire[c][i])
    /\ wire' = [wire EXCEPT ![c] = RemoveAt(@, i)]
    /\ UNCHANGED <<phase, pending>>

Lose(c) ==
  \E i \in Arriving(c) :
    /\ proc = "running"
    /\ wire' = [wire EXCEPT ![c] = RemoveAt(@, i)]
    /\ UNCHANGED <<endpoint, sent, answers, phase, pending>>

LoseAnswer(c) ==
  \E r \in answers :
    /\ proc = "running"
    /\ r.cid = c
    /\ answers' = answers \ {r}
    /\ UNCHANGED <<endpoint, wire, sent, phase, pending>>

-----------------------------------------------------------------------------
(* A softphone *)

Request(method, c, cseq, offer) ==
  [method |-> method, cid |-> c, cseq |-> cseq, offer |-> offer]

Ask(c, req, becomes) ==
  /\ proc = "running"
  /\ Len(wire[c]) < MaxInFlight
  /\ wire' = [wire EXCEPT ![c] = Append(@, req)]
  /\ pending' = [pending EXCEPT ![c] = req]
  /\ phase' = [phase EXCEPT ![c] = becomes]
  /\ UNCHANGED <<endpoint, sent, answers>>

Call(c) ==
  /\ phase[c] = "idle"
  /\ \E offer \in Uas!Offers : Ask(c, Request("INVITE", c, 1, offer), "calling")

ReInvite(c) ==
  /\ ReInvites /\ phase[c] = "up" /\ pending[c].cseq = 1
  /\ \E offer \in Uas!Offers : Ask(c, Request("INVITE", c, 2, offer), "reinviting")

HangUp(c) == phase[c] = "up" /\ Ask(c, Request("BYE", c, 3, "good"), "closing")

Retransmit(c) ==
  /\ Waits(c)
  /\ Ask(c, pending[c], phase[c])

\* The answer is heard; others like it will be ignored.  A call ends when its INVITE is
\* refused or its BYE answered; a refused INVITE inside a call leaves it as it was.
Hear(c) ==
  \E r \in answers :
    /\ proc = "running"
    /\ r.cid = c
    /\ answers' = {other \in answers : other.cid # c}
    /\ \/ phase[c] = "calling" /\ r.code = 200 /\ phase' = [phase EXCEPT ![c] = "up"]
       \/ phase[c] = "calling" /\ r.code # 200 /\ phase' = [phase EXCEPT ![c] = "over"]
       \/ phase[c] = "reinviting" /\ phase' = [phase EXCEPT ![c] = "up"]
       \/ phase[c] = "closing" /\ phase' = [phase EXCEPT ![c] = "over"]
    /\ UNCHANGED <<endpoint, wire, sent, pending>>

Next ==
  \/ Interrupt
  \/ \E c \in CallIds :
       \/ Deliver(c) \/ DeliverCopy(c) \/ DeliverLast(c) \/ Lose(c) \/ LoseAnswer(c)
       \/ Call(c) \/ ReInvite(c) \/ HangUp(c) \/ Retransmit(c) \/ Hear(c)

Spec == Init /\ [][Next]_vars

\* The main loop keeps receiving and a softphone keeps retransmitting; of requests
\* sent again and again, and of answers sent again and again, not every one is lost.
\* An answer sent once may be.
Fairness ==
  \A c \in CallIds : SF_vars(Deliver(c)) /\ WF_vars(Retransmit(c)) /\ SF_vars(Hear(c))

LiveSpec == Spec /\ Fairness

-----------------------------------------------------------------------------
OpenOffers == {req \in Uas!Requests : req.method = "INVITE" /\ req.offer = "good"}

Phases == {"idle", "calling", "up", "reinviting", "closing", "over"}

TypeOK ==
  /\ Uas!TypeOK
  /\ media = NoMedia \/ media \in OpenOffers
  /\ proc \in {"running", "exited", "thrown", "crashed"}
  /\ wire \in [CallIds -> Seq(Uas!Requests)]
  /\ \A c \in CallIds : Len(wire[c]) <= MaxInFlight
  /\ sent \subseteq Uas!Responses /\ answers \subseteq sent
  /\ phase \in [CallIds -> Phases]
  /\ pending \in [CallIds -> Uas!Requests]
  /\ startedFor \subseteq Uas!Requests

\* Between two iterations of the loop the one MediaSession is that of the dialog:
\* the UAS and main, who only exchange MediaActions, never drift apart.
MediaMatchesDialog ==
  proc = "running" =>
    IF haveDialog THEN media = invite ELSE media = NoMedia

Refused(c) == \E r \in sent : r.cid = c /\ r.code = 486

\* Media never outlives the call: it runs only for a softphone that has called and
\* has not yet been told that its call is over.  The exception is a softphone told
\* 486: only the 200 is cached (SipUas.cpp:98), so a retransmission of its INVITE that
\* arrives when the line has become free is a new call.
MediaOnlyDuringCall ==
  \A c \in CallIds :
    proc = "running" /\ media.cid = c /\ ~Refused(c)
      => phase[c] \in {"calling", "up", "reinviting", "closing"}

\* A softphone that is in a call has the media: nobody else took the one session,
\* and no late request of its own made it stop.
UpHasMedia ==
  \A c \in CallIds : proc = "running" /\ phase[c] = "up" => media.cid = c

\* The UAS and main drift apart only through an INVITE inside the call, which is handled
\* as a new one (SipUas.cpp:109): refused, it drops the dialog while the media goes on;
\* accepted, it starts a session over the one in place.  Nothing else leaves media
\* without a dialog, or binds the port twice, in whatever order requests come.
DriftOnlyByReInvite ==
  LET ReInviteGot(codes) ==
        \E r \in sent : r.cid = media.cid /\ r.cseq = 2 /\ r.code \in codes
  IN  /\ proc = "running" /\ haveDialog => media = invite
      /\ proc = "running" /\ ~haveDialog /\ media # NoMedia => ReInviteGot({400, 488})
      /\ proc = "crashed" => ReInviteGot({200, 400, 488})

\* main.cpp:55 "One active media session": a session is never started over another,
\* and with the port free the constructor does not throw.
OneMediaSession == proc # "crashed"

\* SipUas.cpp:96-97 "Retransmitted INVITE for the call we already answered: just
\* resend the cached 200 OK [...] Do NOT restart media": one INVITE starts media once,
\* as long as its copies arrive before the BYE, after which nothing remembers the call.
MediaStartedOncePerInvite ==
  [][media' # media /\ media' # NoMedia => media' \notin startedFor]_vars

\* A softphone that hangs up gets its answer, and the session is released, unless the
\* program ends first.  When the 200 to its BYE is lost, it is the 481 to a copy of the
\* BYE, for a call the UAS has forgotten, that ends it (SipUas.cpp:171).
HangUpEndsMedia ==
  \A c \in CallIds : phase[c] = "closing" ~> (phase[c] = "over" /\ media.cid # c) \/ proc # "running"
=============================================================================
