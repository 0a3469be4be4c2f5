------------------------------- MODULE SipUas -------------------------------
(***************************************************************************)
(* sipdemo::SipUas (SipUas.h, SipUas.cpp): the SIP user agent server.      *)
(*                                                                         *)
(* handle is a function from the object's state and one request to a       *)
(* Result: one action per method, whose Result is kept in the variable     *)
(* result together with the request.  Of a response the status code and    *)
(* the Call-ID and CSeq it echoes are kept; tags, which no branch of the   *)
(* code depends on, are left out.  An SDP body is what parseSdp and        *)
(* makeAnswer make of it.                                                  *)
(***************************************************************************)
EXTENDS Integers, Sequences, FiniteSets

CONSTANTS
  CallIds,            \* values of the Call-ID header
  CSeqs,              \* CSeq headers that parseCSeq accepts: their numbers
  BadCSeqs,           \* CSeq headers it rejects
  NoHeader            \* the header is missing

ASSUME HeaderAssumption ==
  /\ CSeqs \subseteq Nat
  /\ NoHeader \notin CallIds \union CSeqs \union BadCSeqs
  /\ BadCSeqs \cap Int = {}

VARIABLES
  haveDialog, answered,
  invite,             \* lastInvite_; callId_ and inviteCSeq_ are set with it
  last2xx,            \* last2xxInvite_
  result              \* the request handled last and its Result

dialog == <<haveDialog, answered, invite, last2xx>>

Methods == {"INVITE", "ACK", "BYE", "CANCEL", "OPTIONS", "other"}
Offers  == {"good", "unparsable", "no_codec"}
Requests == [method : Methods, cid : CallIds \union {NoHeader},
             cseq : CSeqs \union BadCSeqs \union {NoHeader}, offer : Offers]

Codes == {100, 180, 200, 400, 405, 481, 486, 487, 488}
Responses == [code : Codes, cid : CallIds \union {NoHeader},
              cseq : CSeqs \union BadCSeqs \union {NoHeader}]

NoRequest  == [method |-> "other", cid |-> NoHeader, cseq |-> NoHeader, offer |-> "good"]
NoResponse == [code |-> 100, cid |-> NoHeader, cseq |-> NoHeader]

Init ==
  /\ haveDialog = FALSE /\ answered = FALSE
  /\ invite = NoRequest
  /\ last2xx = NoResponse
  /\ result = [req |-> NoRequest, responses |-> <<>>, media |-> "None"]

\* The number handle takes from a CSeq header.
CSeqNum(header) == IF header \in BadCSeqs THEN -1 ELSE header

\* makeResponse echoes the identifiers of the request.
Response(req, code) == [code |-> code, cid |-> req.cid, cseq |-> req.cseq]

Return(req, responses, media) ==
  result' = [req |-> req, responses |-> responses, media |-> media]

-----------------------------------------------------------------------------
(* INVITE *)

Incomplete(req) == req.cid = NoHeader \/ req.cseq = NoHeader

\* Mutant of Retransmitted: the CSeq number is not compared.
Retransmitted_AnyCSeq(req) == haveDialog /\ req.cid = invite.cid

Retransmitted(req) ==
  /\ haveDialog
  /\ req.cid = invite.cid
  /\ CSeqNum(req.cseq) = CSeqNum(invite.cseq)

\* Mutant of Foreign: a second caller is let in.
Foreign_None(req) == FALSE

Foreign(req) == haveDialog /\ req.cid # invite.cid

InviteIncomplete(req) ==
  /\ Incomplete(req)
  /\ Return(req, <<Response(req, 400)>>, "None")
  /\ UNCHANGED dialog

\* The cached 200 is sent again; the media is not restarted.
InviteRetransmitted(req) ==
  /\ ~Incomplete(req) /\ Retransmitted(req)
  /\ Return(req, IF answered THEN <<last2xx>> ELSE <<>>, "None")
  /\ UNCHANGED dialog

InviteBusy(req) ==
  /\ ~Incomplete(req) /\ Foreign(req)
  /\ Return(req, <<Response(req, 486)>>, "None")
  /\ UNCHANGED dialog

\* Mutant of Refuse: the dialog is not given up.
Refuse_KeepsDialog(req, code) ==
  /\ Return(req, <<Response(req, 100), Response(req, 180), Response(req, code)>>, "None")
  /\ haveDialog' = TRUE /\ answered' = FALSE /\ UNCHANGED last2xx

\* The offer cannot be parsed or answered: the dialog just set up is dropped.
Refuse(req, code) ==
  /\ Return(req, <<Response(req, 100), Response(req, 180), Response(req, code)>>, "None")
  /\ haveDialog' = FALSE /\ answered' = FALSE /\ UNCHANGED last2xx

Accept(req) ==
  /\ Return(req, <<Response(req, 100), Response(req, 180), Response(req, 200)>>, "Start")
  /\ haveDialog' = TRUE /\ answered' = TRUE /\ last2xx' = Response(req, 200)

\* A new call, or an INVITE of the active call with another CSeq number.
InviteNew(req) ==
  /\ ~Incomplete(req) /\ ~Retransmitted(req) /\ ~Foreign(req)
  /\ invite' = req
  /\ \/ req.offer = "unparsable" /\ Refuse(req, 400)
     \/ req.offer = "no_codec" /\ Refuse(req, 488)
     \/ req.offer = "good" /\ Accept(req)

Invite(req) ==
  /\ req.method = "INVITE"
  /\ \/ InviteIncomplete(req)
     \/ InviteRetransmitted(req)
     \/ InviteBusy(req)
     \/ InviteNew(req)

-----------------------------------------------------------------------------
(* The other methods *)

Options(req) ==
  /\ req.method = "OPTIONS"
  /\ Return(req, <<Response(req, 200)>>, "None")
  /\ UNCHANGED dialog

Ack(req) ==
  /\ req.method = "ACK"
  /\ Return(req, <<>>, "None")
  /\ UNCHANGED dialog

OfDialog(req) == haveDialog /\ req.cid = invite.cid

\* The INVITE a CANCEL refers to has not been answered.
StillPending(req) == OfDialog(req) /\ ~answered

Cancel(req) ==
  LET pending == StillPending(req)
      answers == IF pending THEN <<Response(req, 200), Response(invite, 487)>>
                            ELSE <<Response(req, 200)>>
  IN  /\ req.method = "CANCEL"
      /\ Return(req, answers, IF pending THEN "Stop" ELSE "None")
      /\ haveDialog' = (haveDialog /\ ~pending)
      /\ UNCHANGED <<answered, invite, last2xx>>

\* Mutant of Bye: any BYE ends the active call.
Bye_AnyCall(req) ==
  /\ req.method = "BYE"
  /\ IF haveDialog
       THEN /\ Return(req, <<Response(req, 200)>>, "Stop")
            /\ haveDialog' = FALSE /\ answered' = FALSE
            /\ UNCHANGED <<invite, last2xx>>
       ELSE Return(req, <<Response(req, 481)>>, "None") /\ UNCHANGED dialog

\* Mutant of Bye: the media is left running.
Bye_KeepsMedia(req) ==
  /\ req.method = "BYE"
  /\ IF OfDialog(req)
       THEN /\ Return(req, <<Response(req, 200)>>, "None")
            /\ haveDialog' = FALSE /\ answered' = FALSE
            /\ UNCHANGED <<invite, last2xx>>
       ELSE Return(req, <<Response(req, 481)>>, "None") /\ UNCHANGED dialog

\* Mutant of Bye: a BYE of no dialog is not answered.
Bye_SilentUnknown(req) ==
  /\ req.method = "BYE"
  /\ IF OfDialog(req)
       THEN /\ Return(req, <<Response(req, 200)>>, "Stop")
            /\ haveDialog' = FALSE /\ answered' = FALSE
            /\ UNCHANGED <<invite, last2xx>>
       ELSE Return(req, <<>>, "None") /\ UNCHANGED dialog

Bye(req) ==
  /\ req.method = "BYE"
  /\ IF OfDialog(req)
       THEN /\ Return(req, <<Response(req, 200)>>, "Stop")
            /\ haveDialog' = FALSE /\ answered' = FALSE
            /\ UNCHANGED <<invite, last2xx>>
       ELSE Return(req, <<Response(req, 481)>>, "None") /\ UNCHANGED dialog

Other(req) ==
  /\ req.method = "other"
  /\ Return(req, <<Response(req, 405)>>, "None")
  /\ UNCHANGED dialog

Handle(req) ==
  \/ Invite(req) \/ Options(req) \/ Ack(req)
  \/ Cancel(req) \/ Bye(req) \/ Other(req)

Next == \E req \in Requests : Handle(req)

vars == <<dialog, result>>

Spec == Init /\ [][Next]_vars

-----------------------------------------------------------------------------
TypeOK ==
  /\ haveDialog \in BOOLEAN /\ answered \in BOOLEAN
  /\ invite \in Requests
  /\ last2xx \in Responses
  /\ result \in [req : Requests, responses : Seq(Responses),
                 media : {"None", "Start", "Stop"}]

\* Between two calls of handle a dialog is always answered and the cached 200 is
\* the answer to the INVITE that set it up: the retransmission branch always has
\* a 200 to send, and the 487 branch of CANCEL is never taken.
DialogIsAnswered ==
  haveDialog => /\ answered
                /\ ~Incomplete(invite)
                /\ last2xx = Response(invite, 200)

\* Every INVITE, first or retransmitted, is given exactly one final response,
\* and nothing after it.
OneFinalResponse ==
  result.req.method = "INVITE" /\ result.req # NoRequest =>
    LET rs == result.responses
    IN  /\ rs # <<>>
        /\ \A i \in 1 .. Len(rs) : rs[i].code >= 200 <=> i = Len(rs)

\* SipUas.cpp:41-43 "Build a response that correctly echoes the request's
\* transaction/dialog identifiers", also when the response is the cached 200.  Two
\* CSeq headers that do not parse are both numbered -1: the cached 200 may carry one
\* in answer to the other.
EchoesRequest ==
  \A i \in 1 .. Len(result.responses) :
    LET cseq == result.responses[i].cseq
    IN  /\ result.responses[i].cid = result.req.cid
        /\ cseq = result.req.cseq \/ {cseq, result.req.cseq} \subseteq BadCSeqs

\* While a call is up, requests of any other Call-ID, well-formed or not, leave
\* its dialog and its media alone.
ActiveCallUndisturbed ==
  [][haveDialog /\ result'.req.cid # invite.cid
       => UNCHANGED dialog /\ result'.media = "None"]_vars
=============================================================================
