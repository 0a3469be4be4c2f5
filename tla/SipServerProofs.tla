--------------------------- MODULE SipServerProofs ---------------------------
(***************************************************************************)
(* For every set of Call-IDs and CSeq headers.  Of the agent alone         *)
(* (SipUas): a dialog is always an answered one, every INVITE gets one     *)
(* final response, and a request of another Call-ID cannot touch the call  *)
(* that is up.  Of the agent behind the parser (SipServer): it keeps these *)
(* promises whatever datagrams come, the caller can read every response,   *)
(* and when media starts both sides mean the same.                         *)
(*                                                                         *)
(* The order: the agent; folds over sequences, step by step; the filter of *)
(* the headers and Trim; a message written and parsed again; makeResponse; *)
(* the datagrams; offers and answers; the loop.                            *)
(***************************************************************************)
EXTENDS SipServer, FiniteSetTheorems, SequenceTheorems, WellFoundedInduction,
        NaturalsInduction, TLAPS

-----------------------------------------------------------------------------
(* The agent alone *)

\* makeResponse gives a well-typed response with the code it was asked for.
LEMMA ResponseType ==
  ASSUME NEW req \in Requests, NEW code \in Codes
  PROVE  /\ Response(req, code) \in Responses
         /\ Response(req, code).code = code
BY DEF Response, Responses, Requests

NewCallResult(req, code) ==
  [req |-> req, responses |-> <<Response(req, 100), Response(req, 180), Response(req, code)>>,
   media |-> IF code = 200 THEN "Start" ELSE "None"]

\* The outcome of an INVITE that is neither a retransmission nor foreign.
Refused(req, code) ==
  /\ result' = NewCallResult(req, code)
  /\ haveDialog' = FALSE /\ answered' = FALSE /\ last2xx' = last2xx

Accepted(req) ==
  /\ result' = NewCallResult(req, 200)
  /\ haveDialog' = TRUE /\ answered' = TRUE /\ last2xx' = Response(req, 200)

\* The three outcomes of an INVITE that sets up a call.
LEMMA InviteNewEffect ==
  ASSUME NEW req \in Requests, InviteNew(req)
  PROVE  /\ invite' = req
         /\ ~Incomplete(req)
         /\ Refused(req, 400) \/ Refused(req, 488) \/ Accepted(req)
<1>1. invite' = req /\ ~Incomplete(req)
  BY DEF InviteNew
<1>2. CASE Refuse(req, 400)
  BY <1>1, <1>2 DEF Refuse, Return, NewCallResult, Refused
<1>3. CASE Refuse(req, 488)
  BY <1>1, <1>3 DEF Refuse, Return, NewCallResult, Refused
<1>4. CASE Accept(req)
  BY <1>1, <1>4 DEF Accept, Return, NewCallResult, Accepted
<1> QED BY <1>2, <1>3, <1>4 DEF InviteNew

\* Every Result names its request, and holds well-typed responses.
LEMMA ResultType ==
  ASSUME TypeOK, NEW req \in Requests, Handle(req)
  PROVE  /\ result'.req = req
         /\ result' \in [req : Requests, responses : Seq(Responses),
                         media : {"None", "Start", "Stop"}]
<1>0. /\ invite \in Requests /\ last2xx \in Responses
      /\ \A code \in Codes : Response(req, code) \in Responses /\ Response(invite, code) \in Responses
  BY ResponseType DEF TypeOK
<1>1. CASE Invite(req)
  <2>1. CASE InviteIncomplete(req)
    BY <1>0, <2>1 DEF InviteIncomplete, Return, Codes
  <2>2. CASE InviteRetransmitted(req)
    BY <1>0, <2>2 DEF InviteRetransmitted, Return
  <2>3. CASE InviteBusy(req)
    BY <1>0, <2>3 DEF InviteBusy, Return, Codes
  <2>4. CASE InviteNew(req)
    <3>0. \/ result' = NewCallResult(req, 200) \/ result' = NewCallResult(req, 400)
          \/ result' = NewCallResult(req, 488)
      <4>1. Refused(req, 400) \/ Refused(req, 488) \/ Accepted(req)
        BY <2>4, InviteNewEffect
      <4> QED BY <4>1 DEF Refused, Accepted
    <3>1. ASSUME NEW code \in {200, 400, 488}, result' = NewCallResult(req, code)
          PROVE  /\ result'.req = req
                 /\ result' \in [req : Requests, responses : Seq(Responses),
                                 media : {"None", "Start", "Stop"}]
      <4> DEFINE rs == <<Response(req, 100), Response(req, 180), Response(req, code)>>
      <4>1. rs \in Seq(Responses)
        BY <1>0 DEF Codes
      <4> HIDE DEF rs
      <4>2. result' = [req |-> req, responses |-> rs,
                       media |-> IF code = 200 THEN "Start" ELSE "None"]
        BY <3>1 DEF NewCallResult, rs
      <4> QED BY <4>1, <4>2
    <3>2. CASE result' = NewCallResult(req, 200)
      BY <3>1, <3>2
    <3>3. CASE result' = NewCallResult(req, 400)
      BY <3>1, <3>3
    <3>4. CASE result' = NewCallResult(req, 488)
      BY <3>1, <3>4
    <3> QED BY <3>0, <3>2, <3>3, <3>4
  <2> QED BY <1>1, <2>1, <2>2, <2>3, <2>4 DEF Invite
<1>2. CASE Options(req)
  BY <1>0, <1>2 DEF Options, Return, Codes
<1>3. CASE Ack(req)
  BY <1>0, <1>3 DEF Ack, Return
<1>4. CASE Cancel(req)
  <2>1. CASE StillPending(req)
    <3>1. result' = [req |-> req, responses |-> <<Response(req, 200), Response(invite, 487)>>,
                     media |-> "Stop"]
      BY <1>4, <2>1 DEF Cancel, Return
    <3> QED BY <1>0, <3>1 DEF Codes
  <2>2. CASE ~StillPending(req)
    <3>1. result' = [req |-> req, responses |-> <<Response(req, 200)>>, media |-> "None"]
      BY <1>4, <2>2 DEF Cancel, Return
    <3> QED BY <1>0, <3>1 DEF Codes
  <2> QED BY <2>1, <2>2
<1>5. CASE Bye(req)
  <2>1. PICK code \in {200, 481}, media \in {"None", "Stop"} :
          result' = [req |-> req, responses |-> <<Response(req, code)>>, media |-> media]
    BY <1>5 DEF Bye, Return
  <2> QED BY <1>0, <2>1 DEF Codes
<1>6. CASE Other(req)
  BY <1>0, <1>6 DEF Other, Return, Codes
<1> QED BY <1>1, <1>2, <1>3, <1>4, <1>5, <1>6 DEF Handle

\* What each request does to the dialog: nothing, a new INVITE's outcome, or its end.
LEMMA DialogStep ==
  ASSUME TypeOK, DialogIsAnswered, NEW req \in Requests, Handle(req)
  PROVE  \/ UNCHANGED dialog
         \/ Invite(req) /\ InviteNew(req)
         \/ /\ haveDialog' = FALSE /\ answered' = FALSE
            /\ UNCHANGED <<invite, last2xx>> /\ OfDialog(req)
<1>1. CASE Invite(req)
  BY <1>1 DEF Invite, InviteIncomplete, InviteRetransmitted, InviteBusy
<1>2. CASE Cancel(req)
  BY <1>2 DEF Cancel, StillPending, OfDialog, DialogIsAnswered, TypeOK, dialog
<1>3. CASE Bye(req)
  BY <1>3 DEF Bye
<1> QED BY <1>1, <1>2, <1>3 DEF Handle, Options, Ack, Other

Inv == TypeOK /\ DialogIsAnswered

\* Before any request.
LEMMA InitInv == Init => Inv
<1> SUFFICES ASSUME Init PROVE Inv
  OBVIOUS
<1>1. NoRequest \in Requests /\ NoResponse \in Responses
  BY DEF NoRequest, NoResponse, Requests, Responses, Methods, Offers, Codes
<1>2. result \in [req : Requests, responses : Seq(Responses), media : {"None", "Start", "Stop"}]
  <2>1. result = [req |-> NoRequest, responses |-> <<>>, media |-> "None"] /\ <<>> \in Seq(Responses)
    BY DEF Init
  <2> QED BY <1>1, <2>1
<1> QED BY <1>1, <1>2 DEF Init, Inv, TypeOK, DialogIsAnswered

\* A request keeps the agent well-typed and its dialog answered.
LEMMA NextInv == Inv /\ [Next]_vars => Inv'
<1> SUFFICES ASSUME Inv, [Next]_vars PROVE Inv'
  OBVIOUS
<1> USE DEF Inv
<1>1. CASE Next
  <2> PICK req \in Requests : Handle(req)
    BY <1>1 DEF Next
  <2>1. result' \in [req : Requests, responses : Seq(Responses),
                     media : {"None", "Start", "Stop"}]
    BY ResultType
  <2>2. CASE UNCHANGED dialog
    BY <2>1, <2>2 DEF TypeOK, DialogIsAnswered, dialog
  <2>3. CASE InviteNew(req)
    <3>1. Response(req, 200) \in Responses
      BY ResponseType DEF Codes
    <3>2. invite' = req /\ ~Incomplete(req)
      BY <2>3, InviteNewEffect DEF Refused, Accepted
    <3>3. \/ haveDialog' = TRUE /\ answered' = TRUE /\ last2xx' = Response(req, 200)
          \/ haveDialog' = FALSE /\ answered' = FALSE /\ last2xx' = last2xx
      BY <2>3, InviteNewEffect DEF Refused, Accepted
    <3>4. TypeOK'
      BY <2>1, <3>1, <3>2, <3>3 DEF TypeOK
    <3>5. DialogIsAnswered'
      BY <3>2, <3>3 DEF DialogIsAnswered, Incomplete, Response
    <3> QED BY <3>4, <3>5
  <2>4. CASE haveDialog' = FALSE /\ answered' = FALSE /\ UNCHANGED <<invite, last2xx>>
    BY <2>1, <2>4 DEF TypeOK, DialogIsAnswered
  <2> QED BY <2>2, <2>3, <2>4, DialogStep
<1>2. CASE UNCHANGED vars
  BY <1>2 DEF vars, dialog, TypeOK, DialogIsAnswered
<1> QED BY <1>1, <1>2

\* By induction over the requests.
LEMMA Invariance == Spec => []Inv
BY InitInv, NextInv, PTL DEF Spec

\* The state of the agent stays well-typed.
THEOREM TypeCorrect == Spec => []TypeOK
BY Invariance, PTL DEF Inv

\* SipUas.cpp:98-101, 160-164: a dialog is answered whenever handle returns, so the
\* retransmission branch always has its 200, and CANCEL never finds a pending INVITE.
THEOREM AlwaysAnswered == Spec => []DialogIsAnswered
BY Invariance, PTL DEF Inv

\* The step of OneFinalResponse.
LEMMA FinalResponseStep == Inv /\ OneFinalResponse /\ [Next]_vars => OneFinalResponse'
<1> SUFFICES ASSUME Inv, OneFinalResponse, [Next]_vars PROVE OneFinalResponse'
  OBVIOUS
<1> USE DEF Inv
<1>1. CASE Next
  <2> PICK req \in Requests : Handle(req)
    BY <1>1 DEF Next
  <2>0. result'.req = req
    BY ResultType
  <2>1. CASE req.method # "INVITE"
    BY <2>0, <2>1 DEF OneFinalResponse
  <2>2. CASE Invite(req)
    <3>1. CASE InviteIncomplete(req)
      BY <3>1, ResponseType DEF InviteIncomplete, Return, OneFinalResponse, Codes
    <3>2. CASE InviteRetransmitted(req)
      <4>1. answered /\ last2xx = Response(invite, 200) /\ invite \in Requests
        BY <3>2 DEF InviteRetransmitted, Retransmitted, DialogIsAnswered, TypeOK
      <4>2. result' = [req |-> req, responses |-> <<last2xx>>, media |-> "None"]
        BY <3>2, <4>1 DEF InviteRetransmitted, Return
      <4> QED BY <4>1, <4>2, ResponseType DEF OneFinalResponse, Codes
    <3>3. CASE InviteBusy(req)
      BY <3>3, ResponseType DEF InviteBusy, Return, OneFinalResponse, Codes
    <3>4. CASE InviteNew(req)
      <4>1. PICK code \in {200, 400, 488} :
              result'.responses = <<Response(req, 100), Response(req, 180), Response(req, code)>>
        <5>1. \/ result' = NewCallResult(req, 200) \/ result' = NewCallResult(req, 400)
              \/ result' = NewCallResult(req, 488)
          <6>1. Refused(req, 400) \/ Refused(req, 488) \/ Accepted(req)
            BY <3>4, InviteNewEffect
          <6> QED BY <6>1 DEF Refused, Accepted
        <5> QED BY <5>1 DEF NewCallResult
      <4>2. /\ Response(req, 100).code = 100 /\ Response(req, 180).code = 180
            /\ Response(req, code).code = code
        BY ResponseType DEF Codes
      <4> QED BY <4>1, <4>2 DEF OneFinalResponse
    <3> QED BY <2>2, <3>1, <3>2, <3>3, <3>4 DEF Invite
  <2> QED BY <2>1, <2>2 DEF Handle, Options, Ack, Cancel, Bye, Other
<1>2. CASE UNCHANGED vars
  BY <1>2 DEF vars, OneFinalResponse
<1> QED BY <1>1, <1>2

\* handle answers every INVITE, first or again, with exactly one final response, last.
THEOREM FinalResponseOnce == Spec => []OneFinalResponse
<1>1. Init => OneFinalResponse
  BY DEF Init, OneFinalResponse
<1> QED BY <1>1, Invariance, FinalResponseStep, PTL DEF Spec

\* SipUas.cpp:103-107, 171, 160: while a call is up, no request of another Call-ID
\* changes its dialog or its media.
THEOREM CallUndisturbed == Spec => ActiveCallUndisturbed
<1>1. Inv /\ [Next]_vars =>
        [haveDialog /\ result'.req.cid # invite.cid
           => UNCHANGED dialog /\ result'.media = "None"]_vars
  <2> SUFFICES ASSUME Inv, NEW req \in Requests, Handle(req),
                      haveDialog, result'.req.cid # invite.cid
               PROVE  UNCHANGED dialog /\ result'.media = "None"
    BY DEF Next
  <2>0. req.cid # invite.cid
    BY ResultType DEF Inv
  <2>1. CASE Invite(req)
    BY <2>0, <2>1 DEF Invite, InviteIncomplete, InviteRetransmitted, InviteBusy, InviteNew,
                      Foreign, Retransmitted, Return
  <2>2. CASE Cancel(req)
    BY <2>0, <2>2 DEF Cancel, StillPending, OfDialog, Return, dialog, Inv, TypeOK
  <2>3. CASE Bye(req)
    BY <2>0, <2>3 DEF Bye, OfDialog, Return
  <2> QED BY <2>1, <2>2, <2>3 DEF Handle, Options, Ack, Other, Return
<1> QED BY <1>1, Invariance, PTL DEF Spec, ActiveCallUndisturbed

\* A response made by makeResponse echoes its request.
Echo(req, response) ==
  /\ response.cid = req.cid
  /\ response.cseq = req.cseq \/ {response.cseq, req.cseq} \subseteq BadCSeqs

\* makeResponse copies the identifiers of its request,
LEMMA ResponseEchoes ==
  ASSUME NEW req, NEW code
  PROVE  Echo(req, Response(req, code))
BY DEF Echo, Response

\* and the cached 200 has those of an INVITE sent again.
LEMMA CachedEchoes ==
  ASSUME Inv, NEW req \in Requests, ~Incomplete(req), Retransmitted(req)
  PROVE  Echo(req, last2xx)
<1>1. /\ last2xx = Response(invite, 200) /\ ~Incomplete(invite)
      /\ invite \in Requests /\ invite.cid = req.cid
      /\ CSeqNum(req.cseq) = CSeqNum(invite.cseq)
  BY DEF Inv, TypeOK, DialogIsAnswered, Retransmitted
<1>2. {req.cseq, invite.cseq} \subseteq CSeqs \union BadCSeqs
  BY <1>1 DEF Incomplete, Requests
<1>3. req.cseq = invite.cseq \/ {req.cseq, invite.cseq} \subseteq BadCSeqs
  BY <1>1, <1>2, HeaderAssumption DEF CSeqNum
<1> QED BY <1>1, <1>3 DEF Echo, Response

\* The step of EchoesRequest.
LEMMA EchoStep == Inv /\ EchoesRequest /\ [Next]_vars => EchoesRequest'
<1> SUFFICES ASSUME Inv, EchoesRequest, [Next]_vars PROVE EchoesRequest'
  OBVIOUS
<1>1. CASE Next
  <2> PICK req \in Requests : Handle(req)
    BY <1>1 DEF Next
  <2>0. result'.req = req
    BY ResultType DEF Inv
  <2> SUFFICES \A i \in 1 .. Len(result'.responses) : Echo(req, result'.responses[i])
    BY <2>0 DEF EchoesRequest, Echo
  <2>1. ASSUME NEW code, result'.responses = <<Response(req, code)>>
        PROVE  \A i \in 1 .. Len(result'.responses) : Echo(req, result'.responses[i])
    BY <2>1, ResponseEchoes
  <2>2. CASE Invite(req)
    <3>1. CASE InviteIncomplete(req)
      BY <3>1, <2>1 DEF InviteIncomplete, Return
    <3>2. CASE InviteRetransmitted(req)
      <4>1. result'.responses = <<last2xx>> \/ result'.responses = <<>>
        BY <3>2 DEF InviteRetransmitted, Return
      <4>2. Echo(req, last2xx)
        BY <3>2, CachedEchoes DEF InviteRetransmitted
      <4> QED BY <4>1, <4>2
    <3>3. CASE InviteBusy(req)
      BY <3>3, <2>1 DEF InviteBusy, Return
    <3>4. CASE InviteNew(req)
      <4>1. PICK code :
              result'.responses = <<Response(req, 100), Response(req, 180), Response(req, code)>>
        <5>1. Refused(req, 400) \/ Refused(req, 488) \/ Accepted(req)
          BY <3>4, InviteNewEffect
        <5> QED BY <5>1 DEF Refused, Accepted, NewCallResult
      <4>2. /\ Echo(req, Response(req, 100)) /\ Echo(req, Response(req, 180))
            /\ Echo(req, Response(req, code))
        BY ResponseEchoes
      <4> QED BY <4>1, <4>2
    <3> QED BY <2>2, <3>1, <3>2, <3>3, <3>4 DEF Invite
  <2>3. CASE Cancel(req)
    <3>1. ~StillPending(req)
      BY DEF StillPending, OfDialog, Inv, DialogIsAnswered
    <3> QED BY <2>1, <2>3, <3>1 DEF Cancel, Return
  <2>4. CASE Bye(req)
    <3>1. PICK code : result'.responses = <<Response(req, code)>>
      BY <2>4 DEF Bye, Return
    <3> QED BY <2>1, <3>1
  <2>5. CASE Ack(req)
    BY <2>5 DEF Ack, Return
  <2>6. CASE Options(req) \/ Other(req)
    <3>1. PICK code : result'.responses = <<Response(req, code)>>
      BY <2>6 DEF Options, Other, Return
    <3> QED BY <2>1, <3>1
  <2> QED BY <2>2, <2>3, <2>4, <2>5, <2>6 DEF Handle
<1>2. CASE UNCHANGED vars
  BY <1>2 DEF vars, EchoesRequest
<1> QED BY <1>1, <1>2

\* SipUas.cpp:41-43: every response carries the Call-ID and CSeq of the request it
\* answers, also when it is the 200 cached for an earlier copy of the request.
THEOREM ResponsesEcho == Spec => []EchoesRequest
<1>1. Init => EchoesRequest
  BY DEF Init, EchoesRequest
<1> QED BY <1>1, Invariance, EchoStep, PTL DEF Spec

-----------------------------------------------------------------------------
(* Folds, step by step *)

\* A set that has 0 and, with each number up to N, the next has them all.
LEMMA Reached ==
  ASSUME NEW N \in Nat, NEW B, 0 \in B, \A k \in 1 .. N : k - 1 \in B => k \in B
  PROVE  0 .. N \subseteq B
<1> DEFINE S == (0 .. N) \ B
           R == {ss \in Nat \X Nat : ss[1] < ss[2]}
<1> SUFFICES ASSUME S # {} PROVE FALSE
  OBVIOUS
<1>1. IsWellFoundedOn(R, Nat)
  BY NatLessThanWellFounded DEF OpToRel
<1>2. S \subseteq Nat
  OBVIOUS
<1>3. PICK x \in S : \A y \in S : <<y, x>> \notin R
  <2> HIDE DEF R, S
  <2> QED BY <1>1, <1>2, WFMin
<1>4. x \in 1 .. N /\ x - 1 \in 0 .. N /\ x \notin B /\ x \in Nat /\ x - 1 \in Nat
  OBVIOUS
<1>5. ASSUME NEW y \in S PROVE ~(y < x)
  <2>1. x \in Nat /\ y \in Nat /\ <<y, x>> \notin R
    BY <1>3, <1>4
  <2> QED BY <2>1
<1>6. x - 1 \notin S
  <2> HIDE DEF S
  <2> QED BY <1>4, <1>5
<1>7. x - 1 \in B
  BY <1>4, <1>6
<1> QED BY <1>4, <1>7

\* Append, value by value.
LEMMA AppendIs ==
  ASSUME NEW Y, NEW t \in Seq(Y), NEW z \in Y
  PROVE  Append(t, z) = [i \in 1 .. Len(t) + 1 |-> IF i = Len(t) + 1 THEN z ELSE t[i]]
<1> DEFINE u == Append(t, z)
           n == Len(t)
<1>1. /\ u \in Seq(Y) /\ Len(u) = n + 1 /\ u[n + 1] = z /\ n \in Nat
      /\ \A i \in 1 .. n : u[i] = t[i]
  OBVIOUS
<1> HIDE DEF u, n
<1>2. u = [i \in 1 .. n + 1 |-> u[i]]
  BY <1>1
<1>3. \A i \in 1 .. n + 1 : u[i] = IF i = n + 1 THEN z ELSE t[i]
  BY <1>1
<1>4. u = [i \in 1 .. n + 1 |-> IF i = n + 1 THEN z ELSE t[i]]
  BY <1>2, <1>3
<1> QED BY ONLY <1>4, Zenon DEF u, n

\* The greatest member of 1 .. k.
LEMMA MaxOfPrefix ==
  ASSUME NEW n \in Nat, NEW s \in SUBSET (1 .. n + 1), n + 1 \in s
  PROVE  Max(s) = n + 1
<1>1. \A y \in s : y \in Int /\ n + 1 >= y
  OBVIOUS
<1>2. \A x \in s : (\A y \in s : x >= y) => x = n + 1
  BY <1>1
<1> QED BY <1>1, <1>2 DEF Max

\* A fold over a table of steps has a value.
Folds(N, A, base, h, g) ==
  /\ g \in [SUBSET (1 .. N) -> A]
  /\ g[{}] = base
  /\ \A s \in SUBSET (1 .. N) :
       s # {} => Max(s) \in 1 .. N /\ g[s] = h[Max(s)][g[s \ {Max(s)}]]

\* FoldLeft of the community modules is a function over sets of indices, chosen by
\* CHOOSE: there is one.
LEMMA FoldDefined ==
  ASSUME NEW N \in Nat, NEW A, NEW base \in A, NEW h \in [1 .. N -> [A -> A]]
  PROVE  \E g : Folds(N, A, base, h, g)
<1> DEFINE Good(n, g) ==
      /\ g \in [SUBSET (1 .. n) -> A]
      /\ g[{}] = base
      /\ \A s \in SUBSET (1 .. n) :
           s # {} => Max(s) \in 1 .. n /\ g[s] = h[Max(s)][g[s \ {Max(s)}]]
           B == {n \in 0 .. N : \E g : Good(n, g)}
<1>1. 0 \in B
  <2> DEFINE g == [s \in SUBSET (1 .. 0) |-> base]
  <2>0. SUBSET (1 .. 0) = {{}}
    OBVIOUS
  <2> DEFINE E == SUBSET (1 .. 0)
  <2>2. g \in [E -> A] /\ g[{}] = base /\ \A s \in E : s = {}
    BY <2>0
  <2> HIDE DEF g
  <2>1. Good(0, g)
    BY <2>2
  <2> HIDE DEF Good
  <2> QED BY <2>1
<1>2. \A k \in 1 .. N : k - 1 \in B => k \in B
  <2> SUFFICES ASSUME NEW k \in 1 .. N, k - 1 \in B
               PROVE  k \in B
    OBVIOUS
  <2> DEFINE n == k - 1
  <2>1. PICK g : Good(n, g)
    OBVIOUS
  <2> DEFINE f == [s \in SUBSET (1 .. n + 1) |->
                     IF n + 1 \in s THEN h[n + 1][g[s \ {n + 1}]] ELSE g[s]]
  <2>0. n \in Nat /\ n + 1 = k /\ n + 1 \in 1 .. N
    OBVIOUS
  <2>2. \A s \in SUBSET (1 .. n + 1) : s \ {n + 1} \in SUBSET (1 .. n)
    BY <2>0
  <2>3. \A s \in SUBSET (1 .. n + 1) : n + 1 \notin s => s \in SUBSET (1 .. n)
    BY <2>0
  <2>4. f \in [SUBSET (1 .. n + 1) -> A]
    BY <2>0, <2>1, <2>2, <2>3
  <2>5. f[{}] = base
    BY <2>1
  <2>6. ASSUME NEW s \in SUBSET (1 .. n + 1), s # {}
        PROVE  Max(s) \in 1 .. n + 1 /\ f[s] = h[Max(s)][f[s \ {Max(s)}]]
    <3>1. CASE n + 1 \in s
      <4>1. Max(s) = n + 1
        BY <2>0, <3>1, MaxOfPrefix
      <4> DEFINE r == s \ {n + 1}
      <4>2. r \in SUBSET (1 .. n) /\ n + 1 \notin r
        BY <2>2
      <4>3. r \in SUBSET (1 .. n + 1)
        OBVIOUS
      <4>4. f[r] = g[r]
        BY <4>2, <4>3
      <4>5. f[s] = h[n + 1][g[r]]
        BY <3>1
      <4> QED BY <2>0, <4>1, <4>4, <4>5
    <3>2. CASE n + 1 \notin s
      <4>1. s \in SUBSET (1 .. n)
        BY <2>3, <3>2
      <4> DEFINE m == Max(s)
                 r == s \ {m}
      <4>2. m \in 1 .. n /\ g[s] = h[m][g[r]]
        BY <2>1, <2>6, <4>1
      <4> HIDE DEF m
      <4>3. r \in SUBSET (1 .. n + 1) /\ n + 1 \notin r
        BY <3>2
      <4>4. f[r] = g[r] /\ f[s] = g[s]
        BY <3>2, <4>3
      <4>5. m \in 1 .. n + 1
        BY <2>0, <4>2
      <4> QED BY <4>2, <4>4, <4>5 DEF m
    <3> QED BY <3>1, <3>2
  <2> HIDE DEF f
  <2>7. Good(k, f)
    BY <2>0, <2>4, <2>5, <2>6
  <2> HIDE DEF Good
  <2> QED BY <2>7
<1>3. 0 .. N \subseteq B
  <2> HIDE DEF B
  <2> QED BY <1>1, <1>2, Reached
<1>4. \E g : Good(N, g)
  <2>1. N \in 0 .. N
    OBVIOUS
  <2> HIDE DEF Good
  <2> QED BY <1>3, <2>1
<1> QED BY <1>4 DEF Folds


\* The values of a fold, one after each element.
Run(N, A, base, h, a) ==
  /\ a \in [0 .. N -> A]
  /\ a[0] = base
  /\ \A k \in 1 .. N : a[k] = h[k][a[k - 1]]

Walks(N, A, base, h, iter) ==
  \A s \in SUBSET (1 .. N) :
    s # {} /\ iter[s \ {Max(s)}] \in A => iter[s] = h[Max(s)][iter[s \ {Max(s)}]]

RunsTo(N, A, base, h, iter, a) == Run(N, A, base, h, a) /\ a[N] = iter[1 .. N]

\* Such a function, read along 0, 1, ..., N, is a run: one step for each element.
LEMMA FoldRun ==
  ASSUME NEW N \in Nat, NEW A, NEW base \in A, NEW h \in [1 .. N -> [A -> A]],
         NEW iter, iter[{}] = base, Walks(N, A, base, h, iter)
  PROVE  \E a : RunsTo(N, A, base, h, iter, a)
<1> DEFINE a == [k \in 0 .. N |-> iter[1 .. k]]
           B == {k \in 0 .. N : a[k] \in A}
<1>1. a[0] = base
  <2>1. 1 .. 0 = {}
    OBVIOUS
  <2> QED BY <2>1
<1>2. ASSUME NEW k \in 1 .. N, a[k - 1] \in A
      PROVE  a[k] = h[k][a[k - 1]]
  <2> DEFINE n == k - 1
             s == 1 .. k
  <2>1. n \in Nat /\ n + 1 = k /\ s \in SUBSET (1 .. n + 1) /\ n + 1 \in s
    OBVIOUS
  <2>2. Max(s) = k
    <3> HIDE DEF s, n
    <3> QED BY <2>1, MaxOfPrefix
  <2>3. s \ {k} = 1 .. k - 1 /\ s # {} /\ s \in SUBSET (1 .. N)
    <3>1. s \ {k} = 1 .. k - 1
      OBVIOUS
    <3>2. k \in s
      OBVIOUS
    <3>3. s \in SUBSET (1 .. N)
      OBVIOUS
    <3> QED BY <3>1, <3>2, <3>3
  <2>5. k \in 0 .. N /\ k - 1 \in 0 .. N
    OBVIOUS
  <2>6. a[k] = iter[s] /\ a[k - 1] = iter[1 .. k - 1]
    BY <2>5
  <2>4. iter[s] = h[k][iter[1 .. k - 1]]
    <3> HIDE DEF s, a
    <3> QED BY <1>2, <2>2, <2>3, <2>6 DEF Walks
  <2> QED BY <2>4, <2>6
<1>3. 0 .. N \subseteq B
  <2>1. 0 \in B
    BY <1>1
  <2>2. ASSUME NEW k \in 1 .. N, k - 1 \in B PROVE k \in B
    <3>1. a[k - 1] \in A /\ k \in 0 .. N
      BY <2>2
    <3>2. a[k] = h[k][a[k - 1]]
      <4> HIDE DEF a
      <4> QED BY <1>2, <3>1
    <3>3. a[k] \in A
      <4> HIDE DEF a
      <4> QED BY <3>1, <3>2
    <3> QED BY <3>1, <3>3
  <2> HIDE DEF B
  <2> QED BY <2>1, <2>2, Reached
<1>4. a \in [0 .. N -> A]
  <2>1. \A k \in 0 .. N : a[k] \in A
    BY <1>3
  <2> QED BY <2>1
<1>5. \A k \in 1 .. N : a[k] = h[k][a[k - 1]]
  <2> TAKE k \in 1 .. N
  <2>1. k - 1 \in 0 .. N
    OBVIOUS
  <2> HIDE DEF a
  <2> QED BY <1>2, <1>4, <2>1
<1>6. a[N] = iter[1 .. N]
  OBVIOUS
<1>7. Run(N, A, base, h, a)
  <2> HIDE DEF a
  <2> QED BY <1>1, <1>4, <1>5 DEF Run
<1>8. RunsTo(N, A, base, h, iter, a)
  BY <1>6, <1>7 DEF RunsTo
<1> HIDE DEF a
<1> QED BY <1>8

\* Any steps on a set have a run.
LEMMA RunDefined ==
  ASSUME NEW N \in Nat, NEW A, NEW base \in A, NEW h \in [1 .. N -> [A -> A]]
  PROVE  \E a : Run(N, A, base, h, a)
<1>1. PICK g : Folds(N, A, base, h, g)
  BY FoldDefined
<1>2. g[{}] = base /\ Walks(N, A, base, h, g)
  BY <1>1 DEF Folds, Walks
<1>3. PICK a : RunsTo(N, A, base, h, g, a)
  BY <1>2, FoldRun
<1> QED BY <1>3 DEF RunsTo

\* Two runs of the same steps end in the same value.
Lockstep(N, a, b) ==
  a[0] = b[0] /\ \A k \in 1 .. N : a[k - 1] = b[k - 1] => a[k] = b[k]

\* Two runs of the same steps agree at their end.
LEMMA RunsAgree ==
  ASSUME NEW N \in Nat, NEW a, NEW b, Lockstep(N, a, b)
  PROVE  a[N] = b[N]
<1> DEFINE B == {k \in 0 .. N : a[k] = b[k]}
<1>1. 0 \in B
  BY DEF Lockstep
<1>2. \A k \in 1 .. N : k - 1 \in B => k \in B
  BY DEF Lockstep
<1>3. 0 .. N \subseteq B
  <2> HIDE DEF B
  <2> QED BY <1>1, <1>2, Reached
<1>4. N \in 0 .. N
  OBVIOUS
<1> QED BY <1>3, <1>4

HeaderSteps(A, seq, N) ==
  \A i \in 1 .. N, x \in A : ParseHeaderLine(x, seq[i]) \in A

HeaderRun(A, base, seq, N, a) ==
  /\ a \in [0 .. N -> A]
  /\ a[0] = base /\ a[N] = FoldLeft(ParseHeaderLine, base, seq)
  /\ \A k \in 1 .. N : a[k] = ParseHeaderLine(a[k - 1], seq[k])

\* The fold of ParseHeaderLine is a run.  A lemma cannot take an operator as a
\* parameter, so each of the three folds of the model has one of its own.
LEMMA HeaderFold ==
  ASSUME NEW A, NEW base \in A, NEW seq, NEW N \in Nat, DOMAIN seq = 1 .. N,
         HeaderSteps(A, seq, N)
  PROVE  \E a : HeaderRun(A, base, seq, N, a)
<1> DEFINE h == [i \in 1 .. N |-> [x \in A |-> ParseHeaderLine(x, seq[i])]]
           D == 1 .. N
           P(g) == g = [s \in SUBSET D |->
                          IF s = {} THEN base
                          ELSE ParseHeaderLine(g[s \ {Max(s)}], seq[Max(s)])]
<1>1. h \in [1 .. N -> [A -> A]]
  BY DEF HeaderSteps
<1>0. \A i \in 1 .. N, x \in A : h[i][x] = ParseHeaderLine(x, seq[i])
  OBVIOUS
<1>2. PICK g : Folds(N, A, base, h, g)
  <2> HIDE DEF h
  <2> QED BY <1>1, FoldDefined
<1>3. P(g)
  <2>1. \A s \in SUBSET D : g[s] = IF s = {} THEN base
                                   ELSE ParseHeaderLine(g[s \ {Max(s)}], seq[Max(s)])
    <3> TAKE s \in SUBSET D
    <3>1. CASE s = {}
      BY <1>2, <3>1 DEF Folds
    <3>2. CASE s # {}
      <4> DEFINE m == Max(s)
                 r == s \ {m}
      <4>1. m \in 1 .. N /\ g[s] = h[m][g[r]] /\ r \in SUBSET D /\ g[r] \in A
        BY <1>2, <3>2 DEF Folds
      <4> HIDE DEF m, r
      <4>2. h[m][g[r]] = ParseHeaderLine(g[r], seq[m])
        BY <4>1
      <4> QED BY <3>2, <4>1, <4>2 DEF m, r
    <3> QED BY <3>1, <3>2
  <2>2. g = [s \in SUBSET D |-> g[s]]
    BY <1>2 DEF Folds
  <2> HIDE DEF D
  <2> QED BY <2>1, <2>2
<1> DEFINE iter == CHOOSE f : P(f)
           end == FoldLeft(ParseHeaderLine, base, seq)
<1>4. end = iter[D]
  BY Zenon DEF FoldLeft, MapThenFoldSet
<1>5. P(iter)
  <2> HIDE DEF P
  <2> QED BY <1>3
<1> HIDE DEF iter, end
<1>6. iter[{}] = base
  BY <1>5
<1>7. ASSUME NEW s \in SUBSET (1 .. N), s # {}, iter[s \ {Max(s)}] \in A
      PROVE  iter[s] = h[Max(s)][iter[s \ {Max(s)}]]
  <2>1. Max(s) \in 1 .. N
    BY <1>2, <1>7 DEF Folds
  <2>2. iter[s] = ParseHeaderLine(iter[s \ {Max(s)}], seq[Max(s)])
    BY <1>5, <1>7
  <2> QED BY <1>0, <1>7, <2>1, <2>2
<1>8. PICK a : RunsTo(N, A, base, h, iter, a)
  <2>1. Walks(N, A, base, h, iter)
    BY <1>7 DEF Walks
  <2> HIDE DEF h
  <2> QED BY <1>1, <1>6, <2>1, FoldRun
<1>9. \A k \in 1 .. N : a[k] = ParseHeaderLine(a[k - 1], seq[k])
  <2> TAKE k \in 1 .. N
  <2>1. k - 1 \in 0 .. N
    OBVIOUS
  <2>2. a[k] = h[k][a[k - 1]] /\ a[k - 1] \in A
    BY <1>8, <2>1 DEF Run, RunsTo
  <2> QED BY <1>0, <2>2
<1>10. /\ a \in [0 .. N -> A] /\ a[0] = base /\ a[N] = end
       /\ \A k \in 1 .. N : a[k] = ParseHeaderLine(a[k - 1], seq[k])
  BY <1>4, <1>8, <1>9 DEF Run, RunsTo
<1> QED BY ONLY <1>10, Zenon DEF end, HeaderRun

ViaSteps(A, seq, N) ==
  \A i \in 1 .. N, x \in A : Add(x, "Via", seq[i].value) \in A

ViaRun(A, base, seq, N, a) ==
  /\ a \in [0 .. N -> A]
  /\ a[0] = base /\ a[N] = FoldLeft(LAMBDA r, h : Add(r, "Via", h.value), base, seq)
  /\ \A k \in 1 .. N : a[k] = Add(a[k - 1], "Via", seq[k].value)

\* The fold in makeResponse that copies the Vias is a run.
LEMMA ViaFold ==
  ASSUME NEW A, NEW base \in A, NEW seq, NEW N \in Nat, DOMAIN seq = 1 .. N,
         ViaSteps(A, seq, N)
  PROVE  \E a : ViaRun(A, base, seq, N, a)
<1> DEFINE h == [i \in 1 .. N |-> [x \in A |-> Add(x, "Via", seq[i].value)]]
           D == 1 .. N
           P(g) == g = [s \in SUBSET D |->
                          IF s = {} THEN base
                          ELSE Add(g[s \ {Max(s)}], "Via", seq[Max(s)].value)]
<1>1. h \in [1 .. N -> [A -> A]]
  BY DEF ViaSteps
<1>0. \A i \in 1 .. N, x \in A : h[i][x] = Add(x, "Via", seq[i].value)
  OBVIOUS
<1>2. PICK g : Folds(N, A, base, h, g)
  <2> HIDE DEF h
  <2> QED BY <1>1, FoldDefined
<1>3. P(g)
  <2>1. \A s \in SUBSET D : g[s] = IF s = {} THEN base
                                   ELSE Add(g[s \ {Max(s)}], "Via", seq[Max(s)].value)
    <3> TAKE s \in SUBSET D
    <3>1. CASE s = {}
      BY <1>2, <3>1 DEF Folds
    <3>2. CASE s # {}
      <4> DEFINE m == Max(s)
                 r == s \ {m}
      <4>1. m \in 1 .. N /\ g[s] = h[m][g[r]] /\ r \in SUBSET D /\ g[r] \in A
        BY <1>2, <3>2 DEF Folds
      <4> HIDE DEF m, r
      <4>2. h[m][g[r]] = Add(g[r], "Via", seq[m].value)
        BY <4>1
      <4> QED BY <3>2, <4>1, <4>2 DEF m, r
    <3> QED BY <3>1, <3>2
  <2>2. g = [s \in SUBSET D |-> g[s]]
    BY <1>2 DEF Folds
  <2> HIDE DEF D
  <2> QED BY <2>1, <2>2
<1> DEFINE iter == CHOOSE f : P(f)
           end == FoldLeft(LAMBDA r, via : Add(r, "Via", via.value), base, seq)
<1>4. end = iter[D]
  BY Zenon DEF FoldLeft, MapThenFoldSet
<1>5. P(iter)
  <2> HIDE DEF P
  <2> QED BY <1>3
<1> HIDE DEF iter, end
<1>6. iter[{}] = base
  BY <1>5
<1>7. ASSUME NEW s \in SUBSET (1 .. N), s # {}, iter[s \ {Max(s)}] \in A
      PROVE  iter[s] = h[Max(s)][iter[s \ {Max(s)}]]
  <2>1. Max(s) \in 1 .. N
    BY <1>2, <1>7 DEF Folds
  <2>2. iter[s] = Add(iter[s \ {Max(s)}], "Via", seq[Max(s)].value)
    BY <1>5, <1>7
  <2> QED BY <1>0, <1>7, <2>1, <2>2
<1>8. PICK a : RunsTo(N, A, base, h, iter, a)
  <2>1. Walks(N, A, base, h, iter)
    BY <1>7 DEF Walks
  <2> HIDE DEF h
  <2> QED BY <1>1, <1>6, <2>1, FoldRun
<1>9. \A k \in 1 .. N : a[k] = Add(a[k - 1], "Via", seq[k].value)
  <2> TAKE k \in 1 .. N
  <2>1. k - 1 \in 0 .. N
    OBVIOUS
  <2>2. a[k] = h[k][a[k - 1]] /\ a[k - 1] \in A
    BY <1>8, <2>1 DEF Run, RunsTo
  <2> QED BY <1>0, <2>2
<1>10. /\ a \in [0 .. N -> A] /\ a[0] = base /\ a[N] = end
       /\ \A k \in 1 .. N : a[k] = Add(a[k - 1], "Via", seq[k].value)
  BY <1>4, <1>8, <1>9 DEF Run, RunsTo
<1> QED BY ONLY <1>10, Zenon DEF end, ViaRun

LineSteps(A, seq, N) ==
  \A i \in 1 .. N, x \in A : ParseLine(x, seq[i]) \in A

LineRun(A, base, seq, N, a) ==
  /\ a \in [0 .. N -> A]
  /\ a[0] = base /\ a[N] = FoldLeft(ParseLine, base, seq)
  /\ \A k \in 1 .. N : a[k] = ParseLine(a[k - 1], seq[k])

\* The fold of ParseLine over a body is a run.
LEMMA LineFold ==
  ASSUME NEW A, NEW base \in A, NEW seq, NEW N \in Nat, DOMAIN seq = 1 .. N,
         LineSteps(A, seq, N)
  PROVE  \E a : LineRun(A, base, seq, N, a)
<1> DEFINE h == [i \in 1 .. N |-> [x \in A |-> ParseLine(x, seq[i])]]
           D == 1 .. N
           P(g) == g = [s \in SUBSET D |->
                          IF s = {} THEN base
                          ELSE ParseLine(g[s \ {Max(s)}], seq[Max(s)])]
<1>1. h \in [1 .. N -> [A -> A]]
  BY DEF LineSteps
<1>0. \A i \in 1 .. N, x \in A : h[i][x] = ParseLine(x, seq[i])
  OBVIOUS
<1>2. PICK g : Folds(N, A, base, h, g)
  <2> HIDE DEF h
  <2> QED BY <1>1, FoldDefined
<1>3. P(g)
  <2>1. \A s \in SUBSET D : g[s] = IF s = {} THEN base
                                   ELSE ParseLine(g[s \ {Max(s)}], seq[Max(s)])
    <3> TAKE s \in SUBSET D
    <3>1. CASE s = {}
      BY <1>2, <3>1 DEF Folds
    <3>2. CASE s # {}
      <4> DEFINE m == Max(s)
                 r == s \ {m}
      <4>1. m \in 1 .. N /\ g[s] = h[m][g[r]] /\ r \in SUBSET D /\ g[r] \in A
        BY <1>2, <3>2 DEF Folds
      <4> HIDE DEF m, r
      <4>2. h[m][g[r]] = ParseLine(g[r], seq[m])
        BY <4>1
      <4> QED BY <3>2, <4>1, <4>2 DEF m, r
    <3> QED BY <3>1, <3>2
  <2>2. g = [s \in SUBSET D |-> g[s]]
    BY <1>2 DEF Folds
  <2> HIDE DEF D
  <2> QED BY <2>1, <2>2
<1> DEFINE iter == CHOOSE f : P(f)
           end == FoldLeft(ParseLine, base, seq)
<1>4. end = iter[D]
  BY Zenon DEF FoldLeft, MapThenFoldSet
<1>5. P(iter)
  <2> HIDE DEF P
  <2> QED BY <1>3
<1> HIDE DEF iter, end
<1>6. iter[{}] = base
  BY <1>5
<1>7. ASSUME NEW s \in SUBSET (1 .. N), s # {}, iter[s \ {Max(s)}] \in A
      PROVE  iter[s] = h[Max(s)][iter[s \ {Max(s)}]]
  <2>1. Max(s) \in 1 .. N
    BY <1>2, <1>7 DEF Folds
  <2>2. iter[s] = ParseLine(iter[s \ {Max(s)}], seq[Max(s)])
    BY <1>5, <1>7
  <2> QED BY <1>0, <1>7, <2>1, <2>2
<1>8. PICK a : RunsTo(N, A, base, h, iter, a)
  <2>1. Walks(N, A, base, h, iter)
    BY <1>7 DEF Walks
  <2> HIDE DEF h
  <2> QED BY <1>1, <1>6, <2>1, FoldRun
<1>9. \A k \in 1 .. N : a[k] = ParseLine(a[k - 1], seq[k])
  <2> TAKE k \in 1 .. N
  <2>1. k - 1 \in 0 .. N
    OBVIOUS
  <2>2. a[k] = h[k][a[k - 1]] /\ a[k - 1] \in A
    BY <1>8, <2>1 DEF Run, RunsTo
  <2> QED BY <1>0, <2>2
<1>10. /\ a \in [0 .. N -> A] /\ a[0] = base /\ a[N] = end
       /\ \A k \in 1 .. N : a[k] = ParseLine(a[k - 1], seq[k])
  BY <1>4, <1>8, <1>9 DEF Run, RunsTo
<1> QED BY ONLY <1>10, Zenon DEF end, LineRun

-----------------------------------------------------------------------------
(* The filter *)

KeepStep(kept, h, name, same) ==
  IF IEquals(h.name, name) = same THEN Append(kept, h) ELSE kept

KeepRun(headers, name, same, a) ==
  /\ a[0] = <<>> /\ a[Len(headers)] = Keep(headers, name, same)
  /\ \A k \in 1 .. Len(headers) : a[k] = KeepStep(a[k - 1], headers[k], name, same)

\* The filter is a run of its steps.
LEMMA Keeping ==
  ASSUME NEW H, NEW headers \in Seq(H), NEW name, NEW same
  PROVE  \E a \in [0 .. Len(headers) -> Seq(H)] : KeepRun(headers, name, same, a)
<1> DEFINE N == Len(headers)
           h == [i \in 1 .. N |-> [x \in Seq(H) |-> KeepStep(x, headers[i], name, same)]]
           P(g) == g = [n \in 0 .. N |->
                          IF n = 0 THEN <<>>
                          ELSE IF IEquals(headers[n].name, name) = same
                                 THEN Append(g[n - 1], headers[n]) ELSE g[n - 1]]
<1>0. N \in Nat /\ \A i \in 1 .. N : headers[i] \in H
  OBVIOUS
<1>1. h \in [1 .. N -> [Seq(H) -> Seq(H)]] /\ <<>> \in Seq(H)
  <2>1. \A i \in 1 .. N, x \in Seq(H) : KeepStep(x, headers[i], name, same) \in Seq(H)
    BY <1>0 DEF KeepStep
  <2> DEFINE S == Seq(H)
  <2>2. <<>> \in S
    OBVIOUS
  <2> HIDE DEF N, S
  <2>3. h \in [1 .. N -> [S -> S]]
    BY <2>1 DEF S
  <2> QED BY <2>2, <2>3 DEF S
<1>2. \A i \in 1 .. N, x \in Seq(H) : h[i][x] = KeepStep(x, headers[i], name, same)
  OBVIOUS
<1>3. PICK a : Run(N, Seq(H), <<>>, h, a)
  <2> HIDE DEF N, h
  <2> QED BY <1>0, <1>1, RunDefined
<1>4. P(a)
  <2>1. \A n \in 0 .. N : a[n] = IF n = 0 THEN <<>>
                                 ELSE IF IEquals(headers[n].name, name) = same
                                        THEN Append(a[n - 1], headers[n]) ELSE a[n - 1]
    <3> TAKE n \in 0 .. N
    <3>1. CASE n = 0
      BY <1>3, <3>1 DEF Run
    <3>2. CASE n # 0
      <4>1. n \in 1 .. N /\ n - 1 \in 0 .. N
        BY <3>2
      <4>2. a[n] = h[n][a[n - 1]] /\ a[n - 1] \in Seq(H)
        <5> HIDE DEF h
        <5> QED BY <1>3, <4>1 DEF Run
      <4>3. a[n] = KeepStep(a[n - 1], headers[n], name, same)
        BY <1>2, <4>1, <4>2
      <4> QED BY <3>2, <4>3 DEF KeepStep
    <3> QED BY <3>1, <3>2
  <2>2. a = [n \in 0 .. N |-> a[n]]
    BY <1>3 DEF Run
  <2> HIDE DEF N
  <2> QED BY <2>1, <2>2
<1> DEFINE kept == CHOOSE g : P(g)
<1>5. Keep(headers, name, same) = kept[N]
  BY Zenon DEF Keep
<1>6. P(kept)
  <2> HIDE DEF P
  <2> QED BY <1>4
<1> HIDE DEF kept
<1>7. ASSUME NEW g, P(g)
      PROVE  /\ g[0] = <<>>
             /\ \A n \in 1 .. N : g[n] = KeepStep(g[n - 1], headers[n], name, same)
  <2> HIDE DEF N
  <2>1. g[0] = <<>>
    BY <1>0, <1>7
  <2>2. ASSUME NEW n \in 1 .. N PROVE g[n] = KeepStep(g[n - 1], headers[n], name, same)
    <3>1. n \in 0 .. N /\ n # 0
      BY <1>0
    <3> QED BY <1>7, <3>1 DEF KeepStep
  <2> QED BY <2>1, <2>2
<1>8. a[0] = <<>> /\ \A n \in 1 .. N : a[n] = KeepStep(a[n - 1], headers[n], name, same)
  <2> HIDE DEF P
  <2> QED BY <1>4, <1>7
<1>12. kept[0] = <<>> /\ \A n \in 1 .. N : kept[n] = KeepStep(kept[n - 1], headers[n], name, same)
  <2> HIDE DEF P
  <2> QED BY <1>6, <1>7
<1>9. a[N] = kept[N]
  <2> HIDE DEF P, N
  <2>1. Lockstep(N, a, kept)
    BY <1>8, <1>12 DEF Lockstep
  <2> QED BY <1>0, <2>1, RunsAgree
<1>10. a \in [0 .. N -> Seq(H)]
  <2> HIDE DEF h, P
  <2> QED BY <1>3 DEF Run
<1>11. KeepRun(headers, name, same, a)
  BY <1>5, <1>8, <1>9 DEF KeepRun
<1> QED BY <1>10, <1>11

\* A property of a run that each step keeps holds at its end.
LEMMA KeepType ==
  ASSUME NEW H, NEW s \in Seq(H), NEW name, NEW same
  PROVE  Keep(s, name, same) \in Seq(H)
<1>1. PICK a \in [0 .. Len(s) -> Seq(H)] : KeepRun(s, name, same, a)
  BY Keeping
<1>2. Len(s) \in 0 .. Len(s)
  OBVIOUS
<1> QED BY <1>1, <1>2 DEF KeepRun

\* Of no headers none are kept.
LEMMA KeepEmpty ==
  ASSUME NEW name, NEW same
  PROVE  Keep(<<>>, name, same) = <<>>
<1>0. <<>> \in Seq({}) /\ Len(<<>>) = 0
  OBVIOUS
<1>1. PICK a : KeepRun(<<>>, name, same, a)
  BY <1>0, Keeping, Zenon
<1> QED BY <1>0, <1>1 DEF KeepRun

\* What is kept comes from the headers, and it is of the name, or not of it.
KeptFrom(s, name, same, kept) ==
  \A j \in 1 .. Len(kept) :
    \E i \in 1 .. Len(s) : kept[j] = s[i] /\ IEquals(s[i].name, name) = same

\* What is kept comes from the headers filtered.
LEMMA KeptFromStep ==
  ASSUME NEW H, NEW s \in Seq(H), NEW name, NEW same, NEW kept \in Seq(H),
         NEW k \in 1 .. Len(s), KeptFrom(s, name, same, kept)
  PROVE  KeptFrom(s, name, same, KeepStep(kept, s[k], name, same))
<1>1. CASE IEquals(s[k].name, name) = same
  <2> DEFINE more == Append(kept, s[k])
  <2>1. s[k] \in H
    OBVIOUS
  <2>2. Len(more) = Len(kept) + 1 /\ more[Len(kept) + 1] = s[k]
        /\ \A j \in 1 .. Len(kept) : more[j] = kept[j]
    BY <2>1
  <2> HIDE DEF more
  <2>3. ASSUME NEW j \in 1 .. Len(more)
        PROVE  \E i \in 1 .. Len(s) : more[j] = s[i] /\ IEquals(s[i].name, name) = same
    <3>1. CASE j = Len(kept) + 1
      BY <1>1, <2>2, <3>1
    <3>2. CASE j # Len(kept) + 1
      <4>1. j \in 1 .. Len(kept)
        BY <2>2, <3>2
      <4> QED BY <2>2, <4>1 DEF KeptFrom
    <3> QED BY <3>1, <3>2
  <2>4. KeepStep(kept, s[k], name, same) = more
    BY <1>1 DEF KeepStep, more
  <2> QED BY <2>3, <2>4 DEF KeptFrom
<1>2. CASE IEquals(s[k].name, name) # same
  BY <1>2 DEF KeepStep
<1> QED BY <1>1, <1>2

\* Every header kept is one of those filtered, of the name asked for.
LEMMA KeepSome ==
  ASSUME NEW H, NEW s \in Seq(H), NEW name, NEW same
  PROVE  KeptFrom(s, name, same, Keep(s, name, same))
<1> DEFINE N == Len(s)
<1>1. PICK a \in [0 .. N -> Seq(H)] : KeepRun(s, name, same, a)
  BY Keeping
<1> DEFINE B == {k \in 0 .. N : KeptFrom(s, name, same, a[k])}
<1>2. 0 \in B
  BY <1>1 DEF KeepRun, KeptFrom
<1>3. ASSUME NEW k \in 1 .. N, k - 1 \in B PROVE k \in B
  <2>1. /\ a[k] = KeepStep(a[k - 1], s[k], name, same) /\ a[k - 1] \in Seq(H)
        /\ KeptFrom(s, name, same, a[k - 1])
    BY <1>1, <1>3 DEF KeepRun
  <2>2. KeptFrom(s, name, same, a[k])
    BY <2>1, KeptFromStep
  <2> QED BY <2>2
<1>4. 0 .. N \subseteq B
  <2>1. N \in Nat
    OBVIOUS
  <2> HIDE DEF B, N
  <2> QED BY <2>1, <1>2, <1>3, Reached
<1>5. N \in B
  <2>1. N \in 0 .. N
    OBVIOUS
  <2> HIDE DEF B
  <2> QED BY <1>4, <2>1
<1> QED BY <1>1, <1>5 DEF KeepRun

\* Where no header is of the kind asked for, none are kept,
LEMMA KeepNone ==
  ASSUME NEW H, NEW s \in Seq(H), NEW name, NEW same,
         \A i \in 1 .. Len(s) : IEquals(s[i].name, name) # same
  PROVE  Keep(s, name, same) = <<>>
<1> DEFINE kept == Keep(s, name, same)
<1>1. kept \in Seq(H) /\ KeptFrom(s, name, same, kept)
  BY KeepType, KeepSome
<1> HIDE DEF kept
<1>2. ~(1 \in 1 .. Len(kept))
  BY <1>1 DEF KeptFrom
<1>3. Len(kept) = 0
  BY <1>1, <1>2
<1> QED BY <1>1, <1>3 DEF kept

\* and where all are, all are.
LEMMA KeepAll ==
  ASSUME NEW H, NEW s \in Seq(H), NEW name, NEW same,
         \A i \in 1 .. Len(s) : IEquals(s[i].name, name) = same
  PROVE  Keep(s, name, same) = s
<1> DEFINE N == Len(s)
           b == [k \in 0 .. N |-> [i \in 1 .. k |-> s[i]]]
<1>0. N \in Nat
  OBVIOUS
<1>1. PICK a \in [0 .. N -> Seq(H)] : KeepRun(s, name, same, a)
  BY Keeping
<1>2. a[0] = b[0]
  BY <1>1 DEF KeepRun
<1>3. ASSUME NEW k \in 1 .. N, a[k - 1] = b[k - 1] PROVE a[k] = b[k]
  <2> DEFINE n == k - 1
             t == [i \in 1 .. n |-> s[i]]
  <2>1. a[k] = Append(a[n], s[k])
    BY <1>1 DEF KeepRun, KeepStep
  <2>2. n \in Nat /\ n + 1 = k /\ n \in 0 .. N /\ k \in 0 .. N
    OBVIOUS
  <2>3. a[n] = t /\ b[k] = [i \in 1 .. k |-> s[i]]
    BY <1>3, <2>2
  <2>4. t \in Seq(H) /\ Len(t) = n /\ s[k] \in H
    BY <2>2
  <2>5. Append(t, s[k]) = [i \in 1 .. k |-> s[i]]
    <3>1. /\ Append(t, s[k]) = [i \in 1 .. n + 1 |-> IF i = n + 1 THEN s[k] ELSE t[i]]
      <4> HIDE DEF t
      <4> QED BY <2>4
    <3>2. \A i \in 1 .. n + 1 : (IF i = n + 1 THEN s[k] ELSE t[i]) = s[i]
      BY <2>2
    <3> HIDE DEF t, n
    <3> QED BY <2>2, <3>1, <3>2
  <2> HIDE DEF t, b
  <2> QED BY <2>1, <2>3, <2>5
<1>4. a[N] = b[N]
  <2>1. \A k \in 1 .. N : a[k - 1] = b[k - 1] => a[k] = b[k]
    BY <1>3
  <2> HIDE DEF N, b
  <2>2. Lockstep(N, a, b)
    BY <1>2, <2>1 DEF Lockstep
  <2> QED BY <1>0, <2>2, RunsAgree
<1>5. b[N] = s
  BY <1>0
<1> QED BY <1>1, <1>4, <1>5 DEF KeepRun

\* Filtering with one more header behind.
LEMMA KeepAppend ==
  ASSUME NEW H, NEW s \in Seq(H), NEW x \in H, NEW name, NEW same
  PROVE  Keep(Append(s, x), name, same) = KeepStep(Keep(s, name, same), x, name, same)
<1> DEFINE N == Len(s)
           t == Append(s, x)
<1>0. /\ N \in Nat /\ t \in Seq(H) /\ Len(t) = N + 1 /\ t[N + 1] = x
      /\ \A i \in 1 .. N : t[i] = s[i]
  OBVIOUS
<1> HIDE DEF t
<1>1. PICK a \in [0 .. N -> Seq(H)] : KeepRun(s, name, same, a)
  BY Keeping
<1>2. PICK b \in [0 .. Len(t) -> Seq(H)] : KeepRun(t, name, same, b)
  BY <1>0, Keeping
<1>3. a[0] = b[0]
  BY <1>1, <1>2 DEF KeepRun
<1>4. \A k \in 1 .. N : a[k - 1] = b[k - 1] => a[k] = b[k]
  BY <1>0, <1>1, <1>2 DEF KeepRun
<1>5. a[N] = b[N]
  <2>1. Lockstep(N, a, b)
    BY <1>3, <1>4 DEF Lockstep
  <2> HIDE DEF N
  <2> QED BY <1>0, <2>1, RunsAgree
<1>6. b[N + 1] = KeepStep(b[N], x, name, same)
  <2>1. N + 1 \in 1 .. Len(t) /\ (N + 1) - 1 = N
    BY <1>0
  <2> QED BY <1>0, <1>2, <2>1 DEF KeepRun
<1> QED BY <1>0, <1>1, <1>2, <1>5, <1>6 DEF KeepRun, t

\* Filtering by one name after another has been filtered out.
LEMMA KeepWithout ==
  ASSUME NEW H, NEW s \in Seq(H), NEW gone, NEW name
  PROVE  Keep(Keep(s, gone, FALSE), name, TRUE) =
           IF IEquals(gone, name) THEN <<>> ELSE Keep(s, name, TRUE)
<1> DEFINE N == Len(s)
           c == [k \in 0 .. N |-> Keep(s, name, TRUE)]
<1>0. N \in Nat
  OBVIOUS
<1>1. PICK a \in [0 .. N -> Seq(H)] : KeepRun(s, gone, FALSE, a)
  BY Keeping
<1>2. PICK b \in [0 .. N -> Seq(H)] : KeepRun(s, name, TRUE, b)
  BY Keeping
<1> DEFINE f == [k \in 0 .. N |-> Keep(a[k], name, TRUE)]
           g == [k \in 0 .. N |-> IF IEquals(gone, name) THEN <<>> ELSE b[k]]
<1>3. f[0] = g[0]
  BY <1>0, <1>1, <1>2, KeepEmpty DEF KeepRun
<1>4. ASSUME NEW k \in 1 .. N, f[k - 1] = g[k - 1] PROVE f[k] = g[k]
  <2>0. k - 1 \in 0 .. N /\ k \in 0 .. N /\ s[k] \in H
    OBVIOUS
  <2>1. /\ a[k - 1] \in Seq(H)
        /\ a[k] = KeepStep(a[k - 1], s[k], gone, FALSE)
        /\ b[k] = KeepStep(b[k - 1], s[k], name, TRUE)
    BY <1>1, <1>2, <2>0 DEF KeepRun
  <2>2. Keep(a[k - 1], name, TRUE) = IF IEquals(gone, name) THEN <<>> ELSE b[k - 1]
    BY <1>4, <2>0
  <2>3. Keep(Append(a[k - 1], s[k]), name, TRUE) =
          KeepStep(Keep(a[k - 1], name, TRUE), s[k], name, TRUE)
    <3> DEFINE u == a[k - 1]
               x == s[k]
    <3>1. u \in Seq(H) /\ x \in H
      BY <2>0, <2>1
    <3> HIDE DEF u, x
    <3>2. Keep(Append(u, x), name, TRUE) = KeepStep(Keep(u, name, TRUE), x, name, TRUE)
      BY <3>1, KeepAppend
    <3> QED BY ONLY <3>2 DEF u, x
  <2>4. Keep(a[k], name, TRUE) = IF IEquals(gone, name) THEN <<>> ELSE b[k]
    BY <2>1, <2>2, <2>3 DEF KeepStep, IEquals
  <2> QED BY <2>0, <2>4
<1>5. f[N] = g[N]
  <2> HIDE DEF f, g, N
  <2>1. Lockstep(N, f, g)
    BY <1>3, <1>4 DEF Lockstep
  <2> QED BY <1>0, <2>1, RunsAgree
<1>6. f[N] = Keep(a[N], name, TRUE) /\ g[N] = IF IEquals(gone, name) THEN <<>> ELSE b[N]
  BY <1>0
<1> HIDE DEF f, g
<1> QED BY <1>1, <1>2, <1>5, <1>6 DEF KeepRun

Mapped(s, T) == [i \in 1 .. Len(s) |-> T[s[i]]]

\* Mapping with one more header behind.
LEMMA MappedAppend ==
  ASSUME NEW H, NEW T \in [H -> H], NEW s \in Seq(H), NEW x \in H
  PROVE  Mapped(Append(s, x), T) = Append(Mapped(s, T), T[x])
<1> DEFINE n == Len(s)
           t == Append(s, x)
<1>1. n \in Nat /\ Len(t) = n + 1 /\ t[n + 1] = x /\ \A i \in 1 .. n : t[i] = s[i]
  OBVIOUS
<1>2. \A i \in 1 .. n : s[i] \in H
  OBVIOUS
<1> DEFINE u == [i \in 1 .. n |-> T[s[i]]]
<1>3. u \in Seq(H) /\ Len(u) = n /\ T[x] \in H
  BY <1>1, <1>2
<1>4. Append(u, T[x]) = [i \in 1 .. n + 1 |-> IF i = n + 1 THEN T[x] ELSE u[i]]
  <2> HIDE DEF u
  <2> QED BY <1>3
<1>5. \A i \in 1 .. n + 1 : (IF i = n + 1 THEN T[x] ELSE u[i]) = T[t[i]]
  <2> HIDE DEF t
  <2> QED BY <1>1
<1>6. Mapped(t, T) = [i \in 1 .. n + 1 |-> T[t[i]]]
  BY <1>1 DEF Mapped
<1>7. Mapped(s, T) = u
  BY DEF Mapped
<1> HIDE DEF t, u, n
<1> QED BY <1>4, <1>5, <1>6, <1>7 DEF t

\* Filtering by name commutes with a map that keeps the names.
LEMMA KeepMapped ==
  ASSUME NEW H, NEW T \in [H -> H], \A h \in H : T[h].name = h.name,
         NEW s \in Seq(H), NEW name, NEW same
  PROVE  Keep(Mapped(s, T), name, same) = Mapped(Keep(s, name, same), T)
<1> DEFINE N == Len(s)
           t == Mapped(s, T)
<1>0. N \in Nat /\ t \in Seq(H) /\ Len(t) = N /\ \A i \in 1 .. N : t[i] = T[s[i]] /\ s[i] \in H
  BY DEF Mapped
<1> HIDE DEF t
<1>1. PICK a \in [0 .. N -> Seq(H)] : KeepRun(s, name, same, a)
  BY Keeping
<1>2. PICK b \in [0 .. Len(t) -> Seq(H)] : KeepRun(t, name, same, b)
  BY <1>0, Keeping
<1> DEFINE f == [k \in 0 .. N |-> Mapped(a[k], T)]
<1>3. b[0] = f[0]
  BY <1>0, <1>1, <1>2 DEF KeepRun, Mapped
<1>4. ASSUME NEW k \in 1 .. N, b[k - 1] = f[k - 1] PROVE b[k] = f[k]
  <2>0. k - 1 \in 0 .. N /\ k \in 0 .. N
    OBVIOUS
  <2>1. /\ a[k - 1] \in Seq(H)
        /\ a[k] = KeepStep(a[k - 1], s[k], name, same)
        /\ b[k] = KeepStep(b[k - 1], T[s[k]], name, same)
    <3>1. a[k - 1] \in Seq(H) /\ a[k] = KeepStep(a[k - 1], s[k], name, same)
      BY <1>1, <2>0 DEF KeepRun
    <3>2. k \in 1 .. Len(t) /\ t[k] = T[s[k]]
      BY <1>0
    <3>3. b[k] = KeepStep(b[k - 1], t[k], name, same)
      BY <1>2, <3>2 DEF KeepRun
    <3> QED BY <3>1, <3>2, <3>3
  <2>2. b[k - 1] = Mapped(a[k - 1], T)
    BY <1>4, <2>0
  <2>3. Mapped(Append(a[k - 1], s[k]), T) = Append(Mapped(a[k - 1], T), T[s[k]])
    <3> DEFINE u == a[k - 1]
               x == s[k]
    <3>1. u \in Seq(H) /\ x \in H
      BY <1>0, <2>1
    <3> HIDE DEF u, x
    <3>2. Mapped(Append(u, x), T) = Append(Mapped(u, T), T[x])
      BY <3>1, MappedAppend
    <3> QED BY ONLY <3>2 DEF u, x
  <2>4. T[s[k]].name = s[k].name
    BY <1>0
  <2>5. b[k] = Mapped(a[k], T)
    BY <2>1, <2>2, <2>3, <2>4 DEF KeepStep
  <2> QED BY <2>0, <2>5
<1>5. b[N] = f[N]
  <2> HIDE DEF f, N
  <2>1. Lockstep(N, b, f)
    BY <1>3, <1>4 DEF Lockstep
  <2> QED BY <1>0, <2>1, RunsAgree
<1>6. f[N] = Mapped(a[N], T)
  BY <1>0
<1> HIDE DEF f
<1> QED BY <1>0, <1>1, <1>2, <1>5, <1>6 DEF KeepRun, t

-----------------------------------------------------------------------------
(* Trim *)

\* A set of indices has a least and a greatest.
LEMMA LeastAndGreatest ==
  ASSUME NEW N \in Nat, NEW S, S \subseteq 1 .. N, S # {}
  PROVE  /\ \E i \in S : \A j \in S : i <= j
         /\ \E i \in S : \A j \in S : i >= j
<1>1. ASSUME \A i \in S : \E j \in S : ~(i <= j) PROVE FALSE
  <2> DEFINE B == {k \in 0 .. N : \A j \in S : k < j}
  <2>1. 0 \in B
    OBVIOUS
  <2>2. ASSUME NEW k \in 1 .. N, k - 1 \in B PROVE k \in B
    <3>1. \A j \in S : k <= j
      BY <2>2
    <3>2. k \notin S
      BY <1>1, <3>1
    <3> QED BY <3>1, <3>2
  <2>3. 0 .. N \subseteq B
    <3> HIDE DEF B
    <3> QED BY <2>1, <2>2, Reached
  <2>4. N \in B
    <3>1. N \in 0 .. N
      OBVIOUS
    <3> HIDE DEF B
    <3> QED BY <2>3, <3>1
  <2>5. PICK j : j \in S
    OBVIOUS
  <2>6. j \in 1 .. N
    BY <2>5
  <2> QED BY <2>4, <2>5, <2>6
<1>2. ASSUME \A i \in S : \E j \in S : ~(i >= j) PROVE FALSE
  <2> DEFINE B == {k \in 0 .. N : \A j \in S : j <= N - k}
  <2>1. 0 \in B
    OBVIOUS
  <2>2. ASSUME NEW k \in 1 .. N, k - 1 \in B PROVE k \in B
    <3>1. \A j \in S : j <= N - (k - 1)
      BY <2>2
    <3>2. N - (k - 1) \notin S
      BY <1>2, <3>1
    <3> QED BY <3>1, <3>2
  <2>3. 0 .. N \subseteq B
    <3> HIDE DEF B
    <3> QED BY <2>1, <2>2, Reached
  <2>4. N \in B
    <3>1. N \in 0 .. N
      OBVIOUS
    <3> HIDE DEF B
    <3> QED BY <2>3, <3>1
  <2>5. PICK j : j \in S
    OBVIOUS
  <2>6. j \in 1 .. N
    BY <2>5
  <2> QED BY <2>4, <2>5, <2>6
<1> QED BY <1>1, <1>2

Solid(words) == {i \in 1 .. Len(words) : words[i] # Blank}

\* From the first word that is no blank to the last.
TrimmedFrom(words, t, lo, hi) ==
  /\ lo \in 1 .. Len(words) /\ hi \in lo .. Len(words)
  /\ words[lo] # Blank /\ words[hi] # Blank
  /\ \A j \in 1 .. Len(words) : words[j] # Blank => lo <= j /\ j <= hi
  /\ Len(t) = (hi - lo) + 1
  /\ \A i \in 1 .. (hi - lo) + 1 : t[i] = words[(i + lo) - 1]
  /\ t = SubSeq(words, lo, hi)

Trimmed(words, t) == \E lo, hi : TrimmedFrom(words, t, lo, hi)

\* Trim cuts a sequence of words from its first to its last that is no blank.
LEMMA TrimShape ==
  ASSUME NEW W, NEW words \in Seq(W)
  PROVE  /\ Trim(words) \in Seq(W)
         /\ Solid(words) = {} => Trim(words) = <<>>
         /\ Solid(words) # {} => Trimmed(words, Trim(words))
<1> DEFINE S == Solid(words)
           n == Len(words)
<1>0. n \in Nat /\ S \subseteq 1 .. n
  BY DEF Solid
<1>1. Trim(words) = IF S = {} THEN <<>>
                    ELSE SubSeq(words, CHOOSE i \in S : \A j \in S : i <= j,
                                       CHOOSE i \in S : \A j \in S : i >= j)
  BY DEF Trim, Solid
<1>2. CASE S = {}
  BY <1>1, <1>2
<1>3. CASE S # {}
  <2> DEFINE lo == CHOOSE i \in S : \A j \in S : i <= j
             hi == CHOOSE i \in S : \A j \in S : i >= j
             t == SubSeq(words, lo, hi)
  <2>1. /\ lo \in S /\ \A j \in S : lo <= j
        /\ hi \in S /\ \A j \in S : hi >= j
    <3> HIDE DEF S, n
    <3> QED BY <1>0, <1>3, LeastAndGreatest
  <2> HIDE DEF lo, hi
  <2>2. lo \in 1 .. n /\ hi \in lo .. n /\ words[lo] # Blank /\ words[hi] # Blank
    BY <1>0, <2>1 DEF Solid
  <2>3. \A j \in 1 .. n : words[j] # Blank => lo <= j /\ j <= hi
    BY <2>1 DEF Solid
  <2>4. t \in Seq(W) /\ Len(t) = (hi - lo) + 1
        /\ \A i \in 1 .. (hi - lo) + 1 : t[i] = words[(i + lo) - 1]
    BY <2>2
  <2>5. Trim(words) = t
    BY <1>1, <1>3 DEF lo, hi
  <2> HIDE DEF t
  <2>6. t = SubSeq(words, lo, hi)
    BY DEF t
  <2>7. TrimmedFrom(words, t, lo, hi)
    BY <2>2, <2>3, <2>4, <2>6 DEF TrimmedFrom
  <2> QED BY <1>3, <2>4, <2>5, <2>7 DEF Trimmed
<1> QED BY <1>2, <1>3

\* Trim of no word and of one.
LEMMA TrimOne ==
  ASSUME NEW x
  PROVE  /\ Trim(<<>>) = <<>>
         /\ x # Blank => Trim(<<x>>) = <<x>>
         /\ x = Blank => Trim(<<x>>) = <<>>
<1>1. Trim(<<>>) = <<>>
  <2>1. <<>> \in Seq({}) /\ Solid(<<>>) = {}
    BY DEF Solid
  <2> QED BY <2>1, TrimShape
<1> DEFINE w == <<x>>
<1>2. w \in Seq({x}) /\ Len(w) = 1 /\ w[1] = x
  OBVIOUS
<1> HIDE DEF w
<1>3. CASE x # Blank
  <2>1. Solid(w) # {}
    <3>1. 1 \in Solid(w)
      BY <1>2, <1>3 DEF Solid
    <3> QED BY <3>1
  <2>2. PICK lo, hi : TrimmedFrom(w, Trim(w), lo, hi)
    BY <1>2, <2>1, TrimShape DEF Trimmed
  <2>3. lo = 1 /\ hi = 1
    BY <1>2, <2>2 DEF TrimmedFrom
  <2>4. Trim(w) \in Seq({x}) /\ Len(Trim(w)) = 1 /\ Trim(w)[1] = x
    BY <1>2, <2>2, <2>3, TrimShape DEF TrimmedFrom
  <2>5. \A t \in Seq({x}) : Len(t) = 1 /\ t[1] = x => t = <<x>>
    OBVIOUS
  <2>6. Trim(w) = <<x>>
    BY <2>4, <2>5
  <2> QED BY <1>1, <1>3, <2>6 DEF w
<1>4. CASE x = Blank
  <2>1. Solid(w) = {}
    BY <1>2, <1>4 DEF Solid
  <2> QED BY <1>1, <1>2, <1>4, <2>1, TrimShape DEF w
<1> QED BY <1>3, <1>4

\* To trim again changes nothing.
LEMMA TrimTwice ==
  ASSUME NEW W, NEW words \in Seq(W)
  PROVE  Trim(Trim(words)) = Trim(words)
<1> DEFINE t == Trim(words)
<1>1. t \in Seq(W)
  BY TrimShape
<1>2. CASE Solid(words) = {}
  BY <1>2, TrimShape, TrimOne
<1>3. CASE Solid(words) # {}
  <2>1. PICK lo, hi : TrimmedFrom(words, t, lo, hi)
    BY <1>3, TrimShape DEF Trimmed
  <2> HIDE DEF t
  <2>2. Len(t) \in Nat /\ Len(t) >= 1 /\ t[1] # Blank /\ t[Len(t)] # Blank
    <3>1. lo \in Nat /\ hi \in Nat /\ hi >= lo /\ (1 + lo) - 1 = lo
          /\ ((hi - lo) + 1 + lo) - 1 = hi /\ 1 \in 1 .. (hi - lo) + 1
          /\ (hi - lo) + 1 \in 1 .. (hi - lo) + 1
      BY <2>1 DEF TrimmedFrom
    <3> QED BY <2>1, <3>1 DEF TrimmedFrom
  <2>3. Solid(t) # {}
    <3>1. 1 \in Solid(t)
      BY <2>2 DEF Solid
    <3> QED BY <3>1
  <2>4. PICK l, h : TrimmedFrom(t, Trim(t), l, h)
    BY <1>1, <2>3, TrimShape DEF Trimmed
  <2>5. l = 1 /\ h = Len(t)
    BY <2>2, <2>4 DEF TrimmedFrom
  <2>6. SubSeq(t, 1, Len(t)) = t
    BY <1>1
  <2> QED BY <2>4, <2>5, <2>6 DEF TrimmedFrom, t
<1> QED BY <1>2, <1>3

\* Of the words a tag has, trimming takes none.
OneTag(words) ==
  \E k \in 1 .. Len(words) :
    words[k] = Tag /\ \A j \in 1 .. Len(words) : words[j] = Tag => j = k

\* The parameter tag survives Trim.
LEMMA TrimKeepsTag ==
  ASSUME NEW W, NEW words \in Seq(W), OneTag(words)
  PROVE  OneTag(Trim(words))
<1> DEFINE t == Trim(words)
<1>1. PICK k \in 1 .. Len(words) :
        words[k] = Tag /\ \A j \in 1 .. Len(words) : words[j] = Tag => j = k
  BY DEF OneTag
<1>2. words[k] # Blank
  BY <1>1, WordAssumption
<1>3. Solid(words) # {}
  <2>1. k \in Solid(words)
    BY <1>2 DEF Solid
  <2> QED BY <2>1
<1>4. PICK lo, hi : TrimmedFrom(words, t, lo, hi)
  BY <1>3, TrimShape DEF Trimmed
<1> HIDE DEF t
<1> DEFINE i == (k - lo) + 1
<1>5. Len(words) \in Nat /\ lo \in 1 .. Len(words) /\ hi \in 1 .. Len(words) /\ lo <= k /\ k <= hi
      /\ Len(t) = (hi - lo) + 1
  BY <1>2, <1>4 DEF TrimmedFrom
<1>6. i \in 1 .. Len(t) /\ (i + lo) - 1 = k
  BY <1>5
<1>7. t[i] = Tag
  BY <1>1, <1>4, <1>5, <1>6 DEF TrimmedFrom
<1>8. ASSUME NEW j \in 1 .. Len(t), t[j] = Tag PROVE j = i
  <2> DEFINE m == (j + lo) - 1
  <2>1. m \in 1 .. Len(words) /\ j \in 1 .. (hi - lo) + 1
    BY <1>5
  <2>2. words[m] = Tag
    BY <1>4, <1>8, <2>1 DEF TrimmedFrom
  <2>3. m = k
    <3> HIDE DEF m
    <3> QED BY <1>1, <2>1, <2>2
  <2> QED BY <1>5, <2>3
<1> HIDE DEF i
<1>9. OneTag(t)
  BY <1>6, <1>7, <1>8 DEF OneTag
<1> QED BY <1>9 DEF t

-----------------------------------------------------------------------------
(* Serializing a message and parsing what was written *)

Names == {"Via", "VIA", "v", "From", "To", "Call-ID", "CALL-ID", "i", "CSeq", "Content-Length"}

HeadersOf(W) == [name : Names, value : Seq(W)]

\* What parseSip makes of a header that stands on a line of its own.
Reread(W) == [h \in HeadersOf(W) |-> Header(h.name, Trim(h.value))]

\* What becomes of a header that is written and parsed.
LEMMA RereadType ==
  ASSUME NEW W
  PROVE  /\ Reread(W) \in [HeadersOf(W) -> HeadersOf(W)]
         /\ \A h \in HeadersOf(W) : /\ Reread(W)[h] = Header(h.name, Trim(h.value))
                                    /\ Reread(W)[h].name = h.name
                                    /\ Reread(W)[h].value = Trim(h.value)
<1>1. ASSUME NEW h \in HeadersOf(W)
      PROVE  Header(h.name, Trim(h.value)) \in HeadersOf(W)
  <2>1. h.name \in Names /\ h.value \in Seq(W)
    BY DEF HeadersOf
  <2>2. Trim(h.value) \in Seq(W)
    BY <2>1, TrimShape
  <2> QED BY <2>1, <2>2 DEF Header, HeadersOf
<1>2. \A h \in HeadersOf(W) : /\ Reread(W)[h] = Header(h.name, Trim(h.value))
                              /\ Reread(W)[h].name = h.name
                              /\ Reread(W)[h].value = Trim(h.value)
  BY DEF Reread, Header
<1> QED BY <1>1, <1>2 DEF Reread

Lines(headers) == [i \in 1 .. Len(headers) |-> HeaderLine(headers[i].name, headers[i].value)]

Parsed(W) == [ok : BOOLEAN, headers : Seq(HeadersOf(W))]

\* Lines written from headers parse to those headers, trimmed.
LEMMA HeaderLinesParse ==
  ASSUME NEW W, NEW hs \in Seq(HeadersOf(W))
  PROVE  ParseHeaders(Lines(hs)) = [ok |-> TRUE, headers |-> Mapped(hs, Reread(W))]
<1> DEFINE H == HeadersOf(W)
           T == Reread(W)
           N == Len(hs)
           seq == Lines(hs)
           base == [ok |-> TRUE, headers |-> <<>>]
           A == Parsed(W)
           b == [k \in 0 .. N |-> [ok |-> TRUE, headers |-> [i \in 1 .. k |-> T[hs[i]]]]]
<1>0. /\ N \in Nat /\ DOMAIN seq = 1 .. N
      /\ \A i \in 1 .. N : hs[i] \in H /\ seq[i] = HeaderLine(hs[i].name, hs[i].value)
  BY DEF Lines
<1>1. base \in A
  BY DEF Parsed
<1>2. ASSUME NEW i \in 1 .. N, NEW x \in A
      PROVE  /\ ParseHeaderLine(x, seq[i]) =
                  [ok |-> x.ok, headers |-> Append(x.headers, T[hs[i]])]
             /\ ParseHeaderLine(x, seq[i]) \in A
  <2>1. /\ hs[i] \in H /\ seq[i] = [form |-> "header", name |-> hs[i].name, words |-> hs[i].value]
    BY <1>0 DEF HeaderLine
  <2>2. T[hs[i]] = Header(hs[i].name, Trim(hs[i].value)) /\ T[hs[i]] \in H
    BY <2>1, RereadType
  <2>3. ParseHeaderLine(x, seq[i]) =
          [x EXCEPT !.headers = Append(x.headers, Header(hs[i].name, Trim(hs[i].value)))]
    BY <2>1 DEF ParseHeaderLine
  <2> HIDE DEF T, seq, H
  <2>4. ParseHeaderLine(x, seq[i]) = [ok |-> x.ok, headers |-> Append(x.headers, T[hs[i]])]
    BY <2>2, <2>3 DEF Parsed
  <2>5. x.ok \in BOOLEAN /\ x.headers \in Seq(H)
    BY DEF Parsed, H
  <2>6. Append(x.headers, T[hs[i]]) \in Seq(H)
    BY <2>2, <2>5
  <2> QED BY <2>4, <2>5, <2>6 DEF Parsed, H
<1>9. PICK a : HeaderRun(A, base, seq, N, a)
  <2>1. HeaderSteps(A, seq, N)
    BY <1>2 DEF HeaderSteps
  <2> HIDE DEF N, A, seq, base
  <2> QED BY <1>0, <1>1, <2>1, HeaderFold
<1>3. /\ a \in [0 .. N -> A] /\ a[0] = base /\ a[N] = FoldLeft(ParseHeaderLine, base, seq)
      /\ \A k \in 1 .. N : a[k] = ParseHeaderLine(a[k - 1], seq[k])
  BY <1>9, Zenon DEF HeaderRun
<1>4. a[0] = b[0]
  BY <1>0, <1>3
<1>5. ASSUME NEW k \in 1 .. N, a[k - 1] = b[k - 1] PROVE a[k] = b[k]
  <2> DEFINE n == k - 1
             t == [i \in 1 .. n |-> T[hs[i]]]
  <2>1. n \in Nat /\ n + 1 = k /\ n \in 0 .. N /\ k \in 0 .. N
    OBVIOUS
  <2>2. a[n] = [ok |-> TRUE, headers |-> t] /\ a[n] \in A
    BY <1>5, <1>3, <2>1
  <2>3. b[k] = [ok |-> TRUE, headers |-> [i \in 1 .. k |-> T[hs[i]]]]
    BY <2>1
  <2>4. a[k] = [ok |-> TRUE, headers |-> Append(t, T[hs[k]])]
    <3> HIDE DEF t, A, T, seq, N
    <3>1. a[k] = ParseHeaderLine(a[n], seq[k])
      BY <1>3
    <3>2. a[k] = [ok |-> a[n].ok, headers |-> Append(a[n].headers, T[hs[k]])]
      <4> DEFINE x == a[n]
      <4>1. x \in A
        BY <2>2
      <4> HIDE DEF x
      <4>2. ParseHeaderLine(x, seq[k]) = [ok |-> x.ok, headers |-> Append(x.headers, T[hs[k]])]
        BY <1>2, <4>1
      <4> QED BY <3>1, <4>2 DEF x
    <3>3. a[n].ok = TRUE /\ a[n].headers = t
      BY <2>2
    <3> QED BY ONLY <3>2, <3>3
  <2>5. Append(t, T[hs[k]]) = [i \in 1 .. k |-> T[hs[i]]]
    <3> HIDE DEF T
    <3>1. t \in Seq(H) /\ Len(t) = n /\ T[hs[k]] \in H
      <4>1. \A i \in 1 .. N : T[hs[i]] \in H
        BY <1>0, RereadType DEF T
      <4>2. \A i \in 1 .. n : i \in 1 .. N
        BY <2>1
      <4> QED BY <2>1, <4>1, <4>2
    <3>2. Append(t, T[hs[k]]) = [i \in 1 .. n + 1 |-> IF i = n + 1 THEN T[hs[k]] ELSE t[i]]
      <4> HIDE DEF t
      <4> QED BY <2>1, <3>1
    <3>3. \A i \in 1 .. n + 1 : (IF i = n + 1 THEN T[hs[k]] ELSE t[i]) = T[hs[i]]
      BY <2>1
    <3> HIDE DEF t, n
    <3> QED BY <2>1, <3>2, <3>3
  <2> HIDE DEF t, b, A
  <2> QED BY <2>3, <2>4, <2>5
<1>6. a[N] = b[N]
  <2> HIDE DEF b, N
  <2>1. Lockstep(N, a, b)
    BY <1>4, <1>5 DEF Lockstep
  <2> QED BY <1>0, <2>1, RunsAgree
<1>7. b[N] = [ok |-> TRUE, headers |-> Mapped(hs, T)]
  BY <1>0 DEF Mapped
<1>8. FoldLeft(ParseHeaderLine, base, seq) = [ok |-> TRUE, headers |-> Mapped(hs, T)]
  <2> HIDE DEF b, T, seq, base
  <2> QED BY <1>3, <1>6, <1>7
<1> QED BY ONLY <1>8, Zenon DEF ParseHeaders, base, seq, T

Reply(code, hs, body) ==
  [isRequest |-> FALSE, start |-> [form |-> "status", code |-> code],
   headers |-> hs, body |-> body]

Measure(body) == Header("Content-Length", <<Len(body)>>)

Others(hs) == Without(hs, "Content-Length")

\* The Content-Length that serialize writes.
LEMMA MeasureType ==
  ASSUME NEW W, Nat \subseteq W, NEW L, NEW body \in Seq(L)
  PROVE  /\ Measure(body) \in HeadersOf(W)
         /\ Reread(W)[Measure(body)] = Measure(body)
         /\ Measure(body).name = "Content-Length" /\ Measure(body).value = <<Len(body)>>
<1>1. Len(body) \in Nat /\ Len(body) # Blank
  BY BlankAssumption
<1>2. <<Len(body)>> \in Seq(W)
  BY <1>1
<1>3. Measure(body) = [name |-> "Content-Length", value |-> <<Len(body)>>]
  BY DEF Measure, Header
<1>4. Measure(body) \in HeadersOf(W)
  BY <1>2, <1>3 DEF HeadersOf, Names
<1>5. Trim(<<Len(body)>>) = <<Len(body)>>
  BY <1>1, TrimOne
<1> QED BY <1>3, <1>4, <1>5, RereadType DEF Header

\* serialize writes the lines of its headers and of that one.
LEMMA WrittenLines ==
  ASSUME NEW W, Nat \subseteq W, NEW L, NEW hs \in Seq(HeadersOf(W)), NEW body \in Seq(L)
  PROVE  Append([i \in 1 .. Len(hs) |-> HeaderLine(hs[i].name, hs[i].value)],
                HeaderLine("Content-Length", <<Len(body)>>))
           = Lines(Append(hs, Measure(body)))
<1> DEFINE x == Measure(body)
           n == Len(hs)
           t == [i \in 1 .. n |-> HeaderLine(hs[i].name, hs[i].value)]
           y == HeaderLine("Content-Length", <<Len(body)>>)
           all == Append(hs, x)
           Y == {HeaderLine(hs[i].name, hs[i].value) : i \in 1 .. n} \union {y}
<1>1. x \in HeadersOf(W) /\ n \in Nat /\ HeaderLine(x.name, x.value) = y
  <2>1. x \in HeadersOf(W) /\ x.name = "Content-Length" /\ x.value = <<Len(body)>>
    BY MeasureType
  <2> HIDE DEF x
  <2> QED BY <2>1
<1>2. Len(all) = n + 1 /\ all[n + 1] = x /\ \A i \in 1 .. n : all[i] = hs[i]
  BY <1>1
<1>3. t \in Seq(Y) /\ Len(t) = n /\ y \in Y
  BY <1>1
<1>4. \A i \in 1 .. n : t[i] = HeaderLine(hs[i].name, hs[i].value)
  OBVIOUS
<1>9. n \in Nat
  OBVIOUS
<1> HIDE DEF t, y, Y, x, n
<1>5. Append(t, y) = [i \in 1 .. n + 1 |-> IF i = n + 1 THEN y ELSE t[i]]
  <2>1. \A z \in Y : Append(t, z) = [i \in 1 .. Len(t) + 1 |-> IF i = Len(t) + 1 THEN z ELSE t[i]]
    BY <1>3, AppendIs
  <2> QED BY <1>3, <2>1
<1>6. \A i \in 1 .. n + 1 :
        (IF i = n + 1 THEN y ELSE t[i]) = HeaderLine(all[i].name, all[i].value)
  <2> HIDE DEF n, all
  <2> QED BY <1>1, <1>2, <1>4
<1>7. Lines(all) = [i \in 1 .. n + 1 |-> HeaderLine(all[i].name, all[i].value)]
  BY <1>2 DEF Lines
<1> HIDE DEF n, all
<1>8. Append(t, y) = Lines(all)
  BY <1>5, <1>6, <1>7
<1> QED BY ONLY <1>8 DEF t, y, n, all, x

\* Of any other name, the headers are those that were written.
LEMMA OtherNames ==
  ASSUME NEW W, Nat \subseteq W, NEW L, NEW hs \in Seq(HeadersOf(W)), NEW body \in Seq(L),
         NEW name
  PROVE  Keep(Append(Mapped(Others(hs), Reread(W)), Measure(body)), name, TRUE) =
           IF IEquals("Content-Length", name) THEN <<Measure(body)>>
           ELSE Mapped(Keep(hs, name, TRUE), Reread(W))
<1> DEFINE H == HeadersOf(W)
           T == Reread(W)
           kept == Others(hs)
           x == Measure(body)
<1>1. kept \in Seq(H) /\ x \in H /\ x.name = "Content-Length"
  BY KeepType, MeasureType DEF Others, Without
<1>2. T \in [H -> H] /\ \A h \in H : T[h].name = h.name
  BY RereadType
<1>3. Keep(kept, name, TRUE) =
        IF IEquals("Content-Length", name) THEN <<>> ELSE Keep(hs, name, TRUE)
  BY KeepWithout DEF Others, Without
<1>4. Mapped(kept, T) \in Seq(H)
  <2> HIDE DEF kept, T, H
  <2>1. \A i \in 1 .. Len(kept) : T[kept[i]] \in H
    BY <1>1, <1>2
  <2> QED BY <1>1, <2>1 DEF Mapped
<1> HIDE DEF kept, T, H, x
<1>5. Keep(Mapped(kept, T), name, TRUE) = Mapped(Keep(kept, name, TRUE), T)
  BY <1>1, <1>2, KeepMapped
<1>6. Keep(Append(Mapped(kept, T), x), name, TRUE) =
        KeepStep(Keep(Mapped(kept, T), name, TRUE), x, name, TRUE)
  <2> DEFINE u == Mapped(kept, T)
  <2>1. u \in Seq(H)
    BY <1>4
  <2> HIDE DEF u
  <2>2. Keep(Append(u, x), name, TRUE) = KeepStep(Keep(u, name, TRUE), x, name, TRUE)
    <3>1. x \in H
      BY <1>1
    <3> QED BY ONLY <2>1, <3>1, KeepAppend, Zenon
  <2> QED BY ONLY <2>2 DEF u
<1>7. Mapped(<<>>, T) = <<>> /\ Append(<<>>, x) = <<x>>
  BY DEF Mapped
<1>8. CASE IEquals("Content-Length", name)
  BY <1>1, <1>3, <1>5, <1>6, <1>7, <1>8 DEF KeepStep, kept, T, x
<1>9. CASE ~IEquals("Content-Length", name)
  BY <1>1, <1>3, <1>5, <1>6, <1>9 DEF KeepStep, kept, T, x
<1> QED BY <1>8, <1>9

\* Records with one field replaced.
LEMMA SameBody ==
  ASSUME NEW a, NEW b, NEW c, NEW d, NEW m,
         m = [isRequest |-> a, start |-> b, headers |-> c, body |-> d]
  PROVE  [m EXCEPT !.body = d] = m
OBVIOUS

\* A message with its headers replaced.
LEMMA OtherHeaders ==
  ASSUME NEW a, NEW b, NEW c, NEW d, NEW m, NEW e,
         m = [isRequest |-> a, start |-> b, headers |-> c, body |-> d]
  PROVE  [m EXCEPT !.headers = e] = [isRequest |-> a, start |-> b, headers |-> e, body |-> d]
OBVIOUS

\* A response with its headers replaced.
LEMMA ReplyHeaders ==
  ASSUME NEW code, NEW hs, NEW body, NEW e
  PROVE  [Reply(code, hs, body) EXCEPT !.headers = e] = Reply(code, e, body)
<1> DEFINE m == Reply(code, hs, body)
           start == [form |-> "status", code |-> code]
           no == FALSE
<1>1. m = [isRequest |-> no, start |-> start, headers |-> hs, body |-> body]
  BY DEF Reply
<1>2. Reply(code, e, body) = [isRequest |-> no, start |-> start, headers |-> e, body |-> body]
  BY DEF Reply
<1> HIDE DEF m, start, no
<1>3. [m EXCEPT !.headers = e] = Reply(code, e, body)
  BY <1>1, <1>2, OtherHeaders
<1> QED BY ONLY <1>3, Zenon DEF m

\* parseSip undoes serialize, but for blanks around values and the Content-Length.
LEMMA RoundTrip ==
  ASSUME NEW W, Nat \subseteq W, NEW L, NEW hs \in Seq(HeadersOf(W)), NEW body \in Seq(L),
         NEW code
  PROVE  ParseSip(Serialize(Reply(code, hs, body))) =
           Reply(code, Append(Mapped(Others(hs), Reread(W)), Measure(body)), body)
<1> DEFINE kept == Others(hs)
           all == Append(kept, Measure(body))
           back == Append(Mapped(kept, Reread(W)), Measure(body))
           dg == Serialize(Reply(code, hs, body))
           msg1 == Reply(code, back, body)
<1>1. kept \in Seq(HeadersOf(W)) /\ Measure(body) \in HeadersOf(W)
  BY KeepType, MeasureType DEF Others, Without
<1>2. all \in Seq(HeadersOf(W))
  <2> HIDE DEF kept
  <2> QED BY <1>1
<1>3. dg = [start |-> [form |-> "status", code |-> code], lines |-> Lines(all),
            blank |-> TRUE, body |-> body]
  <2>1. Without(hs, "Content-Length") = kept
    BY DEF Others
  <2>2. Append([i \in 1 .. Len(kept) |-> HeaderLine(kept[i].name, kept[i].value)],
               HeaderLine("Content-Length", <<Len(body)>>)) = Lines(all)
    <3> HIDE DEF kept
    <3> QED BY <1>1, WrittenLines
  <2> HIDE DEF kept, all
  <2>3. Reply(code, hs, body).headers = hs /\ Reply(code, hs, body).body = body
        /\ Reply(code, hs, body).start = [form |-> "status", code |-> code]
    BY DEF Reply
  <2> QED BY <2>1, <2>2, <2>3, Zenon DEF Serialize
<1>4. ParseHeaders(Lines(all)) = [ok |-> TRUE, headers |-> back]
  <2>1. Mapped(all, Reread(W)) = Append(Mapped(kept, Reread(W)), Reread(W)[Measure(body)])
    <3> HIDE DEF kept
    <3> QED BY <1>1, RereadType, MappedAppend
  <2>2. Reread(W)[Measure(body)] = Measure(body)
    BY MeasureType
  <2> HIDE DEF kept, all
  <2>3. ParseHeaders(Lines(all)) = [ok |-> TRUE, headers |-> Mapped(all, Reread(W))]
    BY <1>2, HeaderLinesParse
  <2> QED BY <2>1, <2>2, <2>3
<1>5. GetAll(msg1, "Content-Length") = <<Measure(body)>>
  <2>1. Keep(back, "Content-Length", TRUE) = <<Measure(body)>>
    BY OtherNames DEF IEquals
  <2>2. msg1.headers = back
    BY DEF Reply
  <2> QED BY <2>1, <2>2 DEF GetAll
<1> HIDE DEF back, kept, all
<1>6. /\ Has(msg1, "Content-Length") /\ Get(msg1, "Content-Length") = <<Len(body)>>
  <2>1. Measure(body).value = <<Len(body)>>
    BY MeasureType
  <2> QED BY <1>5, <2>1 DEF Has, Get
<1>7. Len(body) \in Nat /\ SubSeq(body, 1, Len(body)) = body
  OBVIOUS
<1>8. LengthHolds(msg1, body) /\ Declared(msg1, body) = body
  <2>1. Trim(<<Len(body)>>) = <<Len(body)>>
    BY <1>7, TrimOne, BlankAssumption
  <2> QED BY <1>6, <1>7, <2>1 DEF LengthHolds, IsNumber, Number, Declared
<1>9. [msg1 EXCEPT !.body = body] = msg1
  <2>1. msg1 = [isRequest |-> FALSE, start |-> [form |-> "status", code |-> code],
                headers |-> back, body |-> body]
    BY DEF Reply
  <2> HIDE DEF msg1
  <2> QED BY <2>1, SameBody
<1>10. dg.start = [form |-> "status", code |-> code] /\ dg.body = body /\ dg.blank = TRUE
       /\ dg.start.form = "status" /\ dg.lines = Lines(all)
  <2> HIDE DEF dg
  <2> QED BY <1>3
<1>11. ParseHeaders(dg.lines).ok = TRUE /\ ParseHeaders(dg.lines).headers = back
  <2> HIDE DEF dg
  <2> QED BY <1>4, <1>10
<1>12. [isRequest |-> dg.start.form = "request", start |-> dg.start,
        headers |-> ParseHeaders(dg.lines).headers, body |-> dg.body] = msg1
  <2> HIDE DEF dg
  <2> QED BY <1>10, <1>11 DEF Reply
<1> HIDE DEF dg, msg1
<1>13. ParseSip(dg) = [msg1 EXCEPT !.body = Declared(msg1, body)]
  BY <1>8, <1>10, <1>11, <1>12 DEF ParseSip
<1>14. ParseSip(dg) = msg1
  BY <1>8, <1>9, <1>13
<1> QED BY ONLY <1>14 DEF dg, msg1, back, kept

-----------------------------------------------------------------------------
(* makeResponse *)

Copied == {"Via", "From", "To", "Call-ID", "CSeq"}

\* The headers that makeResponse copies have different names.
LEMMA CopiedDiffer ==
  ASSUME NEW n \in Copied, NEW x \in Copied
  PROVE  /\ IEquals(n, x) <=> n = x
         /\ n \in Names /\ ~IEquals("Content-Length", x)
BY DEF Copied, Names, IEquals, ProperName

\* The first header of a name is one of the headers.
LEMMA GetIsThere ==
  ASSUME NEW H, NEW m, m.headers \in Seq(H), NEW name, Has(m, name)
  PROVE  \E i \in 1 .. Len(m.headers) :
           Get(m, name) = m.headers[i].value /\ IEquals(m.headers[i].name, name)
<1> DEFINE s == m.headers
           kept == Keep(s, name, TRUE)
<1>1. kept \in Seq(H) /\ KeptFrom(s, name, TRUE, kept)
  BY KeepType, KeepSome
<1>2. kept # <<>> /\ Get(m, name) = kept[1].value
  BY Zenon DEF Has, Get, GetAll
<1> HIDE DEF kept
<1>3. 1 \in 1 .. Len(kept)
  BY <1>1, <1>2
<1> QED BY <1>1, <1>2, <1>3 DEF KeptFrom

\* get returns words.
LEMMA GetType ==
  ASSUME NEW W, NEW m, m.headers \in Seq(HeadersOf(W)), NEW name, Has(m, name)
  PROVE  Get(m, name) \in Seq(W)
<1>1. PICK i \in 1 .. Len(m.headers) : Get(m, name) = m.headers[i].value
  BY GetIsThere
<1>2. m.headers[i] \in HeadersOf(W)
  OBVIOUS
<1> QED BY <1>1, <1>2 DEF HeadersOf

\* hs2 is hs with the header n set to v, where there is something to set.
Filed(W, hs, has, n, v, hs2) ==
  /\ hs2 \in Seq(HeadersOf(W))
  /\ \A x \in Copied :
       Keep(hs2, x, TRUE) = IF has /\ x = n THEN <<Header(n, v)>> ELSE Keep(hs, x, TRUE)

\* set: one header of that name, the others as they were.
LEMMA SetFiles ==
  ASSUME NEW W, NEW hs \in Seq(HeadersOf(W)), NEW n \in Copied, NEW v \in Seq(W),
         NEW code, NEW body
  PROVE  \E hs2 : Set(Reply(code, hs, body), n, v) = Reply(code, hs2, body)
                  /\ Filed(W, hs, TRUE, n, v, hs2)
<1> DEFINE kept == Without(hs, n)
           x == Header(n, v)
           hs2 == Append(kept, x)
<1>1. kept \in Seq(HeadersOf(W))
  BY KeepType DEF Without
<1>2. x \in HeadersOf(W) /\ x.name = n
  BY CopiedDiffer DEF Header, HeadersOf
<1>3. hs2 \in Seq(HeadersOf(W))
  <2> HIDE DEF kept, x
  <2> QED BY <1>1, <1>2
<1>4. ASSUME NEW y \in Copied
      PROVE  Keep(hs2, y, TRUE) = IF y = n THEN <<x>> ELSE Keep(hs, y, TRUE)
  <2>1. Keep(kept, y, TRUE) = IF IEquals(n, y) THEN <<>> ELSE Keep(hs, y, TRUE)
    BY KeepWithout, Zenon DEF Without
  <2> HIDE DEF kept, x
  <2>2. Keep(hs2, y, TRUE) = KeepStep(Keep(kept, y, TRUE), x, y, TRUE)
    BY ONLY <1>1, <1>2, KeepAppend, Zenon
  <2>3. IEquals(n, y) <=> n = y
    BY CopiedDiffer
  <2>4. Append(<<>>, x) = <<x>>
    OBVIOUS
  <2> HIDE DEF hs2
  <2>5. IEquals(x.name, y) \in BOOLEAN
    BY DEF IEquals
  <2> QED BY <1>2, <2>1, <2>2, <2>3, <2>4, <2>5 DEF KeepStep
<1>5. Filed(W, hs, TRUE, n, v, hs2)
  <2> HIDE DEF hs2
  <2> QED BY <1>3, <1>4 DEF Filed
<1>6. Set(Reply(code, hs, body), n, v) = Reply(code, hs2, body)
  <2>1. Reply(code, hs, body).headers = hs
    BY DEF Reply
  <2>2. \A c : [Reply(code, hs, body) EXCEPT !.headers = c] = Reply(code, c, body)
    BY ReplyHeaders, Zenon
  <2>3. Set(Reply(code, hs, body), n, v) =
          [Reply(code, hs, body)
             EXCEPT !.headers = Append(Without(Reply(code, hs, body).headers, n), Header(n, v))]
    BY DEF Set
  <2>4. Append(Without(Reply(code, hs, body).headers, n), Header(n, v)) = hs2
    BY <2>1
  <2> HIDE DEF hs2
  <2> QED BY <2>2, <2>3, <2>4
<1> HIDE DEF hs2
<1> QED BY <1>5, <1>6

\* copy: the same, when the request has one.
LEMMA CopyFiles ==
  ASSUME NEW W, NEW hs \in Seq(HeadersOf(W)), NEW n \in Copied,
         NEW m, m.headers \in Seq(HeadersOf(W)), NEW code, NEW body
  PROVE  \E hs2 : Copy(Reply(code, hs, body), m, n) = Reply(code, hs2, body)
                  /\ Filed(W, hs, Has(m, n), n, Get(m, n), hs2)
<1>1. CASE Has(m, n)
  <2>1. Get(m, n) \in Seq(W)
    BY <1>1, GetType
  <2>2. PICK hs2 : Set(Reply(code, hs, body), n, Get(m, n)) = Reply(code, hs2, body)
                   /\ Filed(W, hs, TRUE, n, Get(m, n), hs2)
    BY <2>1, SetFiles
  <2> QED BY <1>1, <2>2, Zenon DEF Copy
<1>2. CASE ~Has(m, n)
  <2>1. Filed(W, hs, Has(m, n), n, Get(m, n), hs)
    BY <1>2 DEF Filed
  <2>2. Copy(Reply(code, hs, body), m, n) = Reply(code, hs, body)
    BY <1>2 DEF Copy
  <2> QED BY <2>1, <2>2
<1> QED BY <1>1, <1>2

ToValue(m, code) ==
  LET to == Get(m, "To")
  IN  IF Tag \in ToSet(to) \/ code = 100 THEN to ELSE Append(to, Tag)

\* The To header, with our tag.
LEMMA CopyToFiles ==
  ASSUME NEW W, Tag \in W, NEW hs \in Seq(HeadersOf(W)),
         NEW m, m.headers \in Seq(HeadersOf(W)), NEW code, NEW body
  PROVE  \E hs2 : CopyTo(Reply(code, hs, body), m, code) = Reply(code, hs2, body)
                  /\ Filed(W, hs, Has(m, "To"), "To", ToValue(m, code), hs2)
<1>0. "To" \in Copied
  BY DEF Copied
<1>1. CASE Has(m, "To")
  <2>1. Get(m, "To") \in Seq(W)
    BY <1>1, GetType
  <2>2. ToValue(m, code) \in Seq(W)
    BY <2>1 DEF ToValue
  <2>3. PICK hs2 : Set(Reply(code, hs, body), "To", ToValue(m, code)) = Reply(code, hs2, body)
                   /\ Filed(W, hs, TRUE, "To", ToValue(m, code), hs2)
    BY <1>0, <2>2, SetFiles
  <2>4. CopyTo(Reply(code, hs, body), m, code) = Set(Reply(code, hs, body), "To", ToValue(m, code))
    BY <1>1, Zenon DEF CopyTo, ToValue
  <2> QED BY <1>1, <2>3, <2>4, Zenon
<1>2. CASE ~Has(m, "To")
  <2>1. Filed(W, hs, Has(m, "To"), "To", ToValue(m, code), hs)
    BY <1>2 DEF Filed
  <2>2. CopyTo(Reply(code, hs, body), m, code) = Reply(code, hs, body)
    BY <1>2 DEF CopyTo
  <2> QED BY <2>1, <2>2
<1> QED BY <1>1, <1>2

\* The Vias of the request, from top to bottom.
ViasOf(m) ==
  [i \in 1 .. Len(Keep(m.headers, "Via", TRUE)) |->
     Header("Via", Keep(m.headers, "Via", TRUE)[i].value)]

\* The Vias of the request, all and in order, and nothing else.
LEMMA ViasFiled ==
  ASSUME NEW W, NEW m, m.headers \in Seq(HeadersOf(W)), NEW code, NEW body
  PROVE  /\ CopyVias(Reply(code, <<>>, body), m) = Reply(code, ViasOf(m), body)
         /\ ViasOf(m) \in Seq(HeadersOf(W))
         /\ \A x \in Copied : Keep(ViasOf(m), x, TRUE) = IF x = "Via" THEN ViasOf(m) ELSE <<>>
<1> DEFINE H == HeadersOf(W)
           seq == Keep(m.headers, "Via", TRUE)
           N == Len(seq)
           vias == [i \in 1 .. N |-> Header("Via", seq[i].value)]
           base == Reply(code, <<>>, body)
           A == {Reply(code, hs, body) : hs \in Seq(H)}
           b == [k \in 0 .. N |-> Reply(code, [i \in 1 .. k |-> Header("Via", seq[i].value)], body)]
<1>0. seq \in Seq(H)
  BY KeepType
<1>1. /\ N \in Nat /\ DOMAIN seq = 1 .. N
      /\ \A i \in 1 .. N : seq[i] \in H
  <2> HIDE DEF seq, H
  <2> QED BY <1>0
<1>2. \A i \in 1 .. N : Header("Via", seq[i].value) \in H
  <2> HIDE DEF seq
  <2> QED BY <1>1 DEF Header, HeadersOf, Names
<1> HIDE DEF seq, H
<1>3. base \in A
  <2>1. <<>> \in Seq(H)
    OBVIOUS
  <2> QED BY <2>1
<1>4. ASSUME NEW i \in 1 .. N, NEW hs \in Seq(H)
      PROVE  /\ Add(Reply(code, hs, body), "Via", seq[i].value) =
                  Reply(code, Append(hs, Header("Via", seq[i].value)), body)
             /\ Append(hs, Header("Via", seq[i].value)) \in Seq(H)
  <2>1. \A c : [Reply(code, hs, body) EXCEPT !.headers = c] = Reply(code, c, body)
    BY ReplyHeaders, Zenon
  <2>2. Reply(code, hs, body).headers = hs
    BY DEF Reply
  <2>3. Add(Reply(code, hs, body), "Via", seq[i].value) =
          [Reply(code, hs, body) EXCEPT
             !.headers = Append(Reply(code, hs, body).headers, Header("Via", seq[i].value))]
    BY DEF Add
  <2>4. Append(hs, Header("Via", seq[i].value)) \in Seq(H)
    BY <1>2
  <2> QED BY <2>1, <2>2, <2>3, <2>4
<1>5. PICK a : ViaRun(A, base, seq, N, a)
  <2>1. ViaSteps(A, seq, N)
    <3>1. ASSUME NEW i \in 1 .. N, NEW x \in A
          PROVE  Add(x, "Via", seq[i].value) \in A
      <4>1. PICK hs \in Seq(H) : x = Reply(code, hs, body)
        OBVIOUS
      <4> HIDE DEF N
      <4> QED BY <1>4, <4>1
    <3> HIDE DEF A, N
    <3> QED BY <3>1 DEF ViaSteps
  <2> HIDE DEF N, A, base
  <2> QED BY <1>1, <1>3, <2>1, ViaFold
<1>6. a[0] = base /\ \A k \in 1 .. N : a[k] = Add(a[k - 1], "Via", seq[k].value)
  BY <1>5, Zenon DEF ViaRun
<1>7. a[0] = b[0]
  BY <1>1, <1>6
<1>8. ASSUME NEW k \in 1 .. N, a[k - 1] = b[k - 1] PROVE a[k] = b[k]
  <2> DEFINE n == k - 1
             t == [i \in 1 .. n |-> Header("Via", seq[i].value)]
             x == Header("Via", seq[k].value)
  <2>1. n \in Nat /\ n + 1 = k /\ n \in 0 .. N /\ k \in 0 .. N
    BY <1>1
  <2>2. a[n] = Reply(code, t, body)
    BY <1>8, <2>1
  <2>3. b[k] = Reply(code, [i \in 1 .. k |-> Header("Via", seq[i].value)], body)
    BY <2>1
  <2>4. t \in Seq(H) /\ Len(t) = n /\ x \in H
    <3>1. \A i \in 1 .. n : i \in 1 .. N
      BY <2>1
    <3> QED BY <1>2, <2>1, <3>1
  <2>5. a[k] = Reply(code, Append(t, x), body)
    <3> HIDE DEF t, N
    <3> QED BY <1>4, <1>6, <2>2, <2>4
  <2>6. Append(t, x) = [i \in 1 .. k |-> Header("Via", seq[i].value)]
    <3>1. Append(t, x) = [i \in 1 .. n + 1 |-> IF i = n + 1 THEN x ELSE t[i]]
      <4> HIDE DEF t, x
      <4> QED BY <2>4, AppendIs
    <3>2. \A i \in 1 .. n + 1 : (IF i = n + 1 THEN x ELSE t[i]) = Header("Via", seq[i].value)
      BY <2>1
    <3> HIDE DEF t, n, x
    <3> QED BY <2>1, <3>1, <3>2
  <2> HIDE DEF t, b
  <2> QED BY <2>3, <2>5, <2>6
<1>9. a[N] = b[N]
  <2> HIDE DEF b, N
  <2>1. Lockstep(N, a, b)
    BY <1>7, <1>8 DEF Lockstep
  <2> QED BY <1>1, <2>1, RunsAgree
<1>10. b[N] = Reply(code, vias, body)
  BY <1>1
<1>11. CopyVias(Reply(code, <<>>, body), m) = Reply(code, vias, body)
  <2>1. a[N] = FoldLeft(LAMBDA r, h : Add(r, "Via", h.value), base, seq)
    BY ONLY <1>5, Zenon DEF ViaRun
  <2>2. CopyVias(Reply(code, <<>>, body), m) = a[N]
    BY ONLY <2>1, Zenon DEF CopyVias, GetAll, base, seq
  <2> HIDE DEF b, vias
  <2> QED BY <1>9, <1>10, <2>2
<1>12. ViasOf(m) = vias
  BY Zenon DEF ViasOf, seq
<1>13. /\ vias \in Seq(H) /\ Len(vias) = N
       /\ \A i \in 1 .. Len(vias) : vias[i].name = "Via"
  <2>1. \A i \in 1 .. N : Header("Via", seq[i].value).name = "Via"
    BY DEF Header
  <2> QED BY <1>1, <1>2, <2>1
<1> HIDE DEF vias
<1>14. ASSUME NEW x \in Copied
       PROVE  Keep(vias, x, TRUE) = IF x = "Via" THEN vias ELSE <<>>
  <2>0. IEquals("Via", x) <=> x = "Via"
    BY CopiedDiffer DEF Copied
  <2>1. CASE x = "Via"
    <3>1. \A i \in 1 .. Len(vias) : IEquals(vias[i].name, x) = TRUE
      BY <1>13, <2>0, <2>1
    <3> QED BY <1>13, <2>1, <3>1, KeepAll
  <2>2. CASE x # "Via"
    <3>1. \A i \in 1 .. Len(vias) : IEquals(vias[i].name, x) # TRUE
      BY <1>13, <2>0, <2>2
    <3> QED BY <1>13, <2>2, <3>1, KeepNone
  <2> QED BY <2>1, <2>2
<1> QED BY <1>11, <1>12, <1>13, <1>14 DEF H

\* The headers of the response to m.
Replied(W, m, code, hs) ==
  /\ hs \in Seq(HeadersOf(W))
  /\ Keep(hs, "Via", TRUE) = ViasOf(m)
  /\ \A n \in {"From", "Call-ID", "CSeq"} :
       Keep(hs, n, TRUE) = IF Has(m, n) THEN <<Header(n, Get(m, n))>> ELSE <<>>
  /\ Keep(hs, "To", TRUE) = IF Has(m, "To") THEN <<Header("To", ToValue(m, code))>> ELSE <<>>

\* The headers of a response.
LEMMA ResponseFiled ==
  ASSUME NEW W, Tag \in W, NEW m, m.headers \in Seq(HeadersOf(W)), NEW code, NEW body
  PROVE  \E hs : MakeResponse(m, code, body) = Reply(code, hs, body) /\ Replied(W, m, code, hs)
<1>0. "From" \in Copied /\ "Call-ID" \in Copied /\ "CSeq" \in Copied /\ "To" \in Copied /\ "Via" \in Copied
  BY DEF Copied
<1>a. ASSUME NEW hs \in Seq(HeadersOf(W)), NEW n \in Copied
      PROVE  \E hs2 : Copy(Reply(code, hs, body), m, n) = Reply(code, hs2, body)
                      /\ Filed(W, hs, Has(m, n), n, Get(m, n), hs2)
  BY CopyFiles
<1> DEFINE h1 == ViasOf(m)
<1>1. CopyVias(Reply(code, <<>>, body), m) = Reply(code, h1, body) /\ h1 \in Seq(HeadersOf(W))
  BY ViasFiled
<1>9. \A x \in Copied : Keep(h1, x, TRUE) = IF x = "Via" THEN ViasOf(m) ELSE <<>>
  BY ViasFiled
<1> HIDE DEF h1
<1>2. PICK h2 : Copy(Reply(code, h1, body), m, "From") = Reply(code, h2, body)
                /\ Filed(W, h1, Has(m, "From"), "From", Get(m, "From"), h2)
  BY <1>0, <1>1, <1>a
<1>3. h2 \in Seq(HeadersOf(W))
  BY <1>2 DEF Filed
<1>4. PICK h3 : CopyTo(Reply(code, h2, body), m, code) = Reply(code, h3, body)
                /\ Filed(W, h2, Has(m, "To"), "To", ToValue(m, code), h3)
  BY <1>3, CopyToFiles
<1>5. h3 \in Seq(HeadersOf(W))
  BY <1>4 DEF Filed
<1>6. PICK h4 : Copy(Reply(code, h3, body), m, "Call-ID") = Reply(code, h4, body)
                /\ Filed(W, h3, Has(m, "Call-ID"), "Call-ID", Get(m, "Call-ID"), h4)
  BY <1>0, <1>5, <1>a
<1>7. h4 \in Seq(HeadersOf(W))
  BY <1>6 DEF Filed
<1>8. PICK h5 : Copy(Reply(code, h4, body), m, "CSeq") = Reply(code, h5, body)
                /\ Filed(W, h4, Has(m, "CSeq"), "CSeq", Get(m, "CSeq"), h5)
  BY <1>0, <1>7, <1>a
<1>10. MakeResponse(m, code, body) = Reply(code, h5, body)
  <2>1. MakeResponse(m, code, body) =
          Copy(Copy(CopyTo(Copy(CopyVias(Reply(code, <<>>, body), m), m, "From"), m, code),
                    m, "Call-ID"), m, "CSeq")
    BY Zenon DEF MakeResponse, Reply
  <2> QED BY ONLY <1>1, <1>2, <1>4, <1>6, <1>8, <2>1
<1>11. Replied(W, m, code, h5)
  <2>1. ASSUME NEW x \in Copied
        PROVE  Keep(h5, x, TRUE) =
                 IF Has(m, "CSeq") /\ x = "CSeq" THEN <<Header("CSeq", Get(m, "CSeq"))>>
                 ELSE IF Has(m, "Call-ID") /\ x = "Call-ID" THEN <<Header("Call-ID", Get(m, "Call-ID"))>>
                 ELSE IF Has(m, "To") /\ x = "To" THEN <<Header("To", ToValue(m, code))>>
                 ELSE IF Has(m, "From") /\ x = "From" THEN <<Header("From", Get(m, "From"))>>
                 ELSE IF x = "Via" THEN ViasOf(m) ELSE <<>>
    <3>1. Keep(h2, x, TRUE) =
            IF Has(m, "From") /\ x = "From" THEN <<Header("From", Get(m, "From"))>> ELSE Keep(h1, x, TRUE)
      BY ONLY <1>2, x \in Copied, Zenon DEF Filed
    <3>2. Keep(h3, x, TRUE) =
            IF Has(m, "To") /\ x = "To" THEN <<Header("To", ToValue(m, code))>> ELSE Keep(h2, x, TRUE)
      BY ONLY <1>4, x \in Copied, Zenon DEF Filed
    <3>3. Keep(h4, x, TRUE) =
            IF Has(m, "Call-ID") /\ x = "Call-ID" THEN <<Header("Call-ID", Get(m, "Call-ID"))>>
            ELSE Keep(h3, x, TRUE)
      BY ONLY <1>6, x \in Copied, Zenon DEF Filed
    <3>4. Keep(h5, x, TRUE) =
            IF Has(m, "CSeq") /\ x = "CSeq" THEN <<Header("CSeq", Get(m, "CSeq"))>> ELSE Keep(h4, x, TRUE)
      BY ONLY <1>8, x \in Copied, Zenon DEF Filed
    <3>5. Keep(h1, x, TRUE) = IF x = "Via" THEN ViasOf(m) ELSE <<>>
      BY <1>9
    <3> QED BY ONLY <3>1, <3>2, <3>3, <3>4, <3>5
  <2>2. h5 \in Seq(HeadersOf(W))
    BY <1>8 DEF Filed
  <2>3. /\ Keep(h5, "Via", TRUE) = ViasOf(m)
        /\ Keep(h5, "From", TRUE) = IF Has(m, "From") THEN <<Header("From", Get(m, "From"))>> ELSE <<>>
        /\ Keep(h5, "Call-ID", TRUE) =
             IF Has(m, "Call-ID") THEN <<Header("Call-ID", Get(m, "Call-ID"))>> ELSE <<>>
        /\ Keep(h5, "CSeq", TRUE) = IF Has(m, "CSeq") THEN <<Header("CSeq", Get(m, "CSeq"))>> ELSE <<>>
        /\ Keep(h5, "To", TRUE) = IF Has(m, "To") THEN <<Header("To", ToValue(m, code))>> ELSE <<>>
    BY ONLY <1>0, <2>1
  <2> QED BY <2>2, <2>3 DEF Replied
<1> QED BY <1>10, <1>11

-----------------------------------------------------------------------------
(* What the caller reads *)

AtMostOneTag(words) ==
  \A j, k \in 1 .. Len(words) : words[j] = Tag /\ words[k] = Tag => j = k

TagsOnce(m) ==
  \A i \in 1 .. Len(m.headers) :
    IEquals(m.headers[i].name, "To") => AtMostOneTag(m.headers[i].value)

\* A To header with one tag at most leaves with one.
LEMMA ToTagged ==
  ASSUME NEW W, NEW m, m.headers \in Seq(HeadersOf(W)), Tag \in W, TagsOnce(m), Has(m, "To"),
         NEW code, code # 100
  PROVE  ToValue(m, code) \in Seq(W) /\ OneTag(ToValue(m, code))
<1> DEFINE to == Get(m, "To")
<1>1. to \in Seq(W) /\ AtMostOneTag(to)
  <2>1. PICK i \in 1 .. Len(m.headers) : to = m.headers[i].value /\ IEquals(m.headers[i].name, "To")
    BY GetIsThere
  <2> QED BY <2>1, GetType DEF TagsOnce
<1> HIDE DEF to
<1>2. CASE Tag \in ToSet(to)
  <2>1. ToValue(m, code) = to
    BY <1>2 DEF ToValue, to
  <2>2. PICK k \in 1 .. Len(to) : to[k] = Tag
    BY <1>1, <1>2 DEF ToSet
  <2> QED BY <1>1, <2>1, <2>2 DEF OneTag, AtMostOneTag
<1>3. CASE Tag \notin ToSet(to)
  <2>1. ToValue(m, code) = Append(to, Tag)
    BY <1>3 DEF ToValue, to
  <2> DEFINE v == Append(to, Tag)
             n == Len(to)
  <2>2. /\ v \in Seq(W) /\ Len(v) = n + 1 /\ v[n + 1] = Tag /\ n \in Nat
        /\ \A j \in 1 .. n : v[j] = to[j] /\ to[j] # Tag
    BY <1>1, <1>3 DEF ToSet
  <2> HIDE DEF v, n
  <2>3. OneTag(v)
    BY <2>2 DEF OneTag
  <2> QED BY <2>1, <2>2, <2>3 DEF v
<1> QED BY <1>2, <1>3

ValuesOf(m, name) ==
  LET all == GetAll(m, name) IN [i \in 1 .. Len(all) |-> Trim(all[i].value)]

FirstOf(m, name) == IF Has(m, name) THEN Trim(Get(m, name)) ELSE <<>>

\* What ResponsesReadBack says of one response to request.
ReadsAs(r, code, request) ==
  LET back == ParseSip(Serialize(r))
  IN  /\ back # NoMessage
      /\ back.start = [form |-> "status", code |-> code]
      /\ ValuesOf(back, "Via") = ValuesOf(request, "Via")
      /\ \A name \in {"From", "Call-ID", "CSeq"} : FirstOf(back, name) = FirstOf(request, name)
      /\ Has(back, "To") /\ back.start.code > 100 =>
           Cardinality({k \in 1 .. Len(Get(back, "To")) : Get(back, "To")[k] = Tag}) = 1

\* The caller reads from a response the identifiers of the request.
LEMMA ResponseReadsBack ==
  ASSUME NEW W, Nat \subseteq W, Tag \in W,
         NEW m, m.headers \in Seq(HeadersOf(W)), TagsOnce(m),
         NEW code \in Nat, NEW L, NEW body \in Seq(L)
  PROVE  /\ ReadsAs(MakeResponse(m, code, body), code, m)
         /\ ParseSip(Serialize(MakeResponse(m, code, body))).body = body
<1>1. PICK hs : MakeResponse(m, code, body) = Reply(code, hs, body) /\ Replied(W, m, code, hs)
  BY ResponseFiled
<1> DEFINE r == MakeResponse(m, code, body)
           T == Reread(W)
           back == ParseSip(Serialize(r))
           bhs == Append(Mapped(Others(hs), T), Measure(body))
<1>2. hs \in Seq(HeadersOf(W))
  BY <1>1 DEF Replied
<1>3. back = Reply(code, bhs, body)
  BY <1>1, <1>2, RoundTrip
<1> HIDE DEF back, bhs, r
<1>4. /\ back.headers = bhs /\ back.body = body /\ back.start = [form |-> "status", code |-> code]
      /\ back.start.code = code
  BY <1>3 DEF Reply
<1>5. back # NoMessage
  <2>1. "body" \in DOMAIN back
    BY <1>3 DEF Reply
  <2>2. "body" \notin DOMAIN NoMessage
    BY DEF NoMessage
  <2> QED BY <2>1, <2>2
<1>6. ASSUME NEW name \in Copied
      PROVE  GetAll(back, name) = Mapped(Keep(hs, name, TRUE), T)
  <2>1. Keep(bhs, name, TRUE) = Mapped(Keep(hs, name, TRUE), T)
    <3>1. ~IEquals("Content-Length", name)
      BY CopiedDiffer
    <3>2. Keep(Append(Mapped(Others(hs), Reread(W)), Measure(body)), name, TRUE) =
            IF IEquals("Content-Length", name) THEN <<Measure(body)>>
            ELSE Mapped(Keep(hs, name, TRUE), Reread(W))
      BY ONLY <1>2, Nat \subseteq W, body \in Seq(L), OtherNames, Zenon
    <3> QED BY ONLY <3>1, <3>2 DEF bhs, T
  <2> QED BY <1>4, <2>1 DEF GetAll
<1>7. ASSUME NEW x \in HeadersOf(W)
      PROVE  /\ Mapped(<<x>>, T) = <<Header(x.name, Trim(x.value))>>
             /\ Mapped(<<x>>, T)[1].value = Trim(x.value)
  <2>1. T[x] = Header(x.name, Trim(x.value))
    BY RereadType DEF T
  <2> HIDE DEF T
  <2>2. Mapped(<<x>>, T) = <<T[x]>>
    BY DEF Mapped
  <2> QED BY <2>1, <2>2 DEF Header
<1>8. Mapped(<<>>, T) = <<>>
  BY DEF Mapped
<1>9. ValuesOf(back, "Via") = ValuesOf(m, "Via")
  <2> DEFINE vias == Keep(m.headers, "Via", TRUE)
             N == Len(vias)
  <2>1. vias \in Seq(HeadersOf(W))
    BY KeepType
  <2> HIDE DEF vias
  <2>2. N \in Nat /\ \A i \in 1 .. N : vias[i] \in HeadersOf(W) /\ vias[i].value \in Seq(W)
    <3>1. N \in Nat /\ \A i \in 1 .. N : vias[i] \in HeadersOf(W)
      BY <2>1
    <3>2. \A h \in HeadersOf(W) : h.value \in Seq(W)
      BY DEF HeadersOf
    <3> QED BY <3>1, <3>2
  <2>3. ViasOf(m) = [i \in 1 .. N |-> Header("Via", vias[i].value)]
    BY Zenon DEF ViasOf, vias
  <2>4. \A i \in 1 .. N : Header("Via", vias[i].value) \in HeadersOf(W)
    BY <2>2 DEF Header, HeadersOf, Names
  <2>5. GetAll(back, "Via") = [i \in 1 .. N |-> T[Header("Via", vias[i].value)]]
    <3>1. GetAll(back, "Via") = Mapped(ViasOf(m), T)
      BY <1>1, <1>6 DEF Replied, Copied
    <3>2. Len(ViasOf(m)) = N /\ \A i \in 1 .. N : ViasOf(m)[i] = Header("Via", vias[i].value)
      BY <2>2, <2>3
    <3> HIDE DEF T, N
    <3> QED BY <3>1, <3>2 DEF Mapped
  <2>6. \A i \in 1 .. N : T[Header("Via", vias[i].value)].value = Trim(vias[i].value)
    <3> TAKE i \in 1 .. N
    <3>1. Header("Via", vias[i].value) \in HeadersOf(W)
      BY <2>4
    <3>2. Header("Via", vias[i].value).value = vias[i].value
      BY DEF Header
    <3> QED BY <3>1, <3>2, RereadType
  <2>7. ValuesOf(back, "Via") = [i \in 1 .. N |-> Trim(Trim(vias[i].value))]
    <3> DEFINE all == GetAll(back, "Via")
    <3>1. Len(all) = N /\ \A i \in 1 .. N : all[i].value = Trim(vias[i].value)
      <4> HIDE DEF T, N
      <4>1. N \in Nat
        BY <2>2
      <4> QED BY <2>5, <2>6, <4>1
    <3>2. ValuesOf(back, "Via") = [i \in 1 .. Len(all) |-> Trim(all[i].value)]
      BY Zenon DEF ValuesOf
    <3> HIDE DEF all, N
    <3> QED BY <3>1, <3>2
  <2>8. ValuesOf(m, "Via") = [i \in 1 .. N |-> Trim(vias[i].value)]
    BY Zenon DEF ValuesOf, GetAll, vias
  <2>9. \A i \in 1 .. N : Trim(Trim(vias[i].value)) = Trim(vias[i].value)
    BY <2>2, TrimTwice
  <2> HIDE DEF N
  <2> QED BY <2>7, <2>8, <2>9
<1>10. ASSUME NEW name \in {"From", "Call-ID", "CSeq"}
       PROVE  FirstOf(back, name) = FirstOf(m, name)
  <2>0. name \in Copied
    BY DEF Copied
  <2>1. CASE Has(m, name)
    <3> DEFINE x == Header(name, Get(m, name))
    <3>1. Get(m, name) \in Seq(W)
      BY <2>1, GetType
    <3>2. x \in HeadersOf(W) /\ x.name = name /\ x.value = Get(m, name)
      BY <2>0, <3>1, CopiedDiffer DEF Header, HeadersOf
    <3> HIDE DEF x
    <3>3. GetAll(back, name) = Mapped(<<x>>, T)
      BY <1>1, <1>6, <2>0, <2>1 DEF Replied, x
    <3>4. GetAll(back, name) = <<Header(name, Trim(Get(m, name)))>>
      BY <1>7, <3>2, <3>3
    <3>5. Has(back, name) /\ Get(back, name) = Trim(Get(m, name))
      BY <3>4 DEF Has, Get, Header
    <3> QED BY <2>1, <3>1, <3>5, TrimTwice DEF FirstOf
  <2>2. CASE ~Has(m, name)
    <3>1. GetAll(back, name) = <<>>
      BY <1>1, <1>6, <1>8, <2>0, <2>2 DEF Replied
    <3>2. ~Has(back, name)
      BY <3>1 DEF Has
    <3> QED BY <2>2, <3>2 DEF FirstOf
  <2> QED BY <2>1, <2>2
<1>11. ASSUME Has(back, "To"), code > 100
       PROVE  Cardinality({k \in 1 .. Len(Get(back, "To")) : Get(back, "To")[k] = Tag}) = 1
  <2>0. "To" \in Copied /\ code # 100
    BY <1>11 DEF Copied
  <2>1. Has(m, "To")
    <3>1. CASE ~Has(m, "To")
      <4>1. GetAll(back, "To") = <<>>
        BY <1>1, <1>6, <1>8, <2>0, <3>1 DEF Replied
      <4> QED BY <1>11, <4>1 DEF Has
    <3> QED BY <3>1
  <2> DEFINE v == ToValue(m, code)
             x == Header("To", v)
             u == Trim(v)
  <2>2. v \in Seq(W) /\ OneTag(v)
    BY <2>0, <2>1, ToTagged
  <2> HIDE DEF v
  <2>3. x \in HeadersOf(W) /\ x.name = "To" /\ x.value = v
    BY <2>0, <2>2, CopiedDiffer DEF Header, HeadersOf
  <2> HIDE DEF x
  <2>4. GetAll(back, "To") = Mapped(<<x>>, T)
    BY <1>1, <1>6, <2>0, <2>1 DEF Replied, x, v
  <2>5. Get(back, "To") = u
    BY <1>7, <2>3, <2>4 DEF Get
  <2>6. OneTag(u)
    BY <2>2, TrimKeepsTag
  <2> HIDE DEF u
  <2>7. PICK k \in 1 .. Len(u) : u[k] = Tag /\ \A j \in 1 .. Len(u) : u[j] = Tag => j = k
    BY <2>6 DEF OneTag
  <2>8. {j \in 1 .. Len(u) : u[j] = Tag} = {k}
    BY <2>7
  <2> QED BY <2>5, <2>8, FS_Singleton
<1>12. ReadsAs(r, code, m)
  BY <1>4, <1>5, <1>9, <1>10, <1>11 DEF ReadsAs, back
<1> QED BY <1>4, <1>12 DEF back, r

-----------------------------------------------------------------------------
(* The datagrams that come *)

Words == Nat \union {"p", "q", "x", "ann", "bob", Tag, Blank} \union CallIds \union BadCSeqs

\* What makes a header one that SipUas can read.
Sound(h) ==
  /\ IEquals(h.name, "To") => AtMostOneTag(h.value)
  /\ IEquals(h.name, "Call-ID") /\ Len(h.value) = 1 => h.value[1] \in CallIds
  /\ IEquals(h.name, "CSeq") => Len(h.value) >= 1 /\ h.value[1] \in CSeqs \union BadCSeqs

SoundHeaders == {h \in HeadersOf(Words) : Sound(h)}

SoundLines ==
  {NoiseLine} \union {FoldedLine(word) : word \in Words \ {Tag}}
  \union {line \in {HeaderLine(n, words) : n \in Names, words \in Seq(Words)} :
            Header(line.name, Trim(line.words)) \in SoundHeaders}

\* Trim adds no tag.
LEMMA TrimKeepsAtMostOne ==
  ASSUME NEW W, NEW words \in Seq(W), AtMostOneTag(words)
  PROVE  AtMostOneTag(Trim(words))
<1>1. CASE Solid(words) = {}
  BY <1>1, TrimShape DEF AtMostOneTag
<1>2. CASE Solid(words) # {}
  <2> DEFINE t == Trim(words)
  <2>1. PICK lo, hi : TrimmedFrom(words, t, lo, hi)
    BY <1>2, TrimShape DEF Trimmed
  <2> HIDE DEF t
  <2>2. lo \in 1 .. Len(words) /\ hi \in lo .. Len(words) /\ Len(t) = (hi - lo) + 1
        /\ Len(words) \in Nat
        /\ \A i \in 1 .. (hi - lo) + 1 : t[i] = words[(i + lo) - 1]
    BY <2>1 DEF TrimmedFrom
  <2>3. ASSUME NEW j \in 1 .. Len(t), NEW k \in 1 .. Len(t), t[j] = Tag, t[k] = Tag
        PROVE  j = k
    <3> DEFINE a == (j + lo) - 1
               b == (k + lo) - 1
    <3>1. a \in 1 .. Len(words) /\ b \in 1 .. Len(words) /\ (a = b => j = k)
      BY <2>2
    <3>2. words[a] = Tag /\ words[b] = Tag
      BY <2>2, <2>3
    <3> HIDE DEF a, b
    <3> QED BY <3>1, <3>2 DEF AtMostOneTag
  <2> QED BY <2>3 DEF AtMostOneTag, t
<1> QED BY <1>1, <1>2

\* A line that continues a header leaves it sound.
Continued(h, word) == [h EXCEPT !.value = @ \o <<Blank, word>>]

\* A folded line leaves a header sound.
LEMMA ContinuedSound ==
  ASSUME NEW h \in SoundHeaders, NEW word \in Words, word # Tag
  PROVE  Continued(h, word) \in SoundHeaders
<1> DEFINE v == h.value
           n == Len(v)
           w == v \o <<Blank, word>>
           h2 == Continued(h, word)
<1>1. h.name \in Names /\ v \in Seq(Words) /\ Sound(h) /\ n \in Nat
  BY DEF SoundHeaders, HeadersOf
<1>2. Blank \in Words
  BY DEF Words
<1>3. /\ w \in Seq(Words) /\ Len(w) = n + 2 /\ \A i \in 1 .. n : w[i] = v[i]
      /\ w[n + 1] = Blank /\ w[n + 2] = word
  <2> HIDE DEF v
  <2>1. <<Blank, word>> \in Seq(Words) /\ Len(<<Blank, word>>) = 2
    BY <1>2
  <2> DEFINE e == <<Blank, word>>
  <2>2. e[1] = Blank /\ e[2] = word
    OBVIOUS
  <2> HIDE DEF e
  <2>3. e \in Seq(Words) /\ Len(e) = 2
    BY <2>1 DEF e
  <2>4. w = v \o e
    BY DEF e
  <2>5. v \o e \in Seq(Words) /\ Len(v \o e) = n + 2
        /\ \A i \in 1 .. n + 2 : (v \o e)[i] = IF i <= n THEN v[i] ELSE e[i - n]
    <3> HIDE DEF n
    <3>1. v \in Seq(Words) /\ e \in Seq(Words) /\ Len(e) = 2 /\ Len(v) = n
      BY <1>1, <2>3 DEF n
    <3>2. /\ v \o e \in Seq(Words) /\ Len(v \o e) = Len(v) + Len(e)
          /\ \A i \in 1 .. Len(v) + Len(e) : (v \o e)[i] = IF i <= Len(v) THEN v[i] ELSE e[i - Len(v)]
      BY ONLY <3>1, ConcatProperties, Zenon
    <3> QED BY ONLY <3>1, <3>2
  <2> HIDE DEF w, n
  <2>6. (n + 1) - n = 1 /\ (n + 2) - n = 2 /\ n + 1 \in 1 .. n + 2 /\ n + 2 \in 1 .. n + 2
        /\ ~(n + 1 <= n) /\ ~(n + 2 <= n) /\ \A i \in 1 .. n : i \in 1 .. n + 2 /\ i <= n
    BY <1>1
  <2> QED BY <2>2, <2>4, <2>5, <2>6
<1>4. h2 = [name |-> h.name, value |-> w]
  <2>1. h = [name |-> h.name, value |-> h.value]
    BY DEF SoundHeaders, HeadersOf
  <2> HIDE DEF w
  <2>2. [h EXCEPT !.value = w] = [name |-> h.name, value |-> w]
    BY <2>1
  <2>3. h2 = [h EXCEPT !.value = w]
    BY Zenon DEF Continued, w, v, h2
  <2> HIDE DEF h2
  <2> QED BY ONLY <2>2, <2>3
<1> HIDE DEF w, v, n, h2
<1>5. h2 \in HeadersOf(Words) /\ h2.name = h.name /\ h2.value = w
  BY <1>1, <1>3, <1>4 DEF HeadersOf
<1>6. IEquals(h.name, "To") => AtMostOneTag(w)
  <2> SUFFICES ASSUME IEquals(h.name, "To") PROVE AtMostOneTag(w)
    OBVIOUS
  <2>1. AtMostOneTag(v)
    BY <1>1 DEF Sound, v
  <2>2. w[n + 1] # Tag /\ w[n + 2] # Tag
    BY <1>3, WordAssumption
  <2>3. ASSUME NEW j \in 1 .. n + 2, w[j] = Tag PROVE j \in 1 .. n /\ v[j] = Tag
    <3>1. j # n + 1 /\ j # n + 2
      BY <2>2, <2>3
    <3>2. j \in 1 .. n
      BY <1>1, <3>1
    <3> QED BY <1>3, <2>3, <3>2
  <2> QED BY <1>3, <2>1, <2>3 DEF AtMostOneTag, n
<1>7. IEquals(h.name, "CSeq") => Len(w) >= 1 /\ w[1] \in CSeqs \union BadCSeqs
  <2> SUFFICES ASSUME IEquals(h.name, "CSeq") PROVE Len(w) >= 1 /\ w[1] \in CSeqs \union BadCSeqs
    OBVIOUS
  <2>1. n >= 1 /\ v[1] \in CSeqs \union BadCSeqs
    BY <1>1 DEF Sound, v, n
  <2>2. 1 \in 1 .. n
    BY <1>1, <2>1
  <2> QED BY <1>1, <1>3, <2>1, <2>2
<1>8. Len(w) # 1
  BY <1>1, <1>3
<1>9. Sound(h2)
  BY <1>5, <1>6, <1>7, <1>8 DEF Sound
<1> QED BY <1>5, <1>9 DEF SoundHeaders, h2

SoundParse == [ok : BOOLEAN, headers : Seq(SoundHeaders)]

\* A line of the header section leaves the headers sound.
LEMMA LineKeepsSound ==
  ASSUME NEW acc \in SoundParse, NEW line \in SoundLines
  PROVE  ParseHeaderLine(acc, line) \in SoundParse
<1>0. acc.ok \in BOOLEAN /\ acc.headers \in Seq(SoundHeaders)
      /\ acc = [ok |-> acc.ok, headers |-> acc.headers]
  BY DEF SoundParse
<1>1. CASE line.form = "header"
  <2>1. Header(line.name, Trim(line.words)) \in SoundHeaders
    BY <1>1 DEF SoundLines, NoiseLine, FoldedLine
  <2>2. ParseHeaderLine(acc, line) =
          [acc EXCEPT !.headers = Append(acc.headers, Header(line.name, Trim(line.words)))]
    BY <1>1 DEF ParseHeaderLine
  <2>3. Append(acc.headers, Header(line.name, Trim(line.words))) \in Seq(SoundHeaders)
    BY <1>0, <2>1
  <2> QED BY <1>0, <2>2, <2>3 DEF SoundParse
<1>2. CASE line.form = "folded" /\ acc.headers # <<>>
  <2>1. PICK word \in Words \ {Tag} : line.word = word
    BY <1>2 DEF SoundLines, NoiseLine, FoldedLine, HeaderLine
  <2> DEFINE hs == acc.headers
             n == Len(hs)
             hs2 == [hs EXCEPT ![n].value = @ \o <<Blank, word>>]
  <2>2. hs \in Seq(SoundHeaders) /\ n \in Nat /\ n >= 1 /\ n \in 1 .. n /\ hs[n] \in SoundHeaders
    BY <1>0, <1>2
  <2>3. Continued(hs[n], word) \in SoundHeaders
    BY <2>1, <2>2, ContinuedSound
  <2>4. hs2 = [hs EXCEPT ![n] = Continued(hs[n], word)]
    BY DEF Continued
  <2>5. hs2 \in Seq(SoundHeaders)
    <3> DEFINE y == Continued(hs[n], word)
    <3>1. y \in SoundHeaders /\ hs2 = [hs EXCEPT ![n] = y]
      BY <2>3, <2>4
    <3> HIDE DEF y, hs2, hs
    <3> QED BY ONLY <2>2, <3>1
  <2>6. ParseHeaderLine(acc, line) = [acc EXCEPT !.headers = hs2]
    BY <1>2, <2>1 DEF ParseHeaderLine, Unfold
  <2> HIDE DEF hs2
  <2> QED BY <1>0, <2>5, <2>6 DEF SoundParse
<1>3. CASE ~(line.form = "header") /\ ~(line.form = "folded" /\ acc.headers # <<>>)
  <2>1. ParseHeaderLine(acc, line) = [acc EXCEPT !.ok = FALSE]
    BY <1>3, Zenon DEF ParseHeaderLine
  <2> QED BY <1>0, <2>1 DEF SoundParse
<1> QED BY <1>1, <1>2, <1>3

\* Sound lines parse to sound headers.
LEMMA SoundLinesParse ==
  ASSUME NEW lines \in Seq(SoundLines)
  PROVE  ParseHeaders(lines).headers \in Seq(SoundHeaders)
<1> DEFINE N == Len(lines)
           A == SoundParse
           base == [ok |-> TRUE, headers |-> <<>>]
<1>1. N \in Nat /\ DOMAIN lines = 1 .. N /\ \A i \in 1 .. N : lines[i] \in SoundLines
  OBVIOUS
<1>2. base \in A
  BY DEF SoundParse
<1>3. HeaderSteps(A, lines, N)
  BY <1>1, LineKeepsSound DEF HeaderSteps
<1> HIDE DEF A, base, N
<1>4. PICK a : HeaderRun(A, base, lines, N, a)
  BY <1>1, <1>2, <1>3, HeaderFold
<1>5. a \in [0 .. N -> A] /\ a[N] = FoldLeft(ParseHeaderLine, base, lines)
  BY <1>4, Zenon DEF HeaderRun
<1>6. ParseHeaders(lines) = a[N]
  BY ONLY <1>5, Zenon DEF ParseHeaders, base
<1>7. N \in 0 .. N
  BY <1>1
<1> QED BY <1>5, <1>6, <1>7 DEF A, SoundParse

Hosts == {"127.0.0.1", "10.0.0.1", "origin", "host", "other"}

SdpLines ==
  [type : {"o", "c"}, addr : Hosts]
  \union [type : {"m"}, media : {"audio", "video"}, port : Nat, pts : Seq(Nat)]
  \union [type : {"rtpmap"}, pt : Nat \ {Garbage}, name : {"telephone-event", "opus", "pcmu", "pcma"}]
  \union [type : {"ptime"}, ms : Nat] \union {Blankline}

Readable(dg) ==
  /\ dg.lines \in Seq(SoundLines)
  /\ dg.start.form = "request" => dg.start.method \in Methods
  /\ dg.body \in Seq(SdpLines)

\* A line is sound when its header is.
LEMMA SoundLine ==
  ASSUME NEW n \in Names, NEW words \in Seq(Words), Sound(Header(n, Trim(words)))
  PROVE  HeaderLine(n, words) \in SoundLines
<1> DEFINE line == HeaderLine(n, words)
<1>1. line.name = n /\ line.words = words
  BY DEF HeaderLine
<1>2. Header(n, Trim(words)) \in SoundHeaders
  <2>1. Trim(words) \in Seq(Words)
    BY TrimShape
  <2>2. Header(n, Trim(words)) \in HeadersOf(Words)
    BY <2>1 DEF Header, HeadersOf
  <2> QED BY <2>2 DEF SoundHeaders
<1>3. line \in {HeaderLine(a, b) : a \in Names, b \in Seq(Words)}
  OBVIOUS
<1> HIDE DEF line
<1>4. line \in SoundLines
  BY <1>1, <1>2, <1>3 DEF SoundLines
<1> QED BY <1>4 DEF line

\* Lines of one word, of none and of two.
LEMMA OneWord ==
  ASSUME NEW n \in Names, NEW w \in Words,
         IEquals(n, "Call-ID") => w \in CallIds,
         IEquals(n, "CSeq") => w \in CSeqs \union BadCSeqs
  PROVE  HeaderLine(n, <<w>>) \in SoundLines
<1> DEFINE t == Trim(<<w>>)
           h == Header(n, t)
<1>1. <<w>> \in Seq(Words)
  OBVIOUS
<1>2. t = <<w>> \/ (t = <<>> /\ w = Blank)
  BY TrimOne
<1>3. Blank \notin CSeqs \union BadCSeqs
  BY BlankAssumption, WordAssumption, HeaderAssumption
<1> HIDE DEF t
<1>4. h.name = n /\ h.value = t
  BY DEF Header
<1>5. AtMostOneTag(t)
  BY <1>2 DEF AtMostOneTag
<1>6. Len(t) = 1 => t[1] = w
  BY <1>2
<1>7. IEquals(n, "CSeq") => Len(t) >= 1 /\ t[1] = w
  BY <1>2, <1>3
<1> HIDE DEF h
<1>8. Sound(h)
  BY <1>4, <1>5, <1>6, <1>7 DEF Sound
<1> QED BY <1>1, <1>8, SoundLine DEF h, t

\* A header line without a value,
LEMMA NoWord ==
  ASSUME NEW n \in Names, ~IEquals(n, "CSeq")
  PROVE  HeaderLine(n, <<>>) \in SoundLines
<1>1. <<>> \in Seq(Words)
  OBVIOUS
<1>2. Trim(<<>>) = <<>>
  BY TrimOne
<1>3. Sound(Header(n, Trim(<<>>)))
  <2> DEFINE t == Trim(<<>>)
             h == Header(n, t)
  <2>1. Len(t) = 0 /\ h.name = n /\ h.value = t
    BY <1>2 DEF Header
  <2> HIDE DEF t, h
  <2>2. AtMostOneTag(t)
    BY <2>1 DEF AtMostOneTag
  <2>3. Sound(h)
    BY <2>1, <2>2 DEF Sound
  <2> QED BY <2>3 DEF h, t
<1> QED BY <1>1, <1>3, SoundLine

\* and one of two words.
LEMMA TwoWords ==
  ASSUME NEW n \in {"Via", "To"}, NEW v \in Words, NEW w \in Words, v # Tag
  PROVE  HeaderLine(n, <<v, w>>) \in SoundLines
<1> DEFINE words == <<v, w>>
<1>1. words \in Seq(Words) /\ AtMostOneTag(words)
  BY DEF AtMostOneTag
<1> HIDE DEF words
<1>2. AtMostOneTag(Trim(words))
  BY <1>1, TrimKeepsAtMostOne
<1>3. Sound(Header(n, Trim(words)))
  BY <1>2 DEF Sound, Header, IEquals, ProperName
<1>4. n \in Names
  BY DEF Names
<1> QED BY <1>1, <1>3, <1>4, SoundLine DEF words

\* The lines that the plain requests have.
LEMMA CommonLines ==
  /\ Addresses \in Seq(SoundLines)
  /\ \A cid \in CallIds \union {NoHeader} : OptionalLine("Call-ID", cid) \in Seq(SoundLines)
  /\ \A cseq \in CSeqs \union BadCSeqs \union {NoHeader} : OptionalLine("CSeq", cseq) \in Seq(SoundLines)
  /\ <<HeaderLine("Via", <<"p">>)>> \in Seq(SoundLines)
<1>1. \A n \in {"Via", "From", "To"} : n \in Names /\ ~IEquals(n, "Call-ID") /\ ~IEquals(n, "CSeq")
  BY DEF Names, IEquals, ProperName
<1>2. {"p", "ann", "bob"} \union CallIds \union CSeqs \union BadCSeqs \subseteq Words
  BY HeaderAssumption DEF Words
<1>3. HeaderLine("From", <<"ann">>) \in SoundLines /\ HeaderLine("To", <<"bob">>) \in SoundLines
      /\ HeaderLine("Via", <<"p">>) \in SoundLines
  BY <1>1, <1>2, OneWord
<1>4. ASSUME NEW cid \in CallIds PROVE HeaderLine("Call-ID", <<cid>>) \in SoundLines
  <2>1. "Call-ID" \in Names /\ ~IEquals("Call-ID", "CSeq")
    BY DEF Names, IEquals, ProperName
  <2>2. cid \in Words
    BY <1>2
  <2> QED BY <2>1, <2>2, OneWord
<1>5. ASSUME NEW cseq \in CSeqs \union BadCSeqs PROVE HeaderLine("CSeq", <<cseq>>) \in SoundLines
  <2>1. "CSeq" \in Names /\ ~IEquals("CSeq", "Call-ID")
    BY DEF Names, IEquals, ProperName
  <2>2. cseq \in Words
    BY <1>2
  <2> QED BY <2>1, <2>2, OneWord
<1> HIDE DEF SoundLines
<1>6. Addresses \in Seq(SoundLines)
  BY <1>3 DEF Addresses
<1>7. ASSUME NEW cid \in CallIds \union {NoHeader} PROVE OptionalLine("Call-ID", cid) \in Seq(SoundLines)
  <2>1. CASE cid = NoHeader
    BY <2>1 DEF OptionalLine
  <2>2. CASE cid # NoHeader
    <3>1. HeaderLine("Call-ID", <<cid>>) \in SoundLines
      BY <2>2, <1>4
    <3> QED BY <2>2, <3>1 DEF OptionalLine
  <2> QED BY <2>1, <2>2
<1>8. ASSUME NEW cseq \in CSeqs \union BadCSeqs \union {NoHeader}
      PROVE  OptionalLine("CSeq", cseq) \in Seq(SoundLines)
  <2>1. CASE cseq = NoHeader
    BY <2>1 DEF OptionalLine
  <2>2. CASE cseq # NoHeader
    <3>1. HeaderLine("CSeq", <<cseq>>) \in SoundLines
      BY <2>2, <1>5
    <3> QED BY <2>2, <3>1 DEF OptionalLine
  <2> QED BY <2>1, <2>2
<1> QED BY <1>3, <1>6, <1>7, <1>8

\* Every plain request is readable.
LEMMA PlainReadable ==
  ASSUME NEW method \in Methods, NEW cid \in CallIds \union {NoHeader},
         NEW cseq \in CSeqs \union BadCSeqs \union {NoHeader}, NEW body \in Seq(SdpLines)
  PROVE  Readable(Plain(method, cid, cseq, body))
<1> DEFINE a == <<HeaderLine("Via", <<"p">>)>>
           b == Addresses
           c == OptionalLine("Call-ID", cid)
           d == OptionalLine("CSeq", cseq)
           dg == Plain(method, cid, cseq, body)
<1>1. a \in Seq(SoundLines) /\ b \in Seq(SoundLines) /\ c \in Seq(SoundLines) /\ d \in Seq(SoundLines)
  BY CommonLines
<1>2. /\ dg.lines = a \o b \o c \o d
      /\ dg.start = [form |-> "request", method |-> method] /\ dg.body = body
  BY DEF Plain, RequestStart
<1> HIDE DEF a, b, c, d, dg
<1>3. a \o b \o c \o d \in Seq(SoundLines)
  BY <1>1
<1>4. Readable(dg)
  BY <1>2, <1>3 DEF Readable
<1> QED BY <1>4 DEF dg

\* Bodies.
LEMMA AudioType ==
  ASSUME NEW port \in Nat, NEW pts \in Seq(Nat)
  PROVE  Audio(port, pts) \in SdpLines
BY DEF Audio, SdpLines

\* The bodies of the plain requests.
LEMMA Bodies ==
  /\ GoodBody \in Seq(SdpLines)
  /\ BadBodies \subseteq Seq(SdpLines)
  /\ <<>> \in Seq(SdpLines)
<1>1. Audio(5000, <<0>>) \in SdpLines /\ Audio(5000, <<18>>) \in SdpLines
  <2> DEFINE port == 5000
             a == <<0>>
             b == <<18>>
  <2>1. port \in Nat /\ a \in Seq(Nat) /\ b \in Seq(Nat)
    OBVIOUS
  <2> HIDE DEF port, a, b
  <2>2. Audio(port, a) \in SdpLines /\ Audio(port, b) \in SdpLines
    BY <2>1, AudioType
  <2> QED BY <2>2 DEF port, a, b
<1>2. [type |-> "c", addr |-> "host"] \in SdpLines
  BY DEF SdpLines, Hosts
<1> HIDE DEF SdpLines
<1> QED BY <1>1, <1>2 DEF GoodBody, BadBodies

\* So every plain datagram is.
LEMMA PlainDatagramsReadable ==
  ASSUME NEW dg \in PlainDatagrams
  PROVE  Readable(dg)
<1>0. \A cid \in PlainCallIds : cid \in CallIds
  BY DEF PlainCallIds
<1>1. "INVITE" \in Methods /\ 1 \in CSeqs
  BY CSeqAssumption DEF Methods
<1>2. ASSUME NEW method \in Methods, NEW cid \in PlainCallIds \union {NoHeader},
             NEW cseq \in CSeqs \union BadCSeqs \union {NoHeader}, NEW body \in Seq(SdpLines)
      PROVE  Readable(Plain(method, cid, cseq, body))
  <2>1. cid \in CallIds \union {NoHeader}
    BY <1>0
  <2> QED BY <2>1, PlainReadable
<1>5. CASE dg \in {Plain("INVITE", cid, cseq, GoodBody) :
        cid \in PlainCallIds \union {NoHeader}, cseq \in CSeqs \union BadCSeqs \union {NoHeader}}
  <2>1. PICK cid \in PlainCallIds \union {NoHeader}, cseq \in CSeqs \union BadCSeqs \union {NoHeader} :
          dg = Plain("INVITE", cid, cseq, GoodBody)
    BY <1>5
  <2>2. GoodBody \in Seq(SdpLines)
    BY Bodies
  <2> QED BY <1>1, <1>2, <2>1, <2>2
<1>6. CASE dg \in {Plain("INVITE", cid, cseq, body) :
        cid \in PlainCallIds, cseq \in CSeqs, body \in BadBodies}
  <2>1. PICK cid \in PlainCallIds, cseq \in CSeqs, body \in BadBodies :
          dg = Plain("INVITE", cid, cseq, body)
    BY <1>6
  <2>2. body \in Seq(SdpLines)
    BY Bodies
  <2> QED BY <1>1, <1>2, <2>1, <2>2
<1>7. CASE dg \in {Plain(method, cid, cseq, <<>>) :
        method \in Methods \ {"INVITE"}, cid \in PlainCallIds \union {NoHeader}, cseq \in {1, NoHeader}}
  <2>1. PICK method \in Methods, cid \in PlainCallIds \union {NoHeader}, cseq \in {1, NoHeader} :
          dg = Plain(method, cid, cseq, <<>>)
    BY <1>7
  <2>2. <<>> \in Seq(SdpLines)
    BY Bodies
  <2> QED BY <1>1, <1>2, <2>1, <2>2
<1> QED BY <1>5, <1>6, <1>7 DEF PlainDatagrams

\* The odd datagrams are readable too.
LEMMA IsReadable ==
  ASSUME NEW start, NEW lines \in Seq(SoundLines), NEW blank, NEW body \in Seq(SdpLines),
         start.form = "request" => start.method \in Methods
  PROVE  Readable([start |-> start, lines |-> lines, blank |-> blank, body |-> body])
BY DEF Readable

\* The Via lines of the odd datagrams,
LEMMA ViasSound == Vias \subseteq Seq(SoundLines)
<1>1. \A n \in {"v", "VIA", "Via"} : n \in Names /\ ~IEquals(n, "Call-ID") /\ ~IEquals(n, "CSeq")
  BY DEF Names, IEquals, ProperName
<1>2. {"p", "q", "x", Blank} \subseteq Words
  BY DEF Words
<1>3. HeaderLine("v", <<"p">>) \in SoundLines /\ HeaderLine("VIA", <<"p">>) \in SoundLines
      /\ HeaderLine("Via", <<"p">>) \in SoundLines /\ HeaderLine("Via", <<"q">>) \in SoundLines
  BY <1>1, <1>2, OneWord
<1>4. HeaderLine("Via", <<>>) \in SoundLines
  BY <1>1, NoWord
<1>5. HeaderLine("Via", <<Blank, "q">>) \in SoundLines
  BY <1>2, TwoWords, WordAssumption
<1>6. FoldedLine("x") \in SoundLines /\ FoldedLine("p") \in SoundLines /\ NoiseLine \in SoundLines
  BY <1>2, WordAssumption DEF SoundLines
<1> HIDE DEF SoundLines
<1> QED BY <1>3, <1>4, <1>5, <1>6 DEF Vias

\* their Call-ID lines, the folded one too,
LEMMA IdsSound ==
  ASSUME NEW id \in CallIds
  PROVE  Ids(id) \subseteq Seq(SoundLines)
<1>1. \A n \in {"Call-ID", "CALL-ID", "i"} : n \in Names /\ ~IEquals(n, "CSeq")
  BY DEF Names, IEquals, ProperName
<1>2. id \in Words /\ FoldedCallId \in CallIds /\ FoldedCallId \in Words
  BY FoldedCallIdAssumption DEF Words
<1>3. HeaderLine("Call-ID", <<id>>) \in SoundLines /\ HeaderLine("i", <<id>>) \in SoundLines
      /\ HeaderLine("CALL-ID", <<FoldedCallId>>) \in SoundLines
  BY <1>1, <1>2, OneWord
<1>4. HeaderLine("CALL-ID", <<>>) \in SoundLines
  BY <1>1, NoWord
<1>5. FoldedLine(id) \in SoundLines
  BY <1>2, WordAssumption DEF SoundLines
<1> HIDE DEF SoundLines
<1> QED BY <1>3, <1>4, <1>5 DEF Ids

\* and their Content-Length lines.
LEMMA LengthsSound == Lengths \subseteq Seq(SoundLines)
<1> DEFINE none == CHOOSE word \in BadCSeqs : TRUE
           length(word) == HeaderLine("Content-Length", <<word>>)
<1>1. none \in BadCSeqs
  BY CSeqAssumption
<1>2. "Content-Length" \in Names /\ ~IEquals("Content-Length", "Call-ID")
      /\ ~IEquals("Content-Length", "CSeq")
  BY DEF Names, IEquals, ProperName
<1> HIDE DEF none
<1>3. ASSUME NEW word \in Nat \union BadCSeqs PROVE length(word) \in SoundLines
  <2>1. word \in Words
    BY DEF Words
  <2> QED BY <1>2, <2>1, OneWord
<1> HIDE DEF length, SoundLines
<1>4. length(1) \in SoundLines /\ length(2) \in SoundLines /\ length(3) \in SoundLines
      /\ length(none) \in SoundLines
  BY <1>1, <1>3
<1>5. HeaderLine("Content-Length", <<>>) \in SoundLines /\ FoldedLine(1) \in SoundLines
  <2>1. 1 \in Words /\ 1 # Tag
    BY WordAssumption DEF Words
  <2> QED BY <1>2, <2>1, NoWord DEF SoundLines
<1>6. {<<>>, <<length(2)>>, <<length(1)>>, <<length(3)>>, <<length(none)>>,
       <<length(2), length(3)>>, <<HeaderLine("Content-Length", <<>>), FoldedLine(1)>>}
        \subseteq Seq(SoundLines)
  BY <1>4, <1>5
<1> QED BY <1>6 DEF Lengths, length, none

\* What has odd header lines is readable,
LEMMA OddHeadersReadable ==
  ASSUME NEW dg \in OddHeaders
  PROVE  Readable(dg)
<1>0. ASSUME NEW id \in PlainCallIds PROVE id \in CallIds /\ OneId(id) \in Seq(SoundLines)
  <2>1. id \in CallIds /\ id \in Words
    BY DEF PlainCallIds, Words
  <2>2. "Call-ID" \in Names /\ ~IEquals("Call-ID", "CSeq")
    BY DEF Names, IEquals, ProperName
  <2>3. HeaderLine("Call-ID", <<id>>) \in SoundLines
    BY <2>1, <2>2, OneWord
  <2> HIDE DEF SoundLines
  <2> QED BY <2>1, <2>3 DEF OneId
<1>2. Stacked \subseteq Seq(SoundLines)
  <2> SUFFICES ASSUME NEW ls \in Stacked PROVE ls \in Seq(SoundLines)
    OBVIOUS
  <2>1. PICK vias \in Vias, ids \in UNION {Ids(id) : id \in PlainCallIds} : ls = vias \o Addresses \o ids
    BY DEF Stacked
  <2>2. PICK id \in PlainCallIds : ids \in Ids(id)
    BY <2>1
  <2>3. vias \in Seq(SoundLines) /\ Addresses \in Seq(SoundLines)
    BY ViasSound, CommonLines
  <2>4. ids \in Seq(SoundLines)
    <3>1. id \in CallIds
      BY DEF PlainCallIds
    <3>2. Ids(id) \subseteq Seq(SoundLines)
      BY <3>1, IdsSound
    <3> QED BY <2>2, <3>2
  <2> HIDE DEF SoundLines
  <2> QED BY <2>1, <2>3, <2>4
<1>3. InDialog \subseteq Seq(SoundLines)
  <2>1. "bob" \in Words /\ Tag \in Words /\ "bob" # Tag
    BY WordAssumption DEF Words
  <2>2. HeaderLine("To", <<"bob", Tag>>) \in SoundLines
    BY <2>1, TwoWords
  <2> HIDE DEF SoundLines
  <2>3. <<HeaderLine("To", <<"bob", Tag>>)>> \in Seq(SoundLines)
    BY <2>2
  <2> QED BY <1>0, <2>3 DEF InDialog
<1>4. Measured \subseteq Seq(SoundLines)
  <2> SUFFICES ASSUME NEW ls \in Measured PROVE ls \in Seq(SoundLines)
    OBVIOUS
  <2>1. PICK id \in PlainCallIds, length \in Lengths : ls = OneId(id) \o length
    BY DEF Measured
  <2>2. OneId(id) \in Seq(SoundLines) /\ length \in Seq(SoundLines)
    BY <1>0, LengthsSound
  <2> HIDE DEF SoundLines
  <2> QED BY <2>1, <2>2
<1>5. HeaderLine("CSeq", <<1>>) \in SoundLines
  <2>1. "CSeq" \in Names /\ ~IEquals("CSeq", "Call-ID") /\ 1 \in Words /\ 1 \in CSeqs
    BY CSeqAssumption DEF Names, IEquals, ProperName, Words
  <2> QED BY <2>1, OneWord
<1>6. ASSUME NEW ls \in Stacked \union InDialog \union Measured PROVE Readable(FirstInvite(ls))
  <2>1. ls \in Seq(SoundLines) /\ <<HeaderLine("CSeq", <<1>>)>> \in Seq(SoundLines)
    <3> HIDE DEF SoundLines
    <3> QED BY <1>2, <1>3, <1>4, <1>5
  <2> DEFINE ls2 == ls \o <<HeaderLine("CSeq", <<1>>)>>
             start == RequestStart("INVITE")
  <2>2. ls2 \in Seq(SoundLines)
    BY <2>1
  <2>3. start.form = "request" => start.method \in Methods
    BY DEF RequestStart, Methods
  <2> HIDE DEF ls2, start
  <2>4. Readable([start |-> start, lines |-> ls2, blank |-> TRUE, body |-> GoodBody])
    BY <2>2, <2>3, Bodies, IsReadable
  <2> QED BY <2>4 DEF ls2, start, FirstInvite
<1>7. ASSUME NEW start \in Starts, NEW blank \in BOOLEAN PROVE Readable(Bare(start, blank))
  <2>1. start.form = "request" => start.method \in Methods
    BY DEF RequestStart, Methods, Starts
  <2> DEFINE e == <<>>
  <2>2. e \in Seq(SoundLines) /\ e \in Seq(SdpLines)
    OBVIOUS
  <2> HIDE DEF e
  <2>3. Readable([start |-> start, lines |-> e, blank |-> blank, body |-> e])
    BY <2>1, <2>2, IsReadable
  <2> QED BY <2>3 DEF e, Bare
<1>8. CASE dg \in {FirstInvite(ls) : ls \in Stacked \union InDialog \union Measured}
  <2>1. PICK ls \in Stacked \union InDialog \union Measured : dg = FirstInvite(ls)
    BY <1>8
  <2> QED BY <1>6, <2>1
<1>9. CASE dg \in {Bare(start, blank) : start \in Starts, blank \in BOOLEAN}
  <2>1. PICK start \in Starts, blank \in BOOLEAN : dg = Bare(start, blank)
    BY <1>9
  <2> QED BY <1>7, <2>1
<1> QED BY <1>8, <1>9 DEF OddHeaders

\* and what has an odd body.
LEMMA OddBodiesReadable ==
  ASSUME NEW dg \in OddBodies
  PROVE  Readable(dg)
<1> DEFINE bodies == SeqOf(BodyLines, 2) \union {OfferHead \o lines : lines \in SeqOf(BodyLines, 3)}
<1>1. PICK body \in bodies : dg = Plain("INVITE", AnyPlainCallId, 1, body)
  BY DEF OddBodies
<1>2. AnyPlainCallId \in PlainCallIds
  BY FoldedCallIdAssumption DEF PlainCallIds, AnyPlainCallId
<1>3. AnyPlainCallId \in CallIds \union {NoHeader}
  BY <1>2 DEF PlainCallIds
<1>4. BodyLines \subseteq SdpLines
  <2>1. Garbage \in Nat /\ <<0, 101>> \in Seq(Nat) /\ <<3, 8>> \in Seq(Nat) /\ <<Garbage>> \in Seq(Nat)
        /\ <<>> \in Seq(Nat) /\ <<8>> \in Seq(Nat) /\ 5000 \in Nat /\ 70000 \in Nat
    BY DEF Garbage
  <2> DEFINE a == <<0, 101>>
             b == <<3, 8>>
             c == <<Garbage>>
             d == <<>>
             e == <<8>>
             g == Garbage
  <2>2. g \in Nat /\ a \in Seq(Nat) /\ b \in Seq(Nat) /\ c \in Seq(Nat) /\ d \in Seq(Nat) /\ e \in Seq(Nat)
    BY <2>1
  <2> HIDE DEF a, b, c, d, e, g
  <2>3. Audio(5000, a) \in SdpLines /\ Audio(70000, b) \in SdpLines /\ Audio(g, c) \in SdpLines
        /\ Audio(5000, d) \in SdpLines
    BY <2>2, AudioType
  <2>4. /\ [type |-> "o", addr |-> "origin"] \in SdpLines /\ [type |-> "c", addr |-> "other"] \in SdpLines
        /\ Blankline \in SdpLines
        /\ [type |-> "m", media |-> "video", port |-> 6000, pts |-> e] \in SdpLines
        /\ [type |-> "rtpmap", pt |-> 101, name |-> "telephone-event"] \in SdpLines
        /\ [type |-> "rtpmap", pt |-> 8, name |-> "telephone-event"] \in SdpLines
        /\ [type |-> "rtpmap", pt |-> 96, name |-> "opus"] \in SdpLines
        /\ [type |-> "ptime", ms |-> g] \in SdpLines /\ [type |-> "ptime", ms |-> 30] \in SdpLines
    BY <2>2 DEF SdpLines, Hosts, Garbage
  <2> HIDE DEF SdpLines
  <2>5. Audio(5000, <<0, 101>>) \in SdpLines /\ Audio(70000, <<3, 8>>) \in SdpLines
        /\ Audio(Garbage, <<Garbage>>) \in SdpLines /\ Audio(5000, <<>>) \in SdpLines
    BY <2>3 DEF a, b, c, d, g
  <2>6. /\ [type |-> "m", media |-> "video", port |-> 6000, pts |-> <<8>>] \in SdpLines
        /\ [type |-> "ptime", ms |-> Garbage] \in SdpLines
    BY <2>4 DEF e, g
  <2> HIDE DEF SdpLines
  <2> QED BY <2>4, <2>5, <2>6 DEF BodyLines
<1>5. body \in Seq(SdpLines)
  <2>0. ASSUME NEW n \in Nat, NEW s \in SeqOf(BodyLines, n) PROVE s \in Seq(SdpLines)
    <3>1. PICK m \in 0 .. n : s \in [1 .. m -> BodyLines]
      BY DEF SeqOf
    <3>2. s \in [1 .. m -> SdpLines] /\ m \in Nat
      BY <1>4, <3>1
    <3> HIDE DEF SdpLines
    <3> QED BY <3>2
  <2>1. OfferHead \in Seq(SdpLines)
    <3>1. [type |-> "o", addr |-> "origin"] \in SdpLines /\ [type |-> "c", addr |-> "host"] \in SdpLines
      BY DEF SdpLines, Hosts
    <3> HIDE DEF SdpLines
    <3> QED BY <3>1 DEF OfferHead
  <2>2. CASE body \in SeqOf(BodyLines, 2)
    BY <2>0, <2>2
  <2>3. CASE body \in {OfferHead \o lines : lines \in SeqOf(BodyLines, 3)}
    <3>1. PICK lines \in SeqOf(BodyLines, 3) : body = OfferHead \o lines
      BY <2>3
    <3>2. lines \in Seq(SdpLines)
      BY <2>0
    <3> HIDE DEF SdpLines
    <3> QED BY <2>1, <3>1, <3>2
  <2> QED BY <2>2, <2>3
<1>6. "INVITE" \in Methods /\ 1 \in CSeqs
  BY CSeqAssumption DEF Methods
<1> HIDE DEF bodies
<1> QED BY <1>1, <1>3, <1>5, <1>6, PlainReadable

-----------------------------------------------------------------------------
(* The messages that come *)

Fine(m) ==
  /\ m = [isRequest |-> TRUE, start |-> m.start, headers |-> m.headers, body |-> m.body]
  /\ m.start.method \in Methods
  /\ m.headers \in Seq(SoundHeaders)
  /\ m.body \in Seq(SdpLines)

\* A part of a body is a body.
LEMMA PrefixType ==
  ASSUME NEW S, NEW s \in Seq(S), NEW n \in Nat, n <= Len(s)
  PROVE  SubSeq(s, 1, n) \in Seq(S)
OBVIOUS

\* A readable datagram that parses to a request parses to a fine one.
LEMMA ReadFine ==
  ASSUME NEW dg, Readable(dg), ParseSip(dg).isRequest
  PROVE  Fine(ParseSip(dg))
<1> DEFINE parsed == ParseHeaders(dg.lines)
           request == dg.start.form = "request"
           msg0 == [isRequest |-> request, start |-> dg.start,
                    headers |-> parsed.headers, body |-> dg.body]
           body == Declared(msg0, dg.body)
           good == dg.blank /\ dg.start.form # "garbled" /\ parsed.ok /\ LengthHolds(msg0, dg.body)
<1>1. ParseSip(dg) = IF good THEN [msg0 EXCEPT !.body = body] ELSE NoMessage
  BY Zenon DEF ParseSip
<1>2. parsed.headers \in Seq(SoundHeaders)
  BY SoundLinesParse DEF Readable
<1>3. NoMessage.isRequest = FALSE
  BY DEF NoMessage
<1>4. dg.body \in Seq(SdpLines)
  BY DEF Readable
<1> HIDE DEF parsed
<1>5. msg0.isRequest = request /\ msg0.start = dg.start /\ msg0.headers = parsed.headers
  OBVIOUS
<1>6. [msg0 EXCEPT !.body = body] =
        [isRequest |-> request, start |-> dg.start, headers |-> parsed.headers, body |-> body]
  <2> HIDE DEF request, body
  <2> QED OBVIOUS
<1> HIDE DEF msg0
<1>7. good /\ request
  <2> HIDE DEF good, body, request
  <2>1. good
    BY <1>1, <1>3
  <2>2. ParseSip(dg) = [isRequest |-> request, start |-> dg.start, headers |-> parsed.headers, body |-> body]
    BY <1>1, <1>6, <2>1
  <2> QED BY <2>1, <2>2
<1>8. body \in Seq(SdpLines)
  <2>1. CASE Has(msg0, "Content-Length")
    <3> DEFINE n == Number(Get(msg0, "Content-Length"))
    <3>1. n \in Nat /\ n <= Len(dg.body)
      BY <1>7, <2>1 DEF LengthHolds, IsNumber, Number
    <3> HIDE DEF n
    <3>2. SubSeq(dg.body, 1, n) \in Seq(SdpLines)
      BY <1>4, <3>1, PrefixType
    <3> QED BY <2>1, <3>2 DEF Declared, n
  <2>2. CASE ~Has(msg0, "Content-Length")
    BY <1>4, <2>2 DEF Declared
  <2> QED BY <2>1, <2>2
<1> DEFINE m == ParseSip(dg)
<1>9. m = [isRequest |-> TRUE, start |-> dg.start, headers |-> parsed.headers, body |-> body]
  BY <1>1, <1>6, <1>7
<1>10. dg.start.method \in Methods
  BY <1>7 DEF Readable
<1> HIDE DEF m, body
<1> QED BY <1>2, <1>8, <1>9, <1>10 DEF Fine, m

\* Of a fine message SipUas can read the headers.
LEMMA FineHeaders ==
  ASSUME NEW m, Fine(m)
  PROVE  m.headers \in Seq(HeadersOf(Words)) /\ TagsOnce(m)
<1>1. m.headers \in Seq(SoundHeaders) /\ SoundHeaders \subseteq HeadersOf(Words)
  BY DEF Fine, SoundHeaders
<1>2. m.headers \in Seq(HeadersOf(Words))
  <2> HIDE DEF SoundHeaders
  <2> QED BY <1>1
<1>3. \A i \in 1 .. Len(m.headers) : Sound(m.headers[i])
  <2>1. \A i \in 1 .. Len(m.headers) : m.headers[i] \in SoundHeaders
    BY <1>1
  <2> QED BY <2>1 DEF SoundHeaders
<1> QED BY <1>2, <1>3 DEF TagsOnce, Sound

\* What SipUas tells apart of a fine message is a request of module SipUas.
LEMMA FineRequest ==
  ASSUME NEW m, Fine(m)
  PROVE  /\ RequestOf(m) \in Requests
         /\ RequestOf(m).method = m.start.method
         /\ RequestOf(m).offer = Outcome(m.body)
<1>1. m.headers \in Seq(SoundHeaders) /\ m.start.method \in Methods
  BY DEF Fine
<1>2. ASSUME NEW name, Has(m, name)
      PROVE  \E h \in SoundHeaders : Get(m, name) = h.value /\ IEquals(h.name, name)
  <2>1. PICK i \in 1 .. Len(m.headers) :
          Get(m, name) = m.headers[i].value /\ IEquals(m.headers[i].name, name)
    BY <1>1, <1>2, GetIsThere
  <2>2. m.headers[i] \in SoundHeaders
    BY <1>1
  <2> QED BY <2>1, <2>2
<1> DEFINE cid == IF Has(m, "Call-ID") THEN CallIdOf(Get(m, "Call-ID")) ELSE NoHeader
           cseq == IF Has(m, "CSeq") THEN Get(m, "CSeq")[1] ELSE NoHeader
           offer == Outcome(m.body)
<1>3. cid \in CallIds \union {NoHeader}
  <2>1. CASE Has(m, "Call-ID")
    <3>1. PICK h \in SoundHeaders : Get(m, "Call-ID") = h.value /\ IEquals(h.name, "Call-ID")
      BY <1>2, <2>1
    <3>2. Len(h.value) = 1 => h.value[1] \in CallIds
      BY <3>1 DEF SoundHeaders, Sound
    <3> QED BY <2>1, <3>1, <3>2, FoldedCallIdAssumption DEF CallIdOf
  <2> QED BY <2>1
<1>4. cseq \in CSeqs \union BadCSeqs \union {NoHeader}
  <2>1. CASE Has(m, "CSeq")
    <3>1. PICK h \in SoundHeaders : Get(m, "CSeq") = h.value /\ IEquals(h.name, "CSeq")
      BY <1>2, <2>1
    <3>2. h.value[1] \in CSeqs \union BadCSeqs
      BY <3>1 DEF SoundHeaders, Sound
    <3> QED BY <2>1, <3>1, <3>2
  <2> QED BY <2>1
<1>5. offer \in Offers
  BY DEF Outcome, Offers
<1>6. RequestOf(m) = [method |-> m.start.method, cid |-> cid, cseq |-> cseq, offer |-> offer]
  BY Zenon DEF RequestOf
<1> HIDE DEF cid, cseq, offer
<1>7. RequestOf(m) \in Requests
  BY <1>1, <1>3, <1>4, <1>5, <1>6 DEF Requests
<1> QED BY <1>6, <1>7 DEF offer

\* Every request that comes is fine.
LEMMA Comes ==
  ASSUME NEW m \in OddMessages \union PlainMessages, m.isRequest
  PROVE  Fine(m)
<1>1. PICK dg \in OddHeaders \union OddBodies \union PlainDatagrams : m = ParseSip(dg)
  BY DEF OddMessages, PlainMessages
<1>2. Readable(dg)
  BY <1>1, OddHeadersReadable, OddBodiesReadable, PlainDatagramsReadable
<1> QED BY <1>1, <1>2, ReadFine

\* One iteration of the loop: a request is handled, or nothing changes.
LEMMA Iteration ==
  ASSUME ServerNext
  PROVE  \/ \E m : Fine(m) /\ Process(m) /\ msg' = m
         \/ Discard
<1>1. PICK m \in OddMessages \union PlainMessages : Receive(m)
  BY DEF ServerNext, Open, Serve
<1>2. CASE m.isRequest
  BY <1>1, <1>2, Comes DEF Receive
<1>3. CASE ~m.isRequest
  BY <1>1, <1>3 DEF Receive
<1> QED BY <1>2, <1>3

\* A step of the loop is one of the agent, or leaves it alone.
LEMMA ServerStep ==
  [ServerNext]_serverVars => [Next]_vars
<1>1. CASE ServerNext
  <2>1. CASE \E m : Fine(m) /\ Process(m) /\ msg' = m
    <3>1. PICK m : Fine(m) /\ Process(m)
      BY <2>1
    <3>2. Handle(RequestOf(m)) /\ RequestOf(m) \in Requests
      BY <3>1, FineRequest DEF Process
    <3> QED BY <3>2 DEF Next
  <2>2. CASE Discard
    BY <2>2 DEF Discard
  <2> QED BY <1>1, <2>1, <2>2, Iteration
<1>2. CASE UNCHANGED serverVars
  BY <1>2 DEF serverVars
<1> QED BY <1>1, <1>2

\* main.cpp: whatever comes, the loop drives SipUas as the module of the agent says.
THEOREM ServerImplementsAgent == ServerSpec => Spec
<1>1. ServerInit => Init
  BY DEF ServerInit
<1> QED BY <1>1, ServerStep, PTL DEF ServerSpec, Spec

-----------------------------------------------------------------------------
(* Offers and answers *)

Sessions ==
  [connectionAddress : Hosts, audioPort : Nat, payloadTypes : Seq(Nat), ptimeMs : Nat,
   dtmfPayloadType : (Nat \ {Garbage}) \union {-1}]

Formats(pts) == [i \in DOMAIN pts |-> Atoi(pts[i])]

\* A line with formats the parser takes.
Speech(line) == line.type = "m" /\ line.media = "audio" /\ line.pts # <<>>

Event(line) == line.type = "rtpmap" /\ line.name = "telephone-event"

Port(line) == Atoi(line.port) % 65536

\* What a line does to each part of the session.
Effect(s, line, t) ==
  /\ t \in Sessions
  /\ t.connectionAddress = IF line.type \in {"o", "c"} THEN line.addr ELSE s.connectionAddress
  /\ t.audioPort = IF Speech(line) THEN Port(line) ELSE s.audioPort
  /\ t.payloadTypes = IF Speech(line) THEN s.payloadTypes \o Formats(line.pts) ELSE s.payloadTypes
  /\ t.dtmfPayloadType = IF Event(line) THEN line.pt ELSE s.dtmfPayloadType

\* A number is a number.
LEMMA AtoiType ==
  ASSUME NEW n \in Nat
  PROVE  Atoi(n) \in Nat /\ (n # Garbage => Atoi(n) = n)
BY DEF Atoi

\* The formats of a section as numbers.
LEMMA FormatsType ==
  ASSUME NEW pts \in Seq(Nat)
  PROVE  /\ Formats(pts) \in Seq(Nat) /\ Len(Formats(pts)) = Len(pts)
         /\ \A i \in 1 .. Len(pts) : Formats(pts)[i] = Atoi(pts[i])
<1> DEFINE n == Len(pts)
           f == [i \in 1 .. n |-> Atoi(pts[i])]
<1>1. n \in Nat /\ DOMAIN pts = 1 .. n /\ \A i \in 1 .. n : pts[i] \in Nat
  OBVIOUS
<1>2. Formats(pts) = f
  BY <1>1 DEF Formats
<1>3. \A i \in 1 .. n : f[i] \in Nat /\ f[i] = Atoi(pts[i])
  BY <1>1, AtoiType
<1>4. f \in Seq(Nat) /\ Len(f) = n
  <2>1. f \in [1 .. n -> Nat]
    BY <1>3
  <2> HIDE DEF f, n
  <2> QED BY <1>1, <2>1
<1> HIDE DEF f
<1> QED BY <1>2, <1>3, <1>4

\* parseSdp does with each line what Effect says.
LEMMA LineEffect ==
  ASSUME NEW s \in Sessions, NEW line \in SdpLines
  PROVE  Effect(s, line, ParseLine(s, line))
<1> DEFINE t == ParseLine(s, line)
<1>0. s = [connectionAddress |-> s.connectionAddress, audioPort |-> s.audioPort,
           payloadTypes |-> s.payloadTypes, ptimeMs |-> s.ptimeMs,
           dtmfPayloadType |-> s.dtmfPayloadType]
      /\ s.connectionAddress \in Hosts /\ s.audioPort \in Nat /\ s.payloadTypes \in Seq(Nat)
      /\ s.ptimeMs \in Nat /\ s.dtmfPayloadType \in (Nat \ {Garbage}) \union {-1}
  BY DEF Sessions
<1>1. CASE line \in [type : {"o", "c"}, addr : Hosts]
  <2>1. line.type \in {"o", "c"} /\ line.addr \in Hosts
    BY <1>1
  <2>2. t = [s EXCEPT !.connectionAddress = line.addr]
    BY <2>1 DEF ParseLine
  <2> HIDE DEF t
  <2>3. ~Speech(line) /\ ~Event(line)
    BY <2>1 DEF Speech, Event
  <2> QED BY <1>0, <2>1, <2>2, <2>3 DEF Effect, Sessions, t
<1>2. CASE line \in [type : {"m"}, media : {"audio", "video"}, port : Nat, pts : Seq(Nat)]
  <2>1. line.type = "m" /\ line.port \in Nat /\ line.pts \in Seq(Nat)
    BY <1>2
  <2>2. ~Event(line) /\ line.type \notin {"o", "c"}
    BY <2>1 DEF Event
  <2>3. CASE Speech(line)
    <3> DEFINE port == Port(line)
               pts == s.payloadTypes \o Formats(line.pts)
    <3>1. port \in Nat /\ pts \in Seq(Nat)
      <4>1. Atoi(line.port) \in Nat
        BY <2>1, AtoiType
      <4>2. port \in Nat
        BY <4>1 DEF Port
      <4>3. Formats(line.pts) \in Seq(Nat)
        BY <2>1, FormatsType
      <4> QED BY <1>0, <4>2, <4>3
    <3>2. t = [s EXCEPT !.audioPort = port, !.payloadTypes = pts]
      BY <2>1, <2>3 DEF ParseLine, Speech, Formats, Port
    <3> HIDE DEF t
    <3>3. t.audioPort = port /\ t.payloadTypes = pts
      <4> HIDE DEF port, pts
      <4> QED BY <1>0, <3>2
    <3>4. /\ t \in Sessions /\ t.connectionAddress = s.connectionAddress
          /\ t.dtmfPayloadType = s.dtmfPayloadType
      <4> HIDE DEF port, pts
      <4> QED BY <1>0, <3>1, <3>2 DEF Sessions
    <3> QED BY <2>2, <2>3, <3>3, <3>4 DEF Effect, t
  <2>4. CASE ~Speech(line)
    <3>1. t = s
      BY <2>1, <2>4 DEF ParseLine, Speech
    <3> HIDE DEF t
    <3> QED BY <2>2, <2>4, <3>1 DEF Effect, t
  <2> QED BY <2>3, <2>4
<1>3. CASE line \in [type : {"rtpmap"}, pt : Nat \ {Garbage},
                     name : {"telephone-event", "opus", "pcmu", "pcma"}]
  <2>1. line.type = "rtpmap" /\ line.pt \in Nat /\ line.pt # Garbage
    BY <1>3
  <2>2. ~Speech(line) /\ line.type \notin {"o", "c"}
    BY <2>1 DEF Speech
  <2>3. CASE Event(line)
    <3>1. Atoi(line.pt) = line.pt
      BY <2>1, AtoiType
    <3>2. t = [s EXCEPT !.dtmfPayloadType = line.pt]
      BY <2>1, <2>3, <3>1 DEF ParseLine, Event
    <3> HIDE DEF t
    <3> QED BY <1>0, <2>1, <2>2, <2>3, <3>2 DEF Effect, Sessions, t
  <2>4. CASE ~Event(line)
    <3>1. t = s
      BY <2>1, <2>4 DEF ParseLine, Event
    <3> HIDE DEF t
    <3> QED BY <2>2, <2>4, <3>1 DEF Effect, t
  <2> QED BY <2>3, <2>4
<1>4. CASE line \in [type : {"ptime"}, ms : Nat]
  <2>1. line.type = "ptime" /\ Atoi(line.ms) \in Nat
    BY <1>4, AtoiType
  <2>2. t = [s EXCEPT !.ptimeMs = Atoi(line.ms)]
    BY <2>1 DEF ParseLine
  <2> HIDE DEF t
  <2>3. ~Speech(line) /\ ~Event(line) /\ line.type \notin {"o", "c"}
    BY <2>1 DEF Speech, Event
  <2> QED BY <1>0, <2>1, <2>2, <2>3 DEF Effect, Sessions, t
<1>5. CASE line = Blankline
  <2>1. line.type = "x"
    BY <1>5 DEF Blankline
  <2>2. t = s
    BY <2>1 DEF ParseLine
  <2> HIDE DEF t
  <2>3. ~Speech(line) /\ ~Event(line) /\ line.type \notin {"o", "c"}
    BY <2>1 DEF Speech, Event
  <2> QED BY <2>2, <2>3 DEF Effect, t
<1> QED BY <1>1, <1>2, <1>3, <1>4, <1>5 DEF SdpLines

\* Reading a body, line by line.
Reading(body, a) ==
  /\ a \in [0 .. Len(body) -> Sessions]
  /\ a[0] = EmptySession /\ a[Len(body)] = ParseSdp(body)
  /\ \A k \in 1 .. Len(body) : Effect(a[k - 1], body[k], a[k])

\* parseSdp reads a body line by line.
LEMMA Reads ==
  ASSUME NEW body \in Seq(SdpLines)
  PROVE  \E a : Reading(body, a)
<1> DEFINE N == Len(body)
           A == Sessions
<1>1. N \in Nat /\ DOMAIN body = 1 .. N /\ \A i \in 1 .. N : body[i] \in SdpLines
  OBVIOUS
<1>2. EmptySession \in A
  BY DEF EmptySession, Sessions, Hosts
<1>3. LineSteps(A, body, N)
  <2>1. \A i \in 1 .. N, x \in A : Effect(x, body[i], ParseLine(x, body[i]))
    BY <1>1, LineEffect
  <2> QED BY <2>1 DEF LineSteps, Effect
<1> HIDE DEF N, A
<1>4. PICK a : LineRun(A, EmptySession, body, N, a)
  BY <1>1, <1>2, <1>3, LineFold
<1>5. /\ a \in [0 .. N -> A] /\ a[0] = EmptySession
      /\ \A k \in 1 .. N : a[k] = ParseLine(a[k - 1], body[k])
  BY <1>4, Zenon DEF LineRun
<1>6. a[N] = ParseSdp(body)
  BY <1>4, Zenon DEF LineRun, ParseSdp
<1>7. \A k \in 1 .. N : Effect(a[k - 1], body[k], a[k])
  <2> TAKE k \in 1 .. N
  <2>1. k - 1 \in 0 .. N
    BY <1>1
  <2>2. a[k - 1] \in Sessions /\ body[k] \in SdpLines
    BY <1>1, <1>5, <2>1 DEF A
  <2> QED BY <1>5, <2>2, LineEffect
<1> QED BY <1>5, <1>6, <1>7 DEF Reading, N, A

\* It returns a session.
LEMMA ParsedType ==
  ASSUME NEW body \in Seq(SdpLines)
  PROVE  ParseSdp(body) \in Sessions
<1>1. PICK a : Reading(body, a)
  BY Reads
<1>2. Len(body) \in 0 .. Len(body)
  OBVIOUS
<1> QED BY <1>1, <1>2 DEF Reading

\* An answer has one format or two.
LEMMA FlattenOne ==
  ASSUME NEW x
  PROVE  FlattenSeq(<<x>>) = x
<1> DEFINE P(f) == f = [i \in 1 .. 1 |-> IF i = 1 THEN x ELSE f[i - 1] \o <<x>>[i]]
           flatten == CHOOSE f : P(f)
<1>1. P([i \in 1 .. 1 |-> x])
  OBVIOUS
<1>2. P(flatten)
  <2> HIDE DEF P
  <2> QED BY <1>1
<1>3. flatten[1] = x
  <2> HIDE DEF flatten
  <2> QED BY <1>2
<1> QED BY <1>3 DEF FlattenSeq

\* FlattenSeq joins two sequences,
LEMMA FlattenTwo ==
  ASSUME NEW x, NEW y
  PROVE  FlattenSeq(<<x, y>>) = x \o y
<1> DEFINE z == x \o y
           P(f) == f = [i \in 1 .. 2 |-> IF i = 1 THEN <<x, y>>[i] ELSE f[i - 1] \o <<x, y>>[i]]
           flatten == CHOOSE f : P(f)
<1>1. P([i \in 1 .. 2 |-> IF i = 1 THEN x ELSE z])
  <2> DEFINE g == [i \in 1 .. 2 |-> IF i = 1 THEN x ELSE z]
  <2>1. g[1] = x
    OBVIOUS
  <2>2. \A i \in 1 .. 2 : g[i] = IF i = 1 THEN <<x, y>>[i] ELSE g[i - 1] \o <<x, y>>[i]
    BY <2>1
  <2> QED BY <2>2
<1>2. P(flatten)
  <2> HIDE DEF P
  <2> QED BY <1>1
<1>3. flatten[1] = x
  <2> HIDE DEF flatten
  <2> QED BY <1>2
<1>4. flatten[2] = flatten[1] \o y
  <2> HIDE DEF flatten
  <2> DEFINE s == <<x, y>>
  <2>1. s[2] = y /\ 2 - 1 = 1 /\ 2 \in 1 .. 2 /\ 2 # 1
    OBVIOUS
  <2> HIDE DEF s
  <2>2. flatten = [i \in 1 .. 2 |-> IF i = 1 THEN s[i] ELSE flatten[i - 1] \o s[i]]
    BY <1>2 DEF s
  <2>3. flatten[2] = flatten[2 - 1] \o s[2]
    BY <2>1, <2>2
  <2> QED BY <2>1, <2>3
<1>5. FlattenSeq(<<x, y>>) = flatten[2]
  <2>1. Len(<<x, y>>) = 2
    OBVIOUS
  <2> QED BY <2>1 DEF FlattenSeq
<1> HIDE DEF flatten
<1> QED BY <1>3, <1>4, <1>5

-----------------------------------------------------------------------------
(* The answer, written and read *)

Joined(s, t, u) ==
  /\ Len(u) = Len(s) + Len(t)
  /\ \A i \in 1 .. Len(s) : i \in 1 .. Len(u) /\ u[i] = s[i]
  /\ \A i \in 1 .. Len(t) : Len(s) + i \in 1 .. Len(u) /\ u[Len(s) + i] = t[i]

\* Concatenation, index by index.
LEMMA Joins ==
  ASSUME NEW S, NEW s \in Seq(S), NEW t \in Seq(S)
  PROVE  s \o t \in Seq(S) /\ Joined(s, t, s \o t)
<1>1. /\ s \o t \in Seq(S) /\ Len(s \o t) = Len(s) + Len(t)
      /\ \A i \in 1 .. Len(s) + Len(t) : (s \o t)[i] = IF i <= Len(s) THEN s[i] ELSE t[i - Len(s)]
  BY ConcatProperties
<1> DEFINE u == s \o t
           m == Len(s)
           n == Len(t)
<1>2. m \in Nat /\ n \in Nat
  OBVIOUS
<1> HIDE DEF u, m, n
<1>3. Len(u) = m + n /\ \A i \in 1 .. m + n : u[i] = IF i <= m THEN s[i] ELSE t[i - m]
  BY <1>1 DEF u, m, n
<1>4. \A i \in 1 .. m : i \in 1 .. m + n /\ i <= m
  BY <1>2
<1>5. \A i \in 1 .. n : m + i \in 1 .. m + n /\ ~(m + i <= m) /\ (m + i) - m = i
  BY <1>2
<1>6. Len(u) = m + n /\ (\A i \in 1 .. m : i \in 1 .. Len(u) /\ u[i] = s[i])
      /\ \A i \in 1 .. n : m + i \in 1 .. Len(u) /\ u[m + i] = t[i]
  BY <1>3, <1>4, <1>5
<1> QED BY <1>1, <1>6 DEF Joined, u, m, n

\* also two of one member.
LEMMA PairJoins ==
  ASSUME NEW c, NEW d
  PROVE  <<c>> \o <<d>> = <<c, d>>
<1> DEFINE S == {c, d}
           x == <<c>>
           y == <<d>>
           u == x \o y
<1>1. x \in Seq(S) /\ y \in Seq(S) /\ Len(x) = 1 /\ Len(y) = 1 /\ x[1] = c /\ y[1] = d
  OBVIOUS
<1> HIDE DEF S, x, y
<1>2. u \in Seq(S) /\ Joined(x, y, u)
  BY <1>1, Joins
<1> HIDE DEF u
<1>3. Len(u) = 2 /\ u[1] = c /\ u[1 + 1] = d
  BY <1>1, <1>2 DEF Joined
<1>4. u = <<c, d>>
  BY <1>2, <1>3
<1> QED BY <1>4 DEF u, x, y

EventLine(d) == [type |-> "rtpmap", pt |-> d, name |-> "telephone-event"]

\* Lines that follow the m= line of an answer with the telephone event d.
Follows(d) ==
  {line \in SdpLines : line.type \notin {"o", "c", "m"} /\ (Event(line) => line.pt = d)}

\* The lines of the answer behind its m= line.
LEMMA FollowsEvent ==
  ASSUME NEW d \in Nat, d # Garbage
  PROVE  EventLine(d) \in Follows(d) /\ Event(EventLine(d))
BY DEF Follows, EventLine, Event, SdpLines

\* The lines behind m= that name no telephone event,
LEMMA FollowsOther ==
  ASSUME NEW d
  PROVE  /\ Blankline \in Follows(d)
         /\ [type |-> "rtpmap", pt |-> 0, name |-> "pcmu"] \in Follows(d)
         /\ [type |-> "rtpmap", pt |-> 8, name |-> "pcma"] \in Follows(d)
         /\ \A ms \in Nat : [type |-> "ptime", ms |-> ms] \in Follows(d)
BY DEF Follows, Event, SdpLines, Blankline, Garbage

\* and the two that do.
LEMMA RtpmapFollows ==
  ASSUME NEW s \in Sessions, NEW pt \in Nat
  PROVE  /\ RtpmapLines(s, pt) \in Seq(Follows(s.dtmfPayloadType))
         /\ pt = s.dtmfPayloadType /\ pt \notin {0, 8} =>
              Len(RtpmapLines(s, pt)) = 2 /\ Event(RtpmapLines(s, pt)[1])
<1> DEFINE d == s.dtmfPayloadType
<1>1. CASE pt = 0
  BY <1>1, FollowsOther DEF RtpmapLines
<1>2. CASE pt = 8
  BY <1>2, FollowsOther DEF RtpmapLines
<1>3. CASE pt \notin {0, 8} /\ pt = d
  <2>1. RtpmapLines(s, pt) = <<EventLine(d), Blankline>>
    BY <1>3 DEF RtpmapLines, EventLine
  <2>2. d \in Nat /\ d # Garbage
    BY <1>3 DEF Sessions
  <2>3. EventLine(d) \in Follows(d) /\ Event(EventLine(d)) /\ Blankline \in Follows(d)
    BY <2>2, FollowsEvent, FollowsOther
  <2> QED BY <2>1, <2>3
<1>4. CASE pt \notin {0, 8} /\ pt # d
  <2>1. RtpmapLines(s, pt) = <<>>
    BY <1>4, Zenon DEF RtpmapLines
  <2> QED BY <1>4, <2>1
<1> QED BY <1>1, <1>2, <1>3, <1>4

MediaLine(pts) == [type |-> "m", media |-> "audio", port |-> RtpPort, pts |-> pts]

\* An answer that chooses the codec c, with the telephone event d.
WrittenAnswer(g, c, d) ==
  /\ g \in Seq(SdpLines) /\ Len(g) >= 6
  /\ g[1] = Blankline /\ g[3] = Blankline /\ g[5] = Blankline
  /\ g[2] = [type |-> "o", addr |-> LocalIp]
  /\ g[4] = [type |-> "c", addr |-> LocalIp]
  /\ \E pts \in Seq(Nat) : g[6] = MediaLine(pts) /\ Len(pts) >= 1 /\ pts[1] = c
  /\ \A k \in 7 .. Len(g) : g[k].type \notin {"o", "c", "m"} /\ (Event(g[k]) => g[k].pt = d)
  /\ d \notin {-1, 0, 8} => \E k \in 7 .. Len(g) : Event(g[k])

\* makeAnswer: the codec chosen, and the telephone event where there is one.
LEMMA AnswerType ==
  ASSUME NEW offer \in Sessions
  PROVE  LET s == MakeAnswer(offer, LocalIp, RtpPort)
         IN  /\ s \in Sessions /\ s.connectionAddress = LocalIp /\ s.audioPort = RtpPort
             /\ s.dtmfPayloadType = offer.dtmfPayloadType
             /\ s.payloadTypes[1] = Chosen(offer)
             /\ s.payloadTypes = IF offer.dtmfPayloadType >= 0
                                 THEN <<Chosen(offer), offer.dtmfPayloadType>> ELSE <<Chosen(offer)>>
<1> DEFINE s == MakeAnswer(offer, LocalIp, RtpPort)
           c == Chosen(offer)
           d == offer.dtmfPayloadType
           pts == <<c>> \o (IF d >= 0 THEN <<d>> ELSE <<>>)
           ms == IF offer.ptimeMs > 0 THEN offer.ptimeMs ELSE 20
<1>1. c \in Nat
  BY DEF Chosen
<1>2. d \in (Nat \ {Garbage}) \union {-1} /\ ms \in Nat
  BY DEF Sessions
<1>3. s = [connectionAddress |-> LocalIp, audioPort |-> RtpPort, payloadTypes |-> pts,
           ptimeMs |-> ms, dtmfPayloadType |-> d]
  BY Zenon DEF MakeAnswer
<1> HIDE DEF s, c, d, ms
<1>4. pts = IF d >= 0 THEN <<c, d>> ELSE <<c>>
  <2>1. <<c>> \o <<d>> = <<c, d>>
    BY PairJoins
  <2>2. <<c>> \o <<>> = <<c>>
    OBVIOUS
  <2> QED BY <2>1, <2>2
<1> HIDE DEF pts
<1>5. pts \in Seq(Nat) /\ pts[1] = c
  <2>1. CASE d >= 0
    <3>1. d \in Nat /\ pts = <<c, d>>
      BY <1>2, <1>4, <2>1
    <3> QED BY <1>1, <3>1
  <2>2. CASE ~(d >= 0)
    <3>1. pts = <<c>>
      BY <1>4, <2>2
    <3> QED BY <1>1, <3>1
  <2> QED BY <2>1, <2>2
<1>6. LocalIp \in Hosts /\ RtpPort \in Nat
  BY DEF LocalIp, Hosts, RtpPort
<1>7. s \in Sessions
  BY <1>2, <1>3, <1>5, <1>6 DEF Sessions
<1>8. s.connectionAddress = LocalIp /\ s.audioPort = RtpPort /\ s.payloadTypes = pts
      /\ s.dtmfPayloadType = d
  BY <1>3
<1> QED BY <1>4, <1>5, <1>7, <1>8 DEF s, c, d

\* generate writes such an answer.
LEMMA AnswerWritten ==
  ASSUME NEW offer \in Sessions
  PROVE  WrittenAnswer(Generate(MakeAnswer(offer, LocalIp, RtpPort)), Chosen(offer),
                       offer.dtmfPayloadType)
<1> DEFINE s == MakeAnswer(offer, LocalIp, RtpPort)
           c == Chosen(offer)
           d == offer.dtmfPayloadType
           pts == s.payloadTypes
           maps == FlattenSeq([i \in DOMAIN s.payloadTypes |-> RtpmapLines(s, s.payloadTypes[i])])
           p == <<Blankline, [type |-> "o", addr |-> s.connectionAddress], Blankline,
                  [type |-> "c", addr |-> s.connectionAddress], Blankline,
                  [type |-> "m", media |-> "audio", port |-> s.audioPort, pts |-> s.payloadTypes]>>
           t == <<[type |-> "ptime", ms |-> s.ptimeMs], Blankline>>
           q == p \o maps
           g == q \o t
<1>1. Generate(s) = g
  BY Zenon DEF Generate
<1>2. /\ s \in Sessions /\ s.connectionAddress = LocalIp /\ s.audioPort = RtpPort
      /\ s.dtmfPayloadType = d /\ pts[1] = c
      /\ pts = IF d >= 0 THEN <<c, d>> ELSE <<c>>
  BY AnswerType
<1>0. c \in {0, 8}
  BY DEF Chosen
<1>3. s.ptimeMs \in Nat /\ pts \in Seq(Nat)
  BY <1>2 DEF Sessions
<1> HIDE DEF s, c, d
<1>4. d \in (Nat \ {Garbage}) \union {-1}
  BY <1>2 DEF Sessions
<1>5. /\ maps \in Seq(Follows(d))
      /\ d \notin {-1, 0, 8} => \E k \in 1 .. Len(maps) : Event(maps[k])
  <2>0. RtpmapLines(s, c) \in Seq(Follows(d))
    BY <1>0, <1>2, RtpmapFollows
  <2>1. CASE d >= 0
    <3> DEFINE x == RtpmapLines(s, c)
               y == RtpmapLines(s, d)
    <3>1. pts = <<c, d>> /\ d \in Nat
      BY <1>2, <1>4, <2>1
    <3>2. y \in Seq(Follows(d)) /\ (d \notin {0, 8} => Len(y) = 2 /\ Event(y[1]))
      BY <1>2, <3>1, RtpmapFollows
    <3>3. [i \in DOMAIN pts |-> RtpmapLines(s, pts[i])] = <<x, y>>
      BY <3>1
    <3> HIDE DEF x, y
    <3>4. maps = x \o y
      BY <3>3, FlattenTwo
    <3>5. x \in Seq(Follows(d))
      BY <2>0 DEF x
    <3> HIDE DEF maps
    <3>6. x \o y \in Seq(Follows(d)) /\ Joined(x, y, x \o y)
      BY <3>2, <3>5, Joins
    <3>7. d \notin {0, 8} => Event(maps[Len(x) + 1]) /\ Len(x) + 1 \in 1 .. Len(maps)
      <4> SUFFICES ASSUME d \notin {0, 8} PROVE Event(maps[Len(x) + 1]) /\ Len(x) + 1 \in 1 .. Len(maps)
        OBVIOUS
      <4>1. Joined(x, y, maps)
        BY <3>4, <3>6
      <4>2. 1 \in 1 .. Len(y) /\ Event(y[1])
        BY <3>2
      <4>3. Len(x) + 1 \in 1 .. Len(maps) /\ maps[Len(x) + 1] = y[1]
        BY <4>1, <4>2 DEF Joined
      <4> QED BY <4>2, <4>3
    <3> QED BY <3>4, <3>6, <3>7
  <2>2. CASE ~(d >= 0)
    <3> DEFINE x == RtpmapLines(s, c)
    <3>1. pts = <<c>> /\ d = -1
      BY <1>2, <1>4, <2>2
    <3>2. [i \in DOMAIN pts |-> RtpmapLines(s, pts[i])] = <<x>>
      BY <3>1
    <3> HIDE DEF x
    <3>3. maps = x
      BY <3>2, FlattenOne
    <3>4. x \in Seq(Follows(d))
      BY <2>0 DEF x
    <3> HIDE DEF maps
    <3> QED BY <3>1, <3>3, <3>4
  <2> QED BY <2>1, <2>2
<1>6. t \in Seq(Follows(d)) /\ Len(t) = 2
  <2>1. [type |-> "ptime", ms |-> s.ptimeMs] \in Follows(d) /\ Blankline \in Follows(d)
    BY <1>3, FollowsOther
  <2> QED BY <2>1
<1>7. Follows(d) \subseteq SdpLines
  BY DEF Follows
<1>8. p \in Seq(SdpLines) /\ Len(p) = 6
  <2> DEFINE e1 == [type |-> "o", addr |-> s.connectionAddress]
             e2 == [type |-> "c", addr |-> s.connectionAddress]
             e3 == [type |-> "m", media |-> "audio", port |-> s.audioPort, pts |-> s.payloadTypes]
  <2>1. s.connectionAddress \in Hosts /\ s.audioPort \in Nat
    BY <1>2 DEF Sessions
  <2>2. e1 \in SdpLines /\ e2 \in SdpLines /\ e3 \in SdpLines /\ Blankline \in SdpLines
    BY <1>3, <2>1 DEF SdpLines
  <2> HIDE DEF e1, e2, e3
  <2>3. p = <<Blankline, e1, Blankline, e2, Blankline, e3>>
    BY DEF e1, e2, e3
  <2> HIDE DEF p
  <2> QED BY <2>2, <2>3
<1>9. /\ p[1] = Blankline /\ p[3] = Blankline /\ p[5] = Blankline
      /\ p[2] = [type |-> "o", addr |-> LocalIp] /\ p[4] = [type |-> "c", addr |-> LocalIp]
      /\ p[6] = MediaLine(pts)
  BY <1>2 DEF MediaLine
<1>10. pts \in Seq(Nat) /\ Len(pts) >= 1 /\ pts[1] = c
  BY <1>2, <1>3
<1> HIDE DEF p, t, maps, pts
<1>11. maps \in Seq(SdpLines) /\ t \in Seq(SdpLines)
  BY <1>5, <1>6, <1>7
<1>12. q \in Seq(SdpLines) /\ Joined(p, maps, q)
  BY <1>8, <1>11, Joins
<1> HIDE DEF q
<1>13. g \in Seq(SdpLines) /\ Joined(q, t, g)
  BY <1>11, <1>12, Joins
<1> HIDE DEF g
<1> DEFINE n == Len(maps)
<1>14. n \in Nat /\ Len(q) = 6 + n /\ Len(g) = (6 + n) + 2
  BY <1>5, <1>6, <1>8, <1>12, <1>13 DEF Joined
<1>15. \A k \in 1 .. 6 : g[k] = p[k]
  <2>1. \A k \in 1 .. 6 : q[k] = p[k] /\ k \in 1 .. Len(q)
    BY <1>8, <1>12 DEF Joined
  <2>2. \A k \in 1 .. Len(q) : g[k] = q[k]
    BY <1>13 DEF Joined
  <2> QED BY <2>1, <2>2
<1>16. \A j \in 1 .. n : g[6 + j] = maps[j]
  <2>1. \A j \in 1 .. n : q[6 + j] = maps[j] /\ 6 + j \in 1 .. Len(q)
    BY <1>8, <1>12 DEF Joined
  <2>2. \A k \in 1 .. Len(q) : g[k] = q[k]
    BY <1>13 DEF Joined
  <2> QED BY <2>1, <2>2
<1>17. \A j \in 1 .. 2 : g[(6 + n) + j] = t[j]
  BY <1>6, <1>13, <1>14 DEF Joined
<1>18. \A j \in 1 .. n : maps[j] \in Follows(d)
  BY <1>5
<1>19. \A j \in 1 .. 2 : t[j] \in Follows(d)
  <2> DEFINE F == Follows(d)
  <2>1. t \in Seq(F) /\ Len(t) = 2
    BY <1>6
  <2> HIDE DEF F
  <2>2. \A j \in 1 .. 2 : j \in 1 .. Len(t)
    BY <2>1
  <2>0. t \in Seq(F)
    BY <2>1
  <2>3. \A j \in 1 .. Len(t) : t[j] \in F
    BY <2>0
  <2>4. \A j \in 1 .. 2 : t[j] \in F
    BY <2>2, <2>3
  <2> QED BY <2>4 DEF F
<1> HIDE DEF n
<1>20. ASSUME NEW k \in 7 .. Len(g) PROVE g[k] \in Follows(d)
  <2>1. CASE k <= 6 + n
    <3> DEFINE j == k - 6
    <3>1. j \in 1 .. n /\ 6 + j = k
      BY <1>14, <2>1
    <3> HIDE DEF j
    <3> QED BY <1>16, <1>18, <3>1
  <2>2. CASE ~(k <= 6 + n)
    <3> DEFINE j == k - (6 + n)
    <3>1. j \in 1 .. 2 /\ (6 + n) + j = k
      BY <1>14, <2>2
    <3> HIDE DEF j
    <3> QED BY <1>17, <1>19, <3>1
  <2> QED BY <2>1, <2>2
<1>21. d \notin {-1, 0, 8} => \E k \in 7 .. Len(g) : Event(g[k])
  <2> SUFFICES ASSUME d \notin {-1, 0, 8} PROVE \E k \in 7 .. Len(g) : Event(g[k])
    OBVIOUS
  <2>1. PICK j \in 1 .. n : Event(maps[j])
    BY <1>5 DEF n
  <2>2. 6 + j \in 7 .. Len(g) /\ Event(g[6 + j])
    BY <1>14, <1>16, <2>1
  <2> QED BY <2>2
<1>22. \A k \in 7 .. Len(g) : g[k].type \notin {"o", "c", "m"} /\ (Event(g[k]) => g[k].pt = d)
  BY <1>20 DEF Follows
<1>23. Len(g) >= 6
  BY <1>14
<1>24. WrittenAnswer(g, c, d)
  BY <1>9, <1>10, <1>13, <1>15, <1>21, <1>22, <1>23 DEF WrittenAnswer
<1> QED BY <1>1, <1>24 DEF s, c, d

\* A line that is neither a section nor an event changes the address at most.
LEMMA Silent ==
  ASSUME NEW s, NEW line, NEW t, Effect(s, line, t), ~Speech(line), ~Event(line)
  PROVE  /\ t.audioPort = s.audioPort /\ t.payloadTypes = s.payloadTypes
         /\ t.dtmfPayloadType = s.dtmfPayloadType
         /\ t.connectionAddress = IF line.type \in {"o", "c"} THEN line.addr ELSE s.connectionAddress
BY DEF Effect

\* What the caller reads from the answer.
LEMMA AnswerReads ==
  ASSUME NEW g, NEW c \in {0, 8}, NEW d \in (Nat \ {Garbage}) \union {-1}, WrittenAnswer(g, c, d)
  PROVE  LET read == ParseSdp(g)
         IN  /\ IsOffer(read)
             /\ read.connectionAddress = LocalIp /\ read.audioPort = RtpPort
             /\ read.payloadTypes[1] = c
             /\ d \notin {0, 8} => read.dtmfPayloadType = d
<1> DEFINE N == Len(g)
<1>1. g \in Seq(SdpLines) /\ N \in Nat /\ N >= 6 /\ \A k \in 1 .. N : g[k] \in SdpLines
  BY DEF WrittenAnswer
<1>2. PICK a : Reading(g, a)
  BY <1>1, Reads
<1>3. PICK pts \in Seq(Nat) : g[6] = MediaLine(pts) /\ Len(pts) >= 1 /\ pts[1] = c
  BY DEF WrittenAnswer
<1>4. /\ a[0] = EmptySession /\ a[N] = ParseSdp(g)
      /\ \A k \in 1 .. N : Effect(a[k - 1], g[k], a[k])
  BY <1>2 DEF Reading
<1> HIDE DEF N
<1>5. \A line : line = Blankline => ~Speech(line) /\ ~Event(line) /\ line.type \notin {"o", "c"}
  BY DEF Blankline, Speech, Event
<1>6. g[1] = Blankline /\ g[3] = Blankline /\ g[5] = Blankline
      /\ g[2].type = "o" /\ g[4].type = "c" /\ g[4].addr = LocalIp
  BY DEF WrittenAnswer
<1>7. /\ Speech(g[6]) /\ ~Event(g[6]) /\ g[6].type \notin {"o", "c"}
      /\ Port(g[6]) = RtpPort /\ g[6].pts = pts
  <2>1. g[6].type = "m" /\ g[6].media = "audio" /\ g[6].port = RtpPort /\ g[6].pts = pts /\ pts # <<>>
    BY <1>3 DEF MediaLine
  <2>2. Port(g[6]) = RtpPort
    BY <2>1 DEF Port, Atoi, Garbage, RtpPort
  <2> QED BY <2>1, <2>2 DEF Speech, Event
<1>8. Effect(a[0], g[1], a[1]) /\ Effect(a[1], g[2], a[2]) /\ Effect(a[2], g[3], a[3])
      /\ Effect(a[3], g[4], a[4]) /\ Effect(a[4], g[5], a[5]) /\ Effect(a[5], g[6], a[6])
  <2>1. \A k \in 1 .. 6 : k \in 1 .. N
    BY <1>1
  <2>2. \A k \in 1 .. 6 : Effect(a[k - 1], g[k], a[k])
    BY <1>4, <2>1
  <2>3. Effect(a[1 - 1], g[1], a[1]) /\ Effect(a[2 - 1], g[2], a[2]) /\ Effect(a[3 - 1], g[3], a[3])
        /\ Effect(a[4 - 1], g[4], a[4]) /\ Effect(a[5 - 1], g[5], a[5]) /\ Effect(a[6 - 1], g[6], a[6])
    BY <2>2
  <2> QED BY <2>3
<1>9. ~Speech(g[2]) /\ ~Event(g[2]) /\ ~Speech(g[4]) /\ ~Event(g[4])
  BY <1>6 DEF Speech, Event
<1>10. /\ a[4].connectionAddress = LocalIp /\ a[4].dtmfPayloadType = -1
       /\ a[4].payloadTypes = <<>>
  <2>1. a[0].dtmfPayloadType = -1 /\ a[0].payloadTypes = <<>>
    BY <1>4 DEF EmptySession
  <2>2. a[1].dtmfPayloadType = -1 /\ a[1].payloadTypes = <<>>
    BY <1>5, <1>6, <1>8, <2>1, Silent
  <2>3. a[2].dtmfPayloadType = -1 /\ a[2].payloadTypes = <<>>
    BY <1>8, <1>9, <2>2, Silent
  <2>4. a[3].dtmfPayloadType = -1 /\ a[3].payloadTypes = <<>>
    BY <1>5, <1>6, <1>8, <2>3, Silent
  <2> QED BY <1>6, <1>8, <1>9, <2>4, Silent
<1>11. /\ a[6].connectionAddress = LocalIp /\ a[6].dtmfPayloadType = -1
       /\ a[6].audioPort = RtpPort /\ a[6].payloadTypes = <<>> \o Formats(pts)
  <2>1. a[5].connectionAddress = LocalIp /\ a[5].dtmfPayloadType = -1 /\ a[5].payloadTypes = <<>>
    BY <1>5, <1>6, <1>8, <1>10, Silent
  <2> QED BY <1>7, <1>8, <2>1 DEF Effect
<1> DEFINE f == Formats(pts)
<1>12. f \in Seq(Nat) /\ Len(f) >= 1 /\ f[1] = c
  <2>1. f \in Seq(Nat) /\ Len(f) = Len(pts) /\ \A i \in 1 .. Len(pts) : f[i] = Atoi(pts[i])
    BY FormatsType
  <2>2. Len(pts) >= 1 /\ 1 \in 1 .. Len(pts)
    BY <1>3
  <2>3. Atoi(pts[1]) = c
    BY <1>3 DEF Atoi, Garbage
  <2> QED BY <2>1, <2>2, <2>3
<1> HIDE DEF f
<1>13. a[6].payloadTypes = f
  BY <1>11, <1>12 DEF f
<1>14. ASSUME NEW k \in 7 .. N
       PROVE  /\ k - 1 \in 0 .. N
              /\ a[k].connectionAddress = a[k - 1].connectionAddress
              /\ a[k].audioPort = a[k - 1].audioPort /\ a[k].payloadTypes = a[k - 1].payloadTypes
              /\ a[k].dtmfPayloadType = IF Event(g[k]) THEN d ELSE a[k - 1].dtmfPayloadType
  <2>1. k \in 1 .. N /\ k - 1 \in 0 .. N
    BY <1>1
  <2>2. g[k].type \notin {"o", "c", "m"} /\ (Event(g[k]) => g[k].pt = d)
    BY DEF WrittenAnswer, N
  <2>3. ~Speech(g[k])
    BY <2>2 DEF Speech
  <2>4. Effect(a[k - 1], g[k], a[k])
    BY <1>4, <2>1
  <2> QED BY <2>1, <2>2, <2>3, <2>4 DEF Effect
<1> DEFINE Steady(k) == /\ a[k].connectionAddress = LocalIp /\ a[k].audioPort = RtpPort
                        /\ a[k].payloadTypes = f
                        /\ a[k].dtmfPayloadType \in {-1, d}
                        /\ (\E j \in 7 .. k : Event(g[j])) => a[k].dtmfPayloadType = d
           B == {k \in 0 .. N : k >= 6 => Steady(k)}
<1>15. 0 \in B
  BY <1>1
<1>16. ASSUME NEW k \in 1 .. N, k - 1 \in B PROVE k \in B
  <2>1. CASE k < 6
    BY <2>1
  <2>2. CASE k = 6
    <3>1. Steady(6)
      BY <1>11, <1>13
    <3> QED BY <2>2, <3>1
  <2>3. CASE k > 6
    <3>0. k \in 7 .. N
      BY <2>3
    <3>1. k - 1 >= 6 /\ 7 .. k = (7 .. (k - 1)) \union {k}
      BY <2>3
    <3>2. Steady(k - 1)
      BY <1>16, <3>1
    <3>3. Steady(k)
      BY <1>14, <3>0, <3>1, <3>2
    <3> HIDE DEF Steady
    <3> QED BY <3>3
  <2> QED BY <2>1, <2>2, <2>3
<1>17. 0 .. N \subseteq B
  <2> HIDE DEF B
  <2> QED BY <1>1, <1>15, <1>16, Reached
<1>18. Steady(N)
  <2>1. N \in 0 .. N /\ N >= 6
    BY <1>1
  <2> QED BY <1>17, <2>1
<1>19. d \notin {0, 8} => a[N].dtmfPayloadType = d
  <2>1. CASE d = -1
    BY <1>18, <2>1
  <2>2. CASE d \notin {-1, 0, 8}
    <3>1. \E k \in 7 .. N : Event(g[k])
      BY <2>2 DEF WrittenAnswer, N
    <3> QED BY <1>18, <3>1
  <2> QED BY <2>1, <2>2
<1>20. IsOffer(a[N]) /\ a[N].payloadTypes[1] = c
  BY <1>12, <1>18 DEF IsOffer
<1> HIDE DEF Steady
<1>21. a[N].connectionAddress = LocalIp /\ a[N].audioPort = RtpPort
  BY <1>18 DEF Steady
<1> QED BY <1>4, <1>19, <1>20, <1>21

-----------------------------------------------------------------------------
(* What is read from an offer *)

\* The members of a concatenation.
LEMMA JoinedSet ==
  ASSUME NEW S, NEW s \in Seq(S), NEW t \in Seq(S)
  PROVE  ToSet(s \o t) = ToSet(s) \union ToSet(t)
<1> DEFINE u == s \o t
           m == Len(s)
           n == Len(t)
<1>1. u \in Seq(S) /\ Joined(s, t, u)
  BY Joins
<1> HIDE DEF u
<1>2. DOMAIN u = 1 .. Len(u) /\ DOMAIN s = 1 .. m /\ DOMAIN t = 1 .. n /\ m \in Nat /\ n \in Nat
  BY <1>1
<1>3. Len(u) = m + n
  BY <1>1 DEF Joined
<1> HIDE DEF m, n
<1>4. ASSUME NEW i \in 1 .. Len(u) PROVE u[i] \in ToSet(s) \union ToSet(t)
  <2>1. CASE i <= m
    <3>1. i \in 1 .. m
      BY <1>2, <2>1
    <3> QED BY <1>1, <1>2, <3>1 DEF Joined, ToSet, m
  <2>2. CASE ~(i <= m)
    <3> DEFINE j == i - m
    <3>1. j \in 1 .. n /\ m + j = i
      BY <1>2, <1>3, <2>2
    <3> HIDE DEF j
    <3> QED BY <1>1, <1>2, <3>1 DEF Joined, ToSet, m, n
  <2> QED BY <2>1, <2>2
<1>5. \A i \in 1 .. m : s[i] \in ToSet(u)
  BY <1>1, <1>2 DEF Joined, ToSet, m
<1>6. \A i \in 1 .. n : t[i] \in ToSet(u)
  BY <1>1, <1>2 DEF Joined, ToSet, n
<1>7. ToSet(u) = ToSet(s) \union ToSet(t)
  BY <1>2, <1>4, <1>5, <1>6 DEF ToSet
<1> QED BY <1>7 DEF u

\* The formats of a section as a set of numbers.
LEMMA FormatSet ==
  ASSUME NEW pts \in Seq(Nat)
  PROVE  ToSet(Formats(pts)) = {Atoi(f) : f \in ToSet(pts)}
<1>1. /\ Formats(pts) \in Seq(Nat) /\ Len(Formats(pts)) = Len(pts)
      /\ \A i \in 1 .. Len(pts) : Formats(pts)[i] = Atoi(pts[i])
  BY FormatsType
<1> DEFINE f == Formats(pts)
<1> HIDE DEF f
<1>2. DOMAIN f = 1 .. Len(pts) /\ DOMAIN pts = 1 .. Len(pts)
  BY <1>1 DEF f
<1>3. \A i \in 1 .. Len(pts) : f[i] = Atoi(pts[i])
  BY <1>1 DEF f
<1>4. ToSet(f) = {Atoi(x) : x \in ToSet(pts)}
  BY <1>2, <1>3 DEF ToSet
<1> QED BY <1>4 DEF f

\* The fields of a line.
LEMMA LineShape ==
  ASSUME NEW line \in SdpLines
  PROVE  /\ line.type = "m" => line.pts \in Seq(Nat) /\ line.port \in Nat
         /\ Speech(line) => line.type = "m" /\ line.media = "audio" /\ line.pts \in Seq(Nat) /\ line.pts # <<>>
         /\ Event(line) => line.type = "rtpmap" /\ line.pt \in Nat
BY DEF SdpLines, Speech, Event, Blankline

\* The formats of the audio sections, as numbers.
Numbers(body, k) ==
  UNION {{Atoi(f) : f \in ToSet(body[j].pts)} : j \in {i \in 1 .. k : Speech(body[i])}}

\* After k lines of the body.
OfferRead(body, k, s) ==
  /\ ToSet(s.payloadTypes) = Numbers(body, k)
  /\ s.dtmfPayloadType = -1 \/ \E j \in 1 .. k : Event(body[j]) /\ s.dtmfPayloadType = body[j].pt
  /\ (\E j \in 1 .. k : Event(body[j])) => s.dtmfPayloadType # -1
  /\ k >= 2 /\ body[1].type = "o" /\ body[2].type = "c" /\ (\A j \in 3 .. k : body[j].type \notin {"o", "c"})
       => s.connectionAddress = body[2].addr
  /\ \A i \in 1 .. k :
       Speech(body[i]) /\ (\A j \in 1 .. k : Speech(body[j]) => j = i) => s.audioPort = Port(body[i])

\* The formats with one more line.
LEMMA NumbersGrow ==
  ASSUME NEW body, NEW k \in Nat, k >= 1
  PROVE  Numbers(body, k) =
           Numbers(body, k - 1) \union
             (IF Speech(body[k]) THEN {Atoi(f) : f \in ToSet(body[k].pts)} ELSE {})
<1> DEFINE S(n) == {i \in 1 .. n : Speech(body[i])}
           T(j) == {Atoi(f) : f \in ToSet(body[j].pts)}
<1>1. S(k) = S(k - 1) \union (IF Speech(body[k]) THEN {k} ELSE {})
  <2>1. 1 .. k = (1 .. (k - 1)) \union {k}
    OBVIOUS
  <2> QED BY <2>1
<1>2. Numbers(body, k) = UNION {T(j) : j \in S(k)} /\ Numbers(body, k - 1) = UNION {T(j) : j \in S(k - 1)}
  BY DEF Numbers
<1>3. T(k) = {Atoi(f) : f \in ToSet(body[k].pts)}
  OBVIOUS
<1> HIDE DEF S, T
<1>4. UNION {T(j) : j \in S(k)} =
        (UNION {T(j) : j \in S(k - 1)}) \union (IF Speech(body[k]) THEN T(k) ELSE {})
  <2>1. CASE Speech(body[k])
    BY <1>1, <2>1
  <2>2. CASE ~Speech(body[k])
    BY <1>1, <2>2
  <2> QED BY <2>1, <2>2
<1> QED BY <1>2, <1>3, <1>4

\* One more line of an offer.
LEMMA OfferStep ==
  ASSUME NEW body \in Seq(SdpLines), NEW k \in 1 .. Len(body),
         NEW s \in Sessions, NEW t, Effect(s, body[k], t), OfferRead(body, k - 1, s)
  PROVE  OfferRead(body, k, t)
<1> DEFINE line == body[k]
<1>0. k \in Nat /\ k >= 1 /\ line \in SdpLines /\ t \in Sessions
  BY DEF Effect
<1>1. 1 .. k = (1 .. (k - 1)) \union {k}
  BY <1>0
<1>2. ToSet(t.payloadTypes) = Numbers(body, k)
  <2>1. CASE Speech(line)
    <3>1. t.payloadTypes = s.payloadTypes \o Formats(line.pts)
      BY <2>1 DEF Effect
    <3>2. line.pts \in Seq(Nat) /\ s.payloadTypes \in Seq(Nat)
      BY <1>0, <2>1, LineShape DEF Sessions
    <3>3. Formats(line.pts) \in Seq(Nat) /\ ToSet(Formats(line.pts)) = {Atoi(f) : f \in ToSet(line.pts)}
      BY <3>2, FormatsType, FormatSet
    <3>4. ToSet(t.payloadTypes) = ToSet(s.payloadTypes) \union ToSet(Formats(line.pts))
      BY <3>1, <3>2, <3>3, JoinedSet
    <3> QED BY <1>0, <2>1, <3>3, <3>4, NumbersGrow DEF OfferRead
  <2>2. CASE ~Speech(line)
    <3>1. t.payloadTypes = s.payloadTypes
      BY <2>2 DEF Effect
    <3>2. Numbers(body, k) = Numbers(body, k - 1) \union {}
      BY <1>0, <2>2, NumbersGrow
    <3> QED BY <3>1, <3>2 DEF OfferRead
  <2> QED BY <2>1, <2>2
<1>3. /\ t.dtmfPayloadType = -1 \/ \E j \in 1 .. k : Event(body[j]) /\ t.dtmfPayloadType = body[j].pt
      /\ (\E j \in 1 .. k : Event(body[j])) => t.dtmfPayloadType # -1
  <2>1. CASE Event(line)
    <3>1. t.dtmfPayloadType = line.pt
      BY <2>1 DEF Effect
    <3>2. line.pt \in Nat
      BY <1>0, <2>1, LineShape
    <3> QED BY <2>1, <3>1, <3>2
  <2>2. CASE ~Event(line)
    <3>1. t.dtmfPayloadType = s.dtmfPayloadType
      BY <2>2 DEF Effect
    <3>2. /\ s.dtmfPayloadType = -1
             \/ \E j \in 1 .. (k - 1) : Event(body[j]) /\ s.dtmfPayloadType = body[j].pt
          /\ (\E j \in 1 .. (k - 1) : Event(body[j])) => s.dtmfPayloadType # -1
      BY DEF OfferRead
    <3> QED BY <1>1, <2>2, <3>1, <3>2
  <2> QED BY <2>1, <2>2
<1>4. k >= 2 /\ body[1].type = "o" /\ body[2].type = "c" /\ (\A j \in 3 .. k : body[j].type \notin {"o", "c"})
       => t.connectionAddress = body[2].addr
  <2> SUFFICES ASSUME k >= 2, body[1].type = "o", body[2].type = "c",
                      \A j \in 3 .. k : body[j].type \notin {"o", "c"}
               PROVE  t.connectionAddress = body[2].addr
    OBVIOUS
  <2>1. CASE k = 2
    BY <2>1 DEF Effect
  <2>2. CASE k > 2
    <3>1. k \in 3 .. k /\ k - 1 >= 2 /\ \A j \in 3 .. (k - 1) : j \in 3 .. k
      BY <1>0, <2>2
    <3>2. t.connectionAddress = s.connectionAddress
      BY <3>1 DEF Effect
    <3>3. s.connectionAddress = body[2].addr
      BY <3>1 DEF OfferRead
    <3> QED BY <3>2, <3>3
  <2> QED BY <1>0, <2>1, <2>2
<1>5. ASSUME NEW i \in 1 .. k, Speech(body[i]), \A j \in 1 .. k : Speech(body[j]) => j = i
      PROVE  t.audioPort = Port(body[i])
  <2>1. CASE i = k
    BY <1>5, <2>1 DEF Effect
  <2>2. CASE i # k
    <3>1. i \in 1 .. (k - 1) /\ k \in 1 .. k /\ ~Speech(line)
      BY <1>0, <1>1, <1>5, <2>2
    <3>2. t.audioPort = s.audioPort
      BY <3>1 DEF Effect
    <3>3. \A j \in 1 .. (k - 1) : Speech(body[j]) => j = i
      BY <1>1, <1>5
    <3>4. s.audioPort = Port(body[i])
      BY <1>5, <3>1, <3>3 DEF OfferRead
    <3> QED BY <3>2, <3>4
  <2> QED BY <2>1, <2>2
<1> QED BY <1>2, <1>3, <1>4, <1>5 DEF OfferRead

\* What parseSdp returns is what the lines of the offer say.
LEMMA OfferReads ==
  ASSUME NEW body \in Seq(SdpLines)
  PROVE  OfferRead(body, Len(body), ParseSdp(body))
<1> DEFINE N == Len(body)
<1>1. PICK a : Reading(body, a)
  BY Reads
<1>2. /\ a \in [0 .. N -> Sessions] /\ a[0] = EmptySession /\ a[N] = ParseSdp(body)
      /\ \A k \in 1 .. N : Effect(a[k - 1], body[k], a[k])
  BY <1>1 DEF Reading
<1>3. N \in Nat
  OBVIOUS
<1> DEFINE B == {k \in 0 .. N : OfferRead(body, k, a[k])}
<1>4. 0 \in B
  <2>1. Numbers(body, 0) = {} /\ ToSet(<<>>) = {}
    BY DEF Numbers, ToSet
  <2>2. a[0].payloadTypes = <<>> /\ a[0].dtmfPayloadType = -1
    BY <1>2 DEF EmptySession
  <2>3. 1 .. 0 = {} /\ ~(0 >= 2)
    OBVIOUS
  <2> DEFINE s0 == a[0]
  <2>4. ToSet(s0.payloadTypes) = Numbers(body, 0) /\ s0.dtmfPayloadType = -1
    BY <2>1, <2>2
  <2> HIDE DEF s0
  <2>5. OfferRead(body, 0, s0)
    BY <2>3, <2>4 DEF OfferRead
  <2> HIDE DEF B
  <2>6. OfferRead(body, 0, a[0])
    BY <2>5 DEF s0
  <2> QED BY <1>3, <2>6 DEF B
<1>5. ASSUME NEW k \in 1 .. N, k - 1 \in B PROVE k \in B
  <2>1. k - 1 \in 0 .. N /\ k \in 0 .. N
    BY <1>3
  <2>2. a[k - 1] \in Sessions /\ OfferRead(body, k - 1, a[k - 1]) /\ Effect(a[k - 1], body[k], a[k])
    BY <1>2, <1>5, <2>1
  <2>3. OfferRead(body, k, a[k])
    BY <2>2, OfferStep
  <2> QED BY <2>1, <2>3
<1>6. 0 .. N \subseteq B
  <2> HIDE DEF B, N
  <2> QED BY <1>3, <1>4, <1>5, Reached
<1>7. N \in 0 .. N
  BY <1>3
<1> QED BY <1>2, <1>6, <1>7

\* The lines of a body, and the formats they name.
LEMMA InBody ==
  ASSUME NEW body \in Seq(SdpLines)
  PROVE  /\ \A j \in 1 .. Len(body) : body[j] \in ToSet(body) /\ body[j] \in SdpLines
         /\ \A line \in ToSet(body) : \E j \in 1 .. Len(body) : line = body[j]
BY DEF ToSet

\* A format named in the first k lines.
LEMMA InNumbers ==
  ASSUME NEW body, NEW k, NEW p
  PROVE  p \in Numbers(body, k) <=>
           \E j \in 1 .. k : Speech(body[j]) /\ \E f \in ToSet(body[j].pts) : p = Atoi(f)
BY DEF Numbers

\* The codec both sides use is a format of the offer.
LEMMA CodecOffered ==
  ASSUME NEW body \in Seq(SdpLines), HasAnswer(ParseSdp(body))
  PROVE  LET c       == Chosen(ParseSdp(body))
             audio   == {line \in ToSet(body) : line.type = "m" /\ line.media = "audio"}
             formats == UNION {ToSet(line.pts) : line \in audio}
         IN  ~Garbled(body) => c \in formats \intersect {0, 8} /\ (0 \in formats => c = 0)
<1> DEFINE offer == ParseSdp(body)
           c == Chosen(offer)
           audio   == {line \in ToSet(body) : line.type = "m" /\ line.media = "audio"}
           formats == UNION {ToSet(line.pts) : line \in audio}
           N == Len(body)
<1>1. ToSet(offer.payloadTypes) = Numbers(body, N)
  BY OfferReads DEF OfferRead
<1>2. c \in {0, 8} /\ c \in ToSet(offer.payloadTypes) /\ (0 \in ToSet(offer.payloadTypes) => c = 0)
  BY DEF HasAnswer, Chosen, OffersPcmu, OffersPcma
<1> HIDE DEF offer, c
<1> SUFFICES ASSUME ~Garbled(body)
             PROVE  c \in formats \intersect {0, 8} /\ (0 \in formats => c = 0)
  BY DEF c, offer
<1>3. c \in formats
  <2>1. PICK j \in 1 .. N : Speech(body[j]) /\ \E f \in ToSet(body[j].pts) : c = Atoi(f)
    BY <1>1, <1>2, InNumbers
  <2>2. PICK f \in ToSet(body[j].pts) : c = Atoi(f)
    BY <2>1
  <2>3. body[j] \in ToSet(body) /\ body[j] \in SdpLines
    BY InBody
  <2>4. body[j].type = "m" /\ body[j].media = "audio"
    BY <2>1, <2>3, LineShape
  <2>5. f # Garbage
    BY <2>2, <2>3, <2>4 DEF Garbled
  <2>6. f = c
    BY <2>2, <2>5 DEF Atoi
  <2>7. body[j] \in audio
    BY <2>3, <2>4
  <2> HIDE DEF audio
  <2> QED BY <2>2, <2>6, <2>7
<1>4. ASSUME 0 \in formats PROVE c = 0
  <2>1. PICK line \in audio : 0 \in ToSet(line.pts)
    BY <1>4
  <2>2. line \in ToSet(body) /\ line.type = "m" /\ line.media = "audio"
    BY <2>1
  <2>3. PICK j \in 1 .. N : line = body[j]
    BY <2>2, InBody
  <2>4. line.pts # <<>>
    BY <2>1 DEF ToSet
  <2>5. Speech(line)
    BY <2>2, <2>4 DEF Speech
  <2>6. Atoi(0) = 0
    BY DEF Atoi, Garbage
  <2>7. 0 \in Numbers(body, N)
    BY <2>1, <2>3, <2>5, <2>6, InNumbers
  <2> QED BY <1>1, <1>2, <2>7
<1> HIDE DEF formats
<1> QED BY <1>2, <1>3, <1>4

\* The telephone event is one of the offer, and none only where it has none.
LEMMA EventOffered ==
  ASSUME NEW body \in Seq(SdpLines)
  PROVE  LET d      == ParseSdp(body).dtmfPayloadType
             events == {line.pt : line \in {l \in ToSet(body) :
                                 l.type = "rtpmap" /\ l.name = "telephone-event"}}
         IN  d \in events \union {-1} /\ (events # {} => d # -1)
<1> DEFINE d == ParseSdp(body).dtmfPayloadType
           lines == {l \in ToSet(body) : l.type = "rtpmap" /\ l.name = "telephone-event"}
           events == {line.pt : line \in lines}
           N == Len(body)
<1>1. /\ d = -1 \/ \E j \in 1 .. N : Event(body[j]) /\ d = body[j].pt
      /\ (\E j \in 1 .. N : Event(body[j])) => d # -1
  BY OfferReads DEF OfferRead
<1> HIDE DEF d
<1>2. d \in events \union {-1}
  <2>1. ASSUME NEW j \in 1 .. N, Event(body[j]), d = body[j].pt PROVE d \in events
    <3>1. body[j] \in lines
      BY <2>1, InBody DEF Event
    <3> HIDE DEF lines
    <3> QED BY <2>1, <3>1
  <2> HIDE DEF events
  <2> QED BY <1>1, <2>1
<1>3. ASSUME events # {} PROVE d # -1
  <2>1. PICK line \in lines : TRUE
    BY <1>3
  <2>2. PICK j \in 1 .. N : line = body[j]
    BY <2>1, InBody
  <2>3. Event(body[j])
    BY <2>1, <2>2 DEF Event
  <2> QED BY <1>1, <2>3
<1> HIDE DEF events
<1>4. d \in events \union {-1} /\ (events # {} => d # -1)
  BY <1>2, <1>3
<1> QED BY <1>4 DEF d, events, lines

\* The packets of an ordinary offer go where it says.
LEMMA DestinationOffered ==
  ASSUME NEW body \in Seq(SdpLines), HasAnswer(ParseSdp(body)), Ordinary(body)
  PROVE  LET offer == ParseSdp(body)
         IN  /\ offer.connectionAddress = body[2].addr
             /\ \A line \in {l \in ToSet(body) : l.type = "m" /\ l.media = "audio"} :
                  line.port < 65536 => offer.audioPort = line.port
<1> DEFINE offer == ParseSdp(body)
           N == Len(body)
           S == {i \in 1 .. N : body[i].type = "m"}
<1>0. N \in Nat /\ N >= 3
  BY DEF Ordinary
<1>1. OfferRead(body, N, offer)
  BY OfferReads
<1>2. offer.connectionAddress = body[2].addr
  BY <1>0, <1>1 DEF OfferRead, Ordinary
<1>3. PICK i : S = {i}
  <2>1. IsFiniteSet(S)
    <3>1. IsFiniteSet(1 .. N) /\ S \subseteq 1 .. N
      BY <1>0, FS_Interval
    <3> HIDE DEF S, N
    <3> QED BY <3>1, FS_Subset
  <2>2. Cardinality(S) = 1
    BY DEF Ordinary
  <2> HIDE DEF S
  <2> QED BY <2>1, <2>2, FS_Singleton
<1>4. ASSUME NEW j \in 1 .. N, Speech(body[j]) PROVE j = i
  <2>1. body[j].type = "m"
    BY <1>4, InBody, LineShape
  <2> QED BY <1>3, <2>1
<1>5. PICK j \in 1 .. N : Speech(body[j])
  <2>1. \E p : p \in ToSet(offer.payloadTypes)
    BY DEF HasAnswer, OffersPcmu, OffersPcma
  <2>2. \E p : p \in Numbers(body, N)
    BY <1>1, <2>1 DEF OfferRead
  <2> QED BY <2>2, InNumbers
<1>6. i \in 1 .. N /\ Speech(body[i])
  BY <1>4, <1>5
<1>7. offer.audioPort = Port(body[i])
  BY <1>1, <1>4, <1>6 DEF OfferRead
<1> HIDE DEF offer
<1>8. ASSUME NEW line \in ToSet(body), line.type = "m", line.port < 65536
      PROVE  offer.audioPort = line.port
  <2>1. PICK k \in 1 .. N : line = body[k]
    BY InBody
  <2>2. k = i
    BY <1>3, <1>8, <2>1
  <2>3. line.port \in Nat
    BY <1>8, <2>1, InBody, LineShape
  <2> DEFINE p == line.port
  <2>4. Port(line) = p
    <3>1. p \in Nat /\ p < 65536
      BY <1>8, <2>3
    <3>2. Port(line) = Atoi(p) % 65536
      BY DEF Port
    <3> HIDE DEF p
    <3>3. Atoi(p) = p
      BY <3>1 DEF Atoi, Garbage
    <3> QED BY <3>1, <3>2, <3>3
  <2> QED BY <1>7, <2>1, <2>2, <2>4
<1>9. /\ offer.connectionAddress = body[2].addr
      /\ \A line \in {l \in ToSet(body) : l.type = "m" /\ l.media = "audio"} :
           line.port < 65536 => offer.audioPort = line.port
  <2>1. offer.connectionAddress = body[2].addr
    BY <1>2
  <2>2. \A line \in {l \in ToSet(body) : l.type = "m" /\ l.media = "audio"} :
           line.port < 65536 => offer.audioPort = line.port
    BY <1>8
  <2> QED BY <2>1, <2>2
<1> QED BY <1>9 DEF offer

\* Any word of a body or a datagram can stand in an answer.
LEMMA WordsHold == Nat \subseteq Words /\ Tag \in Words
BY DEF Words

\* The caller can read a response to a fine message.
LEMMA RepliesReadBack ==
  ASSUME NEW m, Fine(m), NEW code \in Nat, NEW body \in Seq(SdpLines)
  PROVE  /\ ReadsAs(MakeResponse(m, code, body), code, m)
         /\ ParseSip(Serialize(MakeResponse(m, code, body))).body = body
<1>1. m.headers \in Seq(HeadersOf(Words)) /\ TagsOnce(m)
  BY FineHeaders
<1> QED BY <1>1, WordsHold, ResponseReadsBack

AnswerBody(m) == Generate(MakeAnswer(ParseSdp(m.body), LocalIp, RtpPort))

\* The same of the 200, with the answer it carries.
LEMMA AcceptReadsBack ==
  ASSUME NEW m, Fine(m)
  PROVE  /\ ReadsAs(AcceptMessage(m), 200, m)
         /\ ParseSip(Serialize(AcceptMessage(m))).body = AnswerBody(m)
         /\ WrittenAnswer(AnswerBody(m), Chosen(ParseSdp(m.body)), ParseSdp(m.body).dtmfPayloadType)
         /\ ParseSdp(m.body) \in Sessions
<1> DEFINE body == AnswerBody(m)
<1>1. ParseSdp(m.body) \in Sessions
  BY ParsedType DEF Fine
<1>2. WrittenAnswer(body, Chosen(ParseSdp(m.body)), ParseSdp(m.body).dtmfPayloadType)
  BY <1>1, AnswerWritten DEF AnswerBody
<1>3. AcceptMessage(m) = MakeResponse(m, 200, body)
  BY DEF AcceptMessage, AnswerBody
<1> HIDE DEF body
<1>4. body \in Seq(SdpLines)
  BY <1>2 DEF WrittenAnswer
<1>5. ReadsAs(MakeResponse(m, 200, body), 200, m)
      /\ ParseSip(Serialize(MakeResponse(m, 200, body))).body = body
  BY <1>4, RepliesReadBack
<1> QED BY <1>1, <1>2, <1>3, <1>5 DEF body

\* The message without its body has the same headers.
LEMMA HeadersRead ==
  ASSUME NEW m, NEW m2, m2.headers = m.headers, NEW r, NEW code, ReadsAs(r, code, m)
  PROVE  ReadsAs(r, code, m2)
<1>1. \A name : GetAll(m2, name) = GetAll(m, name)
  BY DEF GetAll
<1>2. \A name : ValuesOf(m2, name) = ValuesOf(m, name) /\ FirstOf(m2, name) = FirstOf(m, name)
  <2> TAKE name
  <2>1. ValuesOf(m2, name) = ValuesOf(m, name)
    BY <1>1 DEF ValuesOf
  <2>2. FirstOf(m2, name) = FirstOf(m, name)
    BY <1>1 DEF FirstOf, Has, Get
  <2> QED BY <2>1, <2>2
<1> QED BY <1>2, Zenon DEF ReadsAs

\* lastInvite_ is kept without its body.
LEMMA Bodiless ==
  ASSUME NEW m, Fine(m)
  PROVE  [m EXCEPT !.body = <<>>].headers = m.headers
<1>1. m = [isRequest |-> TRUE, start |-> m.start, headers |-> m.headers, body |-> m.body]
  BY DEF Fine
<1> QED BY <1>1

\* Both sides of an accepted call mean the same.
Negotiated(body, start, read) ==
  LET audio   == {line \in ToSet(body) : line.type = "m" /\ line.media = "audio"}
      formats == UNION {ToSet(line.pts) : line \in audio}
      events  == {line.pt : line \in {l \in ToSet(body) :
                           l.type = "rtpmap" /\ l.name = "telephone-event"}}
  IN  /\ ~Garbled(body) => /\ start.payloadType \in formats \intersect {0, 8}
                           /\ 0 \in formats => start.payloadType = 0
      /\ start.dtmfPayloadType \in events \union {-1}
      /\ events # {} => start.dtmfPayloadType # -1
      /\ Ordinary(body) =>
           /\ start.addr = body[2].addr
           /\ \A line \in audio : line.port < 65536 => start.port = line.port
      /\ IsOffer(read)
      /\ read.connectionAddress = LocalIp /\ read.audioPort = RtpPort
      /\ read.payloadTypes[1] = start.payloadType
      /\ start.dtmfPayloadType \notin {0, 8} => read.dtmfPayloadType = start.dtmfPayloadType

\* An offer that is accepted is negotiated.
LEMMA AcceptNegotiates ==
  ASSUME NEW m, Fine(m), Outcome(m.body) = "good"
  PROVE  Negotiated(m.body, StartOf(m), ParseSdp(ParseSip(Serialize(AcceptMessage(m))).body))
<1> DEFINE body == m.body
           offer == ParseSdp(body)
           answer == MakeAnswer(offer, LocalIp, RtpPort)
           start == StartOf(m)
           read == ParseSdp(AnswerBody(m))
           c == Chosen(offer)
           d == offer.dtmfPayloadType
<1>1. body \in Seq(SdpLines) /\ offer \in Sessions
  BY ParsedType DEF Fine
<1>2. HasAnswer(offer)
  BY DEF Outcome
<1>3. answer.payloadTypes[1] = c /\ answer.dtmfPayloadType = d
  BY <1>1, AnswerType
<1>4. start = [addr |-> offer.connectionAddress, port |-> offer.audioPort,
               payloadType |-> answer.payloadTypes[1], dtmfPayloadType |-> answer.dtmfPayloadType]
  BY Zenon DEF StartOf
<1> HIDE DEF start, answer
<1>5. start.addr = offer.connectionAddress /\ start.port = offer.audioPort
      /\ start.payloadType = c /\ start.dtmfPayloadType = d
  BY <1>3, <1>4
<1>6. c \in {0, 8} /\ d \in (Nat \ {Garbage}) \union {-1}
  BY <1>1 DEF Chosen, Sessions
<1>7. /\ IsOffer(read)
      /\ read.connectionAddress = LocalIp /\ read.audioPort = RtpPort
      /\ read.payloadTypes[1] = c
      /\ d \notin {0, 8} => read.dtmfPayloadType = d
  BY <1>6, AcceptReadsBack, AnswerReads
<1>8. ParseSdp(ParseSip(Serialize(AcceptMessage(m))).body) = read
  BY AcceptReadsBack
<1> HIDE DEF read
<1> DEFINE audio   == {line \in ToSet(body) : line.type = "m" /\ line.media = "audio"}
           formats == UNION {ToSet(line.pts) : line \in audio}
           events  == {line.pt : line \in {l \in ToSet(body) :
                                l.type = "rtpmap" /\ l.name = "telephone-event"}}
<1>9. ~Garbled(body) => c \in formats \intersect {0, 8} /\ (0 \in formats => c = 0)
  BY <1>1, <1>2, CodecOffered
<1>10. d \in events \union {-1} /\ (events # {} => d # -1)
  BY <1>1, EventOffered
<1>11. Ordinary(body) => /\ offer.connectionAddress = body[2].addr
                         /\ \A line \in audio : line.port < 65536 => offer.audioPort = line.port
  BY <1>1, <1>2, DestinationOffered
<1> HIDE DEF body, offer, c, d
<1>12. Negotiated(body, start, read)
  <2> DEFINE f == formats
             e == events
             a == audio
  <2>1. ~Garbled(body) => start.payloadType \in f \intersect {0, 8} /\ (0 \in f => start.payloadType = 0)
    BY <1>5, <1>9
  <2>2. start.dtmfPayloadType \in e \union {-1} /\ (e # {} => start.dtmfPayloadType # -1)
    BY <1>5, <1>10
  <2>3. Ordinary(body) => /\ start.addr = body[2].addr
                          /\ \A line \in a : line.port < 65536 => start.port = line.port
    BY <1>5, <1>11
  <2>4. read.payloadTypes[1] = start.payloadType
        /\ (start.dtmfPayloadType \notin {0, 8} => read.dtmfPayloadType = start.dtmfPayloadType)
    BY <1>5, <1>7
  <2> QED BY <1>7, <2>1, <2>2, <2>3, <2>4 DEF Negotiated
<1> QED BY <1>8, <1>12 DEF body, start

-----------------------------------------------------------------------------
(* The loop *)

\* The two messages SipUas keeps are an INVITE, without its body, and the 200 to it.
Remembers(kept, cached) ==
  \E m : Fine(m) /\ kept = [m EXCEPT !.body = <<>>] /\ cached = AcceptMessage(m)

Memory == haveDialog => Remembers(lastInvite, last2xxInvite)

ServerInv == Inv /\ Memory

\* No dialog, nothing to remember.
LEMMA InitMemory == ServerInit => ServerInv
BY InitInv DEF ServerInit, ServerInv, Memory, Init

\* An INVITE that sets up a call is remembered, and its 200 with it.
LEMMA ProcessMemory ==
  ASSUME ServerInv, NEW m, Fine(m), Process(m)
  PROVE  Memory'
<1> DEFINE req == RequestOf(m)
<1>1. req \in Requests /\ Handle(req)
  BY FineRequest DEF Process
<1> HIDE DEF req
<1>2. SUFFICES ASSUME haveDialog' PROVE Remembers(lastInvite', last2xxInvite')
  BY DEF Memory
<1>3. CASE SetsUpCall(req)
  <2>1. lastInvite' = [m EXCEPT !.body = <<>>] /\ last2xxInvite' = AcceptMessage(m)
    BY <1>2, <1>3 DEF Process, req
  <2> QED BY <2>1 DEF Remembers
<1>4. CASE ~SetsUpCall(req)
  <2>1. lastInvite' = lastInvite /\ last2xxInvite' = last2xxInvite
    BY <1>2, <1>4 DEF Process, req
  <2>2. ~(Invite(req) /\ InviteNew(req))
    BY <1>4 DEF Invite, InviteNew, SetsUpCall
  <2>3. UNCHANGED dialog
    BY <1>1, <1>2, <2>2, DialogStep DEF ServerInv, Inv
  <2>4. haveDialog
    BY <1>2, <2>3 DEF dialog
  <2> QED BY <2>1, <2>4 DEF ServerInv, Memory
<1> QED BY <1>3, <1>4

\* A step of the loop keeps the agent's memory right.
LEMMA NextMemory == ServerInv /\ [ServerNext]_serverVars => ServerInv'
<1> SUFFICES ASSUME ServerInv, [ServerNext]_serverVars PROVE ServerInv'
  OBVIOUS
<1>1. Inv'
  BY ServerStep, NextInv DEF ServerInv
<1>2. CASE \E m : Fine(m) /\ Process(m)
  BY <1>1, <1>2, ProcessMemory DEF ServerInv
<1>3. CASE UNCHANGED <<vars, lastInvite, last2xxInvite>>
  <2>1. haveDialog' = haveDialog /\ lastInvite' = lastInvite /\ last2xxInvite' = last2xxInvite
    BY <1>3 DEF vars, dialog
  <2> QED BY <1>1, <2>1 DEF ServerInv, Memory
<1>4. CASE UNCHANGED serverVars
  BY <1>3, <1>4 DEF serverVars
<1> QED BY <1>2, <1>3, <1>4, Iteration DEF Discard

\* What handle answers, when it is not the cached 200.
LEMMA FreshResponses ==
  ASSUME Inv, NEW req \in Requests, Handle(req), ~FromCache(req)
  PROVE  /\ \A i \in 1 .. Len(result'.responses) :
              result'.responses[i].code \in Codes /\ result'.responses[i].code # 487
         /\ result'.req.method = "INVITE" =>
              ~(Len(result'.responses) = 1 /\ result'.responses[1].code = 200)
<1> DEFINE rs == result'.responses
           Ok == /\ \A i \in 1 .. Len(rs) : rs[i].code \in Codes /\ rs[i].code # 487
                 /\ result'.req.method = "INVITE" => ~(Len(rs) = 1 /\ rs[1].code = 200)
<1>0. result'.req = req
  BY ResultType DEF Inv
<1>1. ASSUME NEW code \in Codes, code # 487, rs = <<Response(req, code)>>, req.method = "INVITE" => code # 200
      PROVE  Ok
  BY <1>0, <1>1, ResponseType
<1>2. CASE Invite(req)
  <2>0. req.method = "INVITE"
    BY <1>2 DEF Invite
  <2>1. CASE InviteIncomplete(req)
    BY <1>1, <2>1 DEF InviteIncomplete, Return, Codes
  <2>2. CASE InviteRetransmitted(req)
    BY <2>0, <2>2 DEF FromCache, InviteRetransmitted
  <2>3. CASE InviteBusy(req)
    BY <1>1, <2>3 DEF InviteBusy, Return, Codes
  <2>4. CASE InviteNew(req)
    <3>1. PICK code \in {200, 400, 488} :
            rs = <<Response(req, 100), Response(req, 180), Response(req, code)>>
      <4>1. Refused(req, 400) \/ Refused(req, 488) \/ Accepted(req)
        BY <2>4, InviteNewEffect
      <4> QED BY <4>1 DEF Refused, Accepted, NewCallResult
    <3>2. /\ Response(req, 100).code = 100 /\ Response(req, 180).code = 180
          /\ Response(req, code).code = code
      BY ResponseType DEF Codes
    <3> HIDE DEF rs
    <3>3. Len(rs) = 3 /\ rs[1].code = 100 /\ rs[2].code = 180 /\ rs[3].code = code
      BY <3>1, <3>2
    <3>4. \A i \in 1 .. Len(rs) : i = 1 \/ i = 2 \/ i = 3
      BY <3>3
    <3> QED BY <3>3, <3>4 DEF Codes, rs
  <2> QED BY <1>2, <2>1, <2>2, <2>3, <2>4 DEF Invite
<1>3. CASE Options(req)
  BY <1>1, <1>3 DEF Options, Return, Codes
<1>4. CASE Ack(req)
  BY <1>0, <1>4 DEF Ack, Return
<1>5. CASE Cancel(req)
  <2>1. ~StillPending(req)
    BY DEF StillPending, OfDialog, Inv, DialogIsAnswered, TypeOK
  <2> QED BY <1>1, <1>5, <2>1 DEF Cancel, Return, Codes
<1>6. CASE Bye(req)
  <2>1. PICK code \in {200, 481} : rs = <<Response(req, code)>>
    BY <1>6 DEF Bye, Return
  <2> QED BY <1>1, <1>6, <2>1 DEF Codes, Bye
<1>7. CASE Other(req)
  BY <1>1, <1>7 DEF Other, Return, Codes
<1> QED BY <1>2, <1>3, <1>4, <1>5, <1>6, <1>7 DEF Handle

\* The request that a response answers.
Answered == IF result.req.method = "INVITE" /\ Len(outbox) = 1 /\ result.responses[1].code = 200
              THEN lastInvite ELSE msg

AllRead == \A i \in 1 .. Len(outbox) : ReadsAs(outbox[i], result.responses[i].code, Answered)

\* The property in the words of the lemmas above.
LEMMA ReadBack == AllRead => ResponsesReadBack
<1> SUFFICES ASSUME \A i \in 1 .. Len(outbox) : ReadsAs(outbox[i], result.responses[i].code, Answered)
             PROVE  ResponsesReadBack
  BY DEF AllRead
<1> QED BY Zenon DEF ResponsesReadBack, ReadsAs, ValuesOf, FirstOf, Answered, Sent

\* The cached 200.
LEMMA CacheAnswers ==
  ASSUME ServerInv, NEW m, Fine(m), Process(m), msg' = m, FromCache(RequestOf(m))
  PROVE  AllRead'
<1> DEFINE req == RequestOf(m)
<1>1. /\ req.method = "INVITE" /\ ~Incomplete(req) /\ Retransmitted(req)
      /\ req \in Requests /\ Handle(req)
  BY FineRequest DEF FromCache, Process
<1>2. haveDialog /\ answered /\ last2xx = Response(invite, 200) /\ invite \in Requests
  BY <1>1 DEF Retransmitted, ServerInv, Inv, DialogIsAnswered, TypeOK
<1>3. PICK m0 : Fine(m0) /\ lastInvite = [m0 EXCEPT !.body = <<>>] /\ last2xxInvite = AcceptMessage(m0)
  BY <1>2 DEF ServerInv, Memory, Remembers
<1> DEFINE answer(i) == Answer(m, req, i)
<1>4. outbox' = [i \in 1 .. Len(result'.responses) |-> answer(i)]
  BY Zenon DEF Process
<1>5. InviteRetransmitted(req)
  BY <1>1 DEF Handle, Invite, InviteIncomplete, InviteBusy, InviteNew, Options, Ack, Cancel, Bye, Other,
              Foreign, Retransmitted
<1>6. ~SetsUpCall(req)
  BY <1>1 DEF SetsUpCall
<1>7. lastInvite' = lastInvite
  <2>1. haveDialog'
    BY <1>2, <1>5 DEF InviteRetransmitted, dialog
  <2> QED BY <1>6, <2>1 DEF Process
<1>8. \A i : answer(i) = last2xxInvite
  BY <1>1 DEF Answer, FromCache
<1> HIDE DEF req, answer
<1>9. result' = [req |-> req, responses |-> <<last2xx>>, media |-> "None"]
  BY <1>2, <1>5 DEF InviteRetransmitted, Return
<1>10. last2xx.code = 200
  BY <1>2, ResponseType DEF Codes
<1>11. /\ result'.req.method = "INVITE" /\ Len(result'.responses) = 1
       /\ result'.responses[1].code = 200
  BY <1>1, <1>9, <1>10
<1>12. Len(outbox') = 1 /\ outbox'[1] = last2xxInvite
  BY <1>4, <1>8, <1>11
<1>13. Answered' = lastInvite
  BY <1>7, <1>11, <1>12 DEF Answered
<1>14. ReadsAs(last2xxInvite, 200, lastInvite)
  <2>1. ReadsAs(AcceptMessage(m0), 200, m0)
    BY <1>3, AcceptReadsBack
  <2>2. lastInvite.headers = m0.headers
    BY <1>3, Bodiless
  <2>3. ReadsAs(AcceptMessage(m0), 200, lastInvite)
    BY <2>1, <2>2, HeadersRead
  <2> QED BY <1>3, <2>3
<1>15. \A i \in 1 .. Len(outbox') : ReadsAs(outbox'[i], result'.responses[i].code, Answered')
  BY <1>11, <1>12, <1>13, <1>14
<1> QED BY <1>15 DEF AllRead

\* The other responses are built from the request.
LEMMA RequestAnswers ==
  ASSUME ServerInv, NEW m, Fine(m), Process(m), msg' = m, ~FromCache(RequestOf(m))
  PROVE  AllRead'
<1> DEFINE req == RequestOf(m)
           rs == result'.responses
           answer(i) == Answer(m, req, i)
<1>1. req \in Requests /\ Handle(req)
  BY FineRequest DEF Process
<1>2. outbox' = [i \in 1 .. Len(rs) |-> answer(i)]
  BY Zenon DEF Process
<1>3. /\ \A i \in 1 .. Len(rs) : rs[i].code \in Codes /\ rs[i].code # 487
      /\ result'.req.method = "INVITE" => ~(Len(rs) = 1 /\ rs[1].code = 200)
  BY <1>1, FreshResponses DEF ServerInv
<1>4. rs \in Seq(Responses)
  BY <1>1, ResultType DEF ServerInv, Inv
<1>5. ASSUME NEW i \in 1 .. Len(rs) PROVE ReadsAs(answer(i), rs[i].code, m)
  <2>1. rs[i].code \in Nat /\ rs[i].code # 487
    BY <1>3 DEF Codes
  <2>2. CASE rs[i].code = 200 /\ SetsUpCall(req)
    <3>1. answer(i) = AcceptMessage(m)
      BY <2>2 DEF Answer
    <3> HIDE DEF answer
    <3> QED BY <2>2, <3>1, AcceptReadsBack
  <2>3. CASE ~(rs[i].code = 200 /\ SetsUpCall(req))
    <3> DEFINE code == rs[i].code
               e == <<>>
    <3>1. answer(i) = MakeResponse(m, code, e)
      BY <2>1, <2>3 DEF Answer
    <3>2. code \in Nat /\ e \in Seq(SdpLines)
      BY <2>1
    <3> HIDE DEF answer, code, e
    <3>3. ReadsAs(answer(i), code, m)
      BY <3>1, <3>2, RepliesReadBack
    <3> QED BY <3>3 DEF code
  <2> QED BY <2>2, <2>3
<1> HIDE DEF answer, req
<1>6. Len(rs) \in Nat /\ Len(outbox') = Len(rs) /\ \A i \in 1 .. Len(rs) : outbox'[i] = answer(i)
  BY <1>2, <1>4
<1>7. Answered' = m
  BY <1>3, <1>6 DEF Answered
<1>8. \A i \in 1 .. Len(outbox') : ReadsAs(outbox'[i], result'.responses[i].code, Answered')
  BY <1>5, <1>6, <1>7
<1> QED BY <1>8 DEF AllRead

\* A step of the loop sends what can be read.
LEMMA ReadBackStep ==
  ServerInv /\ AllRead /\ [ServerNext]_serverVars => AllRead'
<1> SUFFICES ASSUME ServerInv, AllRead, [ServerNext]_serverVars PROVE AllRead'
  OBVIOUS
<1>1. CASE \E m : Fine(m) /\ Process(m) /\ msg' = m
  BY <1>1, CacheAnswers, RequestAnswers
<1>2. CASE Discard
  <2>1. Len(outbox') = 0
    BY <1>2 DEF Discard
  <2> QED BY <2>1 DEF AllRead
<1>3. CASE UNCHANGED serverVars
  BY <1>3 DEF serverVars, vars, AllRead, Answered
<1> QED BY <1>1, <1>2, <1>3, Iteration

\* SipUas.cpp:41-43: the caller parses every response, finds its Vias in order, its From,
\* Call-ID and CSeq, and one tag in the To header; the cached 200 too.
THEOREM ResponsesAreRead == ServerSpec => []ResponsesReadBack
<1>1. ServerInit => AllRead
  BY DEF ServerInit, AllRead
<1> QED BY <1>1, InitMemory, NextMemory, ReadBackStep, ReadBack, PTL DEF ServerSpec

Agreed ==
  result.media = "Start" /\ started # NotStarted =>
    Negotiated(msg.body, started, ParseSdp(ParseSip(Sent(Len(outbox))).body))

\* The property in the words of AcceptNegotiates.
LEMMA AgreedIsNegotiated == Agreed => MediaAsNegotiated
<1> SUFFICES ASSUME Agreed, result.media = "Start", started # NotStarted PROVE MediaAsNegotiated
  BY DEF MediaAsNegotiated
<1>1. Negotiated(msg.body, started, ParseSdp(ParseSip(Sent(Len(outbox))).body))
  BY DEF Agreed
<1> QED BY <1>1 DEF Negotiated, MediaAsNegotiated

\* Media starts only with an INVITE that is accepted.
LEMMA StartNegotiates ==
  ASSUME ServerInv, NEW m, Fine(m), Process(m), msg' = m
  PROVE  Agreed'
<1> DEFINE req == RequestOf(m)
           rs == result'.responses
           answer(i) == Answer(m, req, i)
<1>1. req \in Requests /\ Handle(req) /\ req.offer = Outcome(m.body)
  BY FineRequest DEF Process
<1>2. SUFFICES ASSUME result'.media = "Start" PROVE Agreed'
  BY DEF Agreed
<1>3. Invite(req) /\ InviteNew(req)
  BY <1>1, <1>2 DEF Handle, Invite, InviteIncomplete, InviteRetransmitted, InviteBusy, Return,
                    Options, Ack, Cancel, Bye, Other
<1>4. req.offer = "good" /\ Accept(req)
  BY <1>2, <1>3 DEF InviteNew, Refuse, Return
<1>5. SetsUpCall(req) /\ ~FromCache(req)
  BY <1>3 DEF SetsUpCall, FromCache, Invite, InviteNew
<1>6. rs = <<Response(req, 100), Response(req, 180), Response(req, 200)>>
  BY <1>4 DEF Accept, Return
<1>7. Response(req, 200).code = 200
  BY <1>1, ResponseType DEF Codes
<1>8. outbox' = [i \in 1 .. Len(rs) |-> answer(i)]
  BY Zenon DEF Process
<1>9. Len(rs) = 3 /\ rs[3].code = 200
  BY <1>6, <1>7
<1>10. answer(3) = AcceptMessage(m)
  BY <1>5, <1>9 DEF Answer
<1> HIDE DEF answer, rs
<1>11. Len(outbox') = 3 /\ outbox'[3] = AcceptMessage(m)
  BY <1>8, <1>9, <1>10
<1>12. started' = StartOf(m)
  BY <1>2 DEF Process
<1>13. Negotiated(m.body, StartOf(m), ParseSdp(ParseSip(Serialize(AcceptMessage(m))).body))
  BY <1>1, <1>4, AcceptNegotiates
<1>14. Negotiated(msg'.body, started', ParseSdp(ParseSip(Serialize(outbox'[Len(outbox')])).body))
  BY <1>11, <1>12, <1>13
<1> QED BY <1>14 DEF Agreed, Sent

\* The step of MediaAsNegotiated.
LEMMA NegotiationStep ==
  ServerInv /\ Agreed /\ [ServerNext]_serverVars => Agreed'
<1> SUFFICES ASSUME ServerInv, Agreed, [ServerNext]_serverVars PROVE Agreed'
  OBVIOUS
<1>1. CASE \E m : Fine(m) /\ Process(m) /\ msg' = m
  BY <1>1, StartNegotiates
<1>2. CASE Discard
  BY <1>2 DEF Discard, Agreed
<1>3. CASE UNCHANGED serverVars
  BY <1>3 DEF serverVars, vars, Agreed, Sent
<1> QED BY <1>1, <1>2, <1>3, Iteration

\* SipUas.cpp:113-144: when media starts, both sides mean the same codec, addresses and
\* telephone event, whatever the offer is made of.
THEOREM MediaIsNegotiated == ServerSpec => []MediaAsNegotiated
<1>1. ServerInit => Agreed
  BY DEF ServerInit, Init, Agreed
<1> QED BY <1>1, InitMemory, NextMemory, NegotiationStep, AgreedIsNegotiated, PTL DEF ServerSpec

\* main.cpp:314-325, SipUas.cpp: whatever datagrams come, the agent keeps what it promises:
\* an answered dialog, one final response per INVITE with the identifiers of its request,
\* and a call that no other Call-ID disturbs.
THEOREM ServerKeepsPromises ==
  ServerSpec => /\ [](TypeOK /\ DialogIsAnswered /\ OneFinalResponse /\ EchoesRequest)
                /\ ActiveCallUndisturbed
BY ServerImplementsAgent, TypeCorrect, AlwaysAnswered, FinalResponseOnce, ResponsesEcho,
   CallUndisturbed, PTL
=============================================================================
