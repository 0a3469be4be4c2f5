--------------------------- MODULE SipEndpointProofs ---------------------------
(***************************************************************************)
(* Five inductive invariants about the main loop, for every number of     *)
(* softphones and every bound on the network.  Without INVITEs inside a    *)
(* call, on any network (reordering included): the media session and the   *)
(* UAS's dialog never drift apart and the RTP port is never bound twice.   *)
(* With them: who is in a call has the media, and only they drive the two  *)
(* apart.  On a network that keeps the order: the media does not outlive   *)
(* the call and, with INVITEs inside the call or without, is started once  *)
(* for each.                                                               *)
(***************************************************************************)
EXTENDS SipEndpoint, SequenceTheorems, TLAPS

\* Each softphone sends under its own Call-ID, and INVITEs only with number 1.
Own(c, req) ==
  /\ req \in Uas!Requests
  /\ req.cid = c
  /\ req.method = "INVITE" => req.cseq = 1

Agreed ==
  /\ proc # "crashed"
  /\ proc = "running" =>
       /\ haveDialog \in BOOLEAN
       /\ haveDialog => answered /\ invite.cseq = 1
  /\ MediaMatchesDialog

OwnRequests ==
  /\ wire \in [CallIds -> Seq(Uas!Requests)]
  /\ \A c \in CallIds : \A i \in 1 .. Len(wire[c]) : Own(c, wire[c][i])
  /\ phase \in [CallIds -> Phases]
  /\ pending \in [CallIds -> Uas!Requests]
  /\ \A c \in CallIds : phase[c] # "idle" => Own(c, pending[c])

Inv == Agreed /\ OwnRequests

LEMMA InitInv == Init => Inv
<1> SUFFICES ASSUME Init PROVE Inv
  OBVIOUS
<1>1. Uas!NoRequest \in Uas!Requests
  BY DEF Uas!NoRequest, Uas!Requests, Uas!Methods, Uas!Offers
<1>2. Agreed
  BY DEF Init, Uas!Init, Agreed, MediaMatchesDialog
<1>3. OwnRequests
  <2>1. \A c \in CallIds : wire[c] = <<>> /\ phase[c] = "idle"
    BY DEF Init
  <2>2. wire \in [CallIds -> Seq(Uas!Requests)]
    BY DEF Init
  <2> QED BY <1>1, <2>1, <2>2 DEF Init, OwnRequests, Phases
<1> QED BY <1>2, <1>3 DEF Inv

\* An iteration that ends in an exception changes nothing of the media.
LEMMA ThrowEnds ==
  ASSUME NEW req, ServeThrows(req)
  PROVE  /\ proc = "running" /\ proc' = "thrown"
         /\ UNCHANGED <<media, startedFor>>
         /\ sent \subseteq sent'
  BY DEF ServeThrows, Transmit

\* A request that does not carry an INVITE inside the call keeps the two in step.
LEMMA ServeAgrees ==
  ASSUME Agreed, NEW c \in CallIds, NEW req, Own(c, req), Serve(req)
  PROVE  Agreed'
<1>0. /\ proc = "running"
      /\ req \in Uas!Requests /\ req.cid = c /\ req.cid # NoHeader
      /\ haveDialog => media = invite
      /\ ~haveDialog => media = NoMedia
  BY EndpointAssumption DEF Own, Serve, Agreed, MediaMatchesDialog
<1>1. CASE UNCHANGED <<haveDialog, answered, invite>> /\ result'.media = "None"
  <2>1. UNCHANGED <<media, proc>>
    BY <1>1 DEF Serve
  <2> QED BY <1>1, <2>1 DEF Agreed, MediaMatchesDialog
<1>2. CASE Uas!Invite(req)
  <2>0. req.method = "INVITE" /\ req.cseq = 1
    BY <1>2 DEF Uas!Invite, Own
  <2>1. CASE ~Uas!InviteNew(req)
    BY <1>1, <1>2, <2>1 DEF Uas!Invite, Uas!InviteIncomplete, Uas!InviteRetransmitted,
                            Uas!InviteBusy, Uas!Return, Uas!dialog
  <2>2. CASE Uas!InviteNew(req)
    <3>1. ~haveDialog
      BY <1>0, <2>0, <2>2 DEF Uas!InviteNew, Uas!Retransmitted, Uas!Foreign, Uas!CSeqNum,
                              BadCSeqs, Agreed
    <3>2. invite' = req
      BY <2>2 DEF Uas!InviteNew
    <3>3. CASE haveDialog' = FALSE /\ result'.media = "None"
      <4>1. UNCHANGED <<media, proc>>
        BY <3>3 DEF Serve
      <4> QED BY <1>0, <3>1, <3>3, <4>1 DEF Agreed, MediaMatchesDialog
    <3>4. CASE haveDialog' = TRUE /\ answered' = TRUE /\ result'.media = "Start"
      <4>1. StartMedia(req)
        BY <3>4 DEF Serve
      <4>2. media' = req /\ proc' = proc
        BY <1>0, <3>1, <4>1 DEF StartMedia
      <4> QED BY <1>0, <2>0, <3>2, <3>4, <4>2 DEF Agreed, MediaMatchesDialog
    <3>5. ASSUME NEW code, Uas!Refuse(req, code)
          PROVE  haveDialog' = FALSE /\ result'.media = "None"
      BY <3>5 DEF Uas!Refuse, Uas!Return
    <3>6. CASE Uas!Accept(req)
      BY <3>4, <3>6 DEF Uas!Accept, Uas!Return
    <3> QED BY <2>2, <3>3, <3>5, <3>6 DEF Uas!InviteNew
  <2> QED BY <2>1, <2>2
<1>3. CASE Uas!Bye(req) /\ Uas!OfDialog(req)
  <2>1. /\ haveDialog' = FALSE
        /\ result'.media = "Stop"
    BY <1>3 DEF Uas!Bye, Uas!Return
  <2>2. media' = NoMedia /\ proc' = proc
    BY <2>1 DEF Serve, StopMedia
  <2> QED BY <1>0, <2>1, <2>2 DEF Agreed, MediaMatchesDialog
<1>4. CASE Uas!Bye(req) /\ ~Uas!OfDialog(req)
  BY <1>1, <1>4 DEF Uas!Bye, Uas!Return, Uas!dialog
<1>5. CASE Uas!Cancel(req)
  <2>1. ~Uas!StillPending(req)
    BY <1>0 DEF Uas!StillPending, Uas!OfDialog, Agreed
  <2>2. haveDialog' = haveDialog
    BY <1>0, <1>5, <2>1 DEF Uas!Cancel, Agreed
  <2> QED BY <1>1, <1>5, <2>1, <2>2 DEF Uas!Cancel, Uas!Return
<1>6. CASE Uas!Options(req) \/ Uas!Ack(req) \/ Uas!Other(req)
  BY <1>1, <1>6 DEF Uas!Options, Uas!Ack, Uas!Other, Uas!Return, Uas!dialog
<1> QED BY <1>2, <1>3, <1>4, <1>5, <1>6 DEF Serve, Uas!Handle

\* A sequence without its i-th element.
LEMMA RemoveAtIs ==
  ASSUME NEW S, NEW s \in Seq(S), NEW i \in 1 .. Len(s), NEW r, r = RemoveAt(s, i)
  PROVE  /\ r \in Seq(S)
         /\ Len(r) = Len(s) - 1
         /\ \A j \in 1 .. Len(s) - 1 : r[j] = IF j < i THEN s[j] ELSE s[j + 1]
<1> DEFINE n == Len(s)
           a == SubSeq(s, 1, i - 1)
           b == SubSeq(s, i + 1, n)
<1>1. n \in Nat /\ i \in Int /\ 1 <= i /\ i <= n /\ \A j \in 1 .. n : s[j] \in S
  BY LenProperties
<1>2. r = a \o b
  BY DEF RemoveAt
<1> HIDE DEF n
<1>3. /\ a \in Seq(S) /\ Len(a) = i - 1
      /\ \A j \in 1 .. i - 1 : a[j] = s[j]
  <2>1. /\ a \in Seq(S) /\ Len(a) = IF 1 <= i - 1 THEN (i - 1) - 1 + 1 ELSE 0
        /\ \A j \in 1 .. (i - 1) - 1 + 1 : a[j] = s[1 + j - 1]
    <3>1. \A j \in 1 .. i - 1 : s[j] \in S
      BY <1>1
    <3> QED BY <1>1, <3>1, SubSeqProperties
  <2> HIDE DEF a
  <2> QED BY <1>1, <2>1
<1>4. /\ b \in Seq(S) /\ Len(b) = n - i
      /\ \A j \in 1 .. n - i : b[j] = s[i + j]
  <2>1. /\ b \in Seq(S) /\ Len(b) = IF i + 1 <= n THEN n - (i + 1) + 1 ELSE 0
        /\ \A j \in 1 .. n - (i + 1) + 1 : b[j] = s[(i + 1) + j - 1]
    <3>1. \A j \in i + 1 .. n : s[j] \in S
      BY <1>1
    <3> QED BY <1>1, <3>1, SubSeqProperties
  <2> HIDE DEF b
  <2> QED BY <1>1, <2>1
<1> HIDE DEF a, b
<1>5. /\ r \in Seq(S) /\ Len(r) = Len(a) + Len(b)
      /\ \A j \in 1 .. Len(a) + Len(b) : r[j] = IF j <= Len(a) THEN a[j] ELSE b[j - Len(a)]
  BY <1>2, <1>3, <1>4, ConcatProperties
<1>6. Len(r) = n - 1
  BY <1>1, <1>3, <1>4, <1>5
<1>7. ASSUME NEW j \in 1 .. n - 1 PROVE r[j] = IF j < i THEN s[j] ELSE s[j + 1]
  <2>1. r[j] = IF j <= i - 1 THEN a[j] ELSE b[j - (i - 1)]
    BY <1>1, <1>3, <1>4, <1>5
  <2>2. CASE j < i
    BY <1>1, <1>3, <2>1, <2>2
  <2>3. CASE j >= i
    <3>1. r[j] = b[j - (i - 1)] /\ j - (i - 1) \in 1 .. n - i
      BY <1>1, <2>1, <2>3
    <3>2. b[j - (i - 1)] = s[i + (j - (i - 1))]
      BY <1>4, <3>1
    <3>3. i + (j - (i - 1)) = j + 1
      BY <1>1
    <3> QED BY <1>1, <2>3, <3>1, <3>2, <3>3
  <2> QED BY <1>1, <2>2, <2>3
<1> QED BY <1>5, <1>6, <1>7 DEF n

\* What is left on the wire after one request is taken from it was there before.
LEMMA RemoveAtKeeps ==
  ASSUME NEW S, NEW s \in Seq(S), NEW i \in 1 .. Len(s)
  PROVE  /\ RemoveAt(s, i) \in Seq(S)
         /\ \A j \in 1 .. Len(RemoveAt(s, i)) : \E k \in 1 .. Len(s) : RemoveAt(s, i)[j] = s[k]
<1> DEFINE r == RemoveAt(s, i)
           n == Len(s)
<1>1. /\ r \in Seq(S) /\ Len(r) = n - 1
      /\ \A j \in 1 .. n - 1 : r[j] = IF j < i THEN s[j] ELSE s[j + 1]
  BY RemoveAtIs
<1>2. n \in Nat /\ i \in 1 .. n
  OBVIOUS
<1> HIDE DEF r, n
<1>3. \A j \in 1 .. Len(r) : \E k \in 1 .. n : r[j] = s[k]
  <2> TAKE j \in 1 .. Len(r)
  <2>1. j \in 1 .. n /\ j + 1 \in 1 .. n /\ (r[j] = s[j] \/ r[j] = s[j + 1])
    BY <1>1, <1>2
  <2> QED BY <2>1
<1> QED BY <1>1, <1>3 DEF r, n

LEMMA WireShrinks ==
  ASSUME OwnRequests, NEW c \in CallIds, NEW i \in Arriving(c),
         wire' = [wire EXCEPT ![c] = RemoveAt(@, i)], UNCHANGED <<phase, pending>>
  PROVE  OwnRequests'
<1>1. wire[c] \in Seq(Uas!Requests) /\ i \in 1 .. Len(wire[c])
  BY DEF OwnRequests, Arriving
<1>2. RemoveAt(wire[c], i) \in Seq(Uas!Requests)
  BY <1>1, RemoveAtKeeps
<1>3. \A j \in 1 .. Len(RemoveAt(wire[c], i)) : Own(c, RemoveAt(wire[c], i)[j])
  BY <1>1, RemoveAtKeeps DEF OwnRequests
<1> QED BY <1>2, <1>3 DEF OwnRequests

LEMMA AskOwn ==
  ASSUME Inv, NEW c \in CallIds, NEW req, Own(c, req), NEW p \in Phases, Ask(c, req, p)
  PROVE  Inv'
<1>1. wire[c] \in Seq(Uas!Requests) /\ req \in Uas!Requests
  BY DEF Inv, OwnRequests, Own
<1>2. /\ Append(wire[c], req) \in Seq(Uas!Requests)
      /\ \A j \in 1 .. Len(Append(wire[c], req)) : Own(c, Append(wire[c], req)[j])
  BY <1>1 DEF Inv, OwnRequests
<1>3. OwnRequests'
  BY <1>1, <1>2 DEF Ask, Inv, OwnRequests
<1>4. Agreed'
  BY DEF Ask, endpoint, uas, Inv, Agreed, MediaMatchesDialog
<1> QED BY <1>3, <1>4 DEF Inv

LEMMA NextInv == ~ReInvites /\ Inv /\ [Next]_vars => Inv'
<1> SUFFICES ASSUME ~ReInvites, Inv, [Next]_vars PROVE Inv'
  OBVIOUS
<1>1. ASSUME Interrupt PROVE Inv'
  <2>1. Agreed'
    BY <1>1 DEF Interrupt, uas, Inv, Agreed, MediaMatchesDialog
  <2>2. OwnRequests'
    BY <1>1 DEF Interrupt, environment, network, Inv, OwnRequests
  <2> QED BY <2>1, <2>2 DEF Inv
<1>2. ASSUME NEW c \in CallIds, NEW i \in Arriving(c)
      PROVE  Own(c, wire[c][i])
  BY DEF Arriving, Inv, OwnRequests
<1>3. ASSUME NEW c \in CallIds, Deliver(c) PROVE Inv'
  <2> PICK i \in Arriving(c) :
        /\ Serve(wire[c][i])
        /\ wire' = [wire EXCEPT ![c] = RemoveAt(@, i)]
        /\ UNCHANGED <<phase, pending>>
    BY <1>3 DEF Deliver
  <2> QED BY <1>2, ServeAgrees, WireShrinks DEF Inv
<1>4. ASSUME NEW c \in CallIds, DeliverCopy(c) PROVE Inv'
  <2> PICK i \in Arriving(c) : Serve(wire[c][i]) /\ UNCHANGED <<wire, phase, pending>>
    BY <1>4 DEF DeliverCopy
  <2>1. Agreed'
    BY <1>2, ServeAgrees DEF Inv
  <2> QED BY <2>1 DEF Inv, OwnRequests
<1>5. ASSUME NEW c \in CallIds, Lose(c) PROVE Inv'
  <2> PICK i \in Arriving(c) :
        /\ wire' = [wire EXCEPT ![c] = RemoveAt(@, i)]
        /\ UNCHANGED <<endpoint, sent, answers, phase, pending>>
    BY <1>5 DEF Lose
  <2>1. Agreed'
    BY DEF endpoint, uas, Inv, Agreed, MediaMatchesDialog
  <2> QED BY <2>1, WireShrinks DEF Inv
<1>11. ASSUME NEW c \in CallIds, LoseAnswer(c) PROVE Inv'
  <2>1. UNCHANGED <<endpoint, wire, phase, pending>>
    BY <1>11 DEF LoseAnswer
  <2>2. Agreed'
    BY <2>1 DEF endpoint, uas, Inv, Agreed, MediaMatchesDialog
  <2> QED BY <2>1, <2>2 DEF Inv, OwnRequests
<1>12. ASSUME NEW c \in CallIds, DeliverLast(c) PROVE Inv'
  <2> PICK i \in Arriving(c) :
        /\ ServeThrows(wire[c][i])
        /\ wire' = [wire EXCEPT ![c] = RemoveAt(@, i)]
        /\ UNCHANGED <<phase, pending>>
    BY <1>12 DEF DeliverLast
  <2>1. Agreed'
    BY ThrowEnds DEF Agreed, MediaMatchesDialog
  <2> QED BY <2>1, WireShrinks DEF Inv
<1>6. ASSUME NEW c \in CallIds, Call(c) PROVE Inv'
  <2> PICK offer \in Uas!Offers : Ask(c, Request("INVITE", c, 1, offer), "calling")
    BY <1>6 DEF Call
  <2>1. Own(c, Request("INVITE", c, 1, offer))
    BY DEF Own, Request, Uas!Requests, Uas!Methods, CSeqs
  <2> QED BY <2>1, AskOwn DEF Phases
<1>7. ASSUME NEW c \in CallIds, HangUp(c) PROVE Inv'
  <2>1. Own(c, Request("BYE", c, 3, "good"))
    BY DEF Own, Request, Uas!Requests, Uas!Methods, Uas!Offers, CSeqs
  <2> QED BY <1>7, <2>1, AskOwn DEF HangUp, Phases
<1>8. ASSUME NEW c \in CallIds, Retransmit(c) PROVE Inv'
  <2>1. Own(c, pending[c]) /\ phase[c] \in Phases
    BY <1>8 DEF Retransmit, Waits, Inv, OwnRequests
  <2> QED BY <1>8, <2>1, AskOwn DEF Retransmit, Waits
<1>9. ASSUME NEW c \in CallIds, Hear(c) PROVE Inv'
  <2>1. Agreed'
    BY <1>9 DEF Hear, endpoint, uas, Inv, Agreed, MediaMatchesDialog
  <2>2. PICK p \in Phases : phase' = [phase EXCEPT ![c] = p] /\ phase[c] # "idle"
    BY <1>9 DEF Hear, Phases
  <2>3. UNCHANGED <<wire, pending>>
    BY <1>9 DEF Hear
  <2> QED BY <2>1, <2>2, <2>3 DEF Inv, OwnRequests
<1>10. CASE UNCHANGED vars
  <2>1. Agreed'
    BY <1>10 DEF vars, endpoint, uas, Inv, Agreed, MediaMatchesDialog
  <2>2. OwnRequests'
    BY <1>10 DEF vars, environment, network, Inv, OwnRequests
  <2> QED BY <2>1, <2>2 DEF Inv
<1> QED
  BY <1>1, <1>3, <1>4, <1>5, <1>6, <1>7, <1>8, <1>9, <1>10, <1>11, <1>12 DEF Next, ReInvite

LEMMA Invariance ==
  ASSUME ~ReInvites
  PROVE  Spec => []Inv
<1>1. Inv /\ [Next]_vars => Inv'
  BY NextInv
<1> QED BY <1>1, InitInv, PTL DEF Spec

\* main.cpp:327-334: after every iteration of the loop the media session is the one of
\* the dialog, whatever the network does to the requests.
THEOREM MediaAgrees ==
  ASSUME ~ReInvites
  PROVE  Spec => []MediaMatchesDialog
<1>1. Inv => MediaMatchesDialog
  BY DEF Inv, Agreed
<1>2. Spec => []Inv
  BY Invariance
<1> QED BY <1>1, <1>2, PTL

\* main.cpp:55, 328: the RTP port is never bound twice.
THEOREM NeverTwoSessions ==
  ASSUME ~ReInvites
  PROVE  Spec => []OneMediaSession
<1>1. Inv => OneMediaSession
  BY DEF Inv, Agreed, OneMediaSession
<1>2. Spec => []Inv
  BY Invariance
<1> QED BY <1>1, <1>2, PTL

-----------------------------------------------------------------------------
(* Who is in a call has the media: also with INVITEs inside the call, which    *)
(* may make the program crash but not take the media away.                     *)

\* What softphone c ever asks for.
Speaks(c, req) ==
  /\ req \in Uas!Requests
  /\ req.cid = c
  /\ \/ req.method = "INVITE" /\ req.cseq \in {1, 2}
     \/ req.method = "BYE" /\ req.cseq = 3

Carried(w, c) == {w[c][i] : i \in 1 .. Len(w[c])}

\* No BYE is under way before the softphone hangs up.
Talk ==
  /\ wire \in [CallIds -> Seq(Uas!Requests)]
  /\ phase \in [CallIds -> Phases]
  /\ pending \in [CallIds -> Uas!Requests]
  /\ \A c \in CallIds : \A req \in Carried(wire, c) : Speaks(c, req)
  /\ \A c \in CallIds : phase[c] # "idle" => Speaks(c, pending[c])
  /\ \A c \in CallIds : phase[c] \in {"calling", "reinviting"} => pending[c].method = "INVITE"
  /\ \A c \in CallIds : phase[c] \notin {"closing", "over"} =>
       \A req \in Carried(wire, c) : req.method = "INVITE"

\* The media is that of the dialog's caller, though perhaps not of its last INVITE.
Held ==
  proc = "running" /\ haveDialog =>
    /\ answered
    /\ invite.cid \in CallIds
    /\ media.cid = invite.cid
    /\ last2xx.cid = invite.cid

Accepted(responses, c) ==
  \E r \in responses : r.cid = c /\ r.code = 200 /\ r.cseq \in {1, 2}

\* An INVITE that was accepted, whether the softphone knows it or not, has the media.
AcceptedHasMedia ==
  \A c \in CallIds :
    /\ phase[c] \in {"up", "reinviting"} => Accepted(sent, c)
    /\ /\ proc = "running" /\ Accepted(sent, c)
       /\ phase[c] \in {"calling", "up", "reinviting"}
       => media.cid = c

\* Who has not called has sent nothing and been told nothing.
Silent ==
  \A c \in CallIds : phase[c] = "idle" =>
    /\ Carried(wire, c) = {}
    /\ proc = "running" => \A r \in sent : r.cid # c

\* Every answer on its way was sent, and is waited for.
Flight == \A r \in answers : r \in sent /\ Awaited(r)

MInv == Talk /\ Held /\ AcceptedHasMedia /\ Silent /\ Flight

LEMMA InitMInv == Init => MInv
<1> SUFFICES ASSUME Init PROVE MInv
  OBVIOUS
<1>1. Uas!NoRequest \in Uas!Requests
  BY DEF Uas!NoRequest, Uas!Requests, Uas!Methods, Uas!Offers
<1>2. \A c \in CallIds : wire[c] = <<>> /\ phase[c] = "idle" /\ Carried(wire, c) = {}
  BY DEF Init, Carried
<1>3. Talk
  BY <1>1, <1>2 DEF Init, Talk, Phases
<1>4. Held /\ AcceptedHasMedia /\ Silent /\ Flight
  BY <1>2 DEF Init, Uas!Init, Held, AcceptedHasMedia, Silent, Flight
<1> QED BY <1>3, <1>4 DEF MInv

LEMMA WireTaken ==
  ASSUME NEW w \in [CallIds -> Seq(Uas!Requests)], NEW c \in CallIds, NEW i \in 1 .. Len(w[c]),
         NEW v, v = [w EXCEPT ![c] = RemoveAt(@, i)]
  PROVE  /\ v \in [CallIds -> Seq(Uas!Requests)]
         /\ \A d \in CallIds : Carried(v, d) \subseteq Carried(w, d)
<1>1. w[c] \in Seq(Uas!Requests)
  OBVIOUS
<1>2. /\ RemoveAt(w[c], i) \in Seq(Uas!Requests)
      /\ \A j \in 1 .. Len(RemoveAt(w[c], i)) :
           \E k \in 1 .. Len(w[c]) : RemoveAt(w[c], i)[j] = w[c][k]
  BY <1>1, RemoveAtKeeps
<1>3. v \in [CallIds -> Seq(Uas!Requests)] /\ v[c] = RemoveAt(w[c], i)
      /\ \A d \in CallIds \ {c} : v[d] = w[d]
  BY <1>2
<1>4. Carried(v, c) \subseteq Carried(w, c)
  BY <1>2, <1>3 DEF Carried
<1>5. \A d \in CallIds \ {c} : Carried(v, d) = Carried(w, d)
  BY <1>3 DEF Carried
<1> QED BY <1>3, <1>4, <1>5

\* Softphone c has sent req.
Asked(w, v, c, req) ==
  /\ v \in [CallIds -> Seq(Uas!Requests)]
  /\ Carried(v, c) = Carried(w, c) \union {req}
  /\ \A d \in CallIds \ {c} : Carried(v, d) = Carried(w, d)

LEMMA WireAsked ==
  ASSUME NEW w \in [CallIds -> Seq(Uas!Requests)], NEW c \in CallIds, NEW req \in Uas!Requests,
         NEW v, v = [w EXCEPT ![c] = Append(@, req)]
  PROVE  Asked(w, v, c, req)
<1>1. w[c] \in Seq(Uas!Requests)
  OBVIOUS
<1>2. /\ Append(w[c], req) \in Seq(Uas!Requests) /\ Len(Append(w[c], req)) = Len(w[c]) + 1
      /\ \A j \in 1 .. Len(w[c]) : Append(w[c], req)[j] = w[c][j]
      /\ Append(w[c], req)[Len(w[c]) + 1] = req
  BY <1>1
<1>3. v \in [CallIds -> Seq(Uas!Requests)] /\ v[c] = Append(w[c], req)
      /\ \A d \in CallIds \ {c} : v[d] = w[d]
  BY <1>2
<1>4. Carried(v, c) = Carried(w, c) \union {req}
  BY <1>1, <1>2, <1>3 DEF Carried
<1>5. \A d \in CallIds \ {c} : Carried(v, d) = Carried(w, d)
  BY <1>3 DEF Carried
<1> QED BY <1>3, <1>4, <1>5 DEF Asked

LEMMA TransmitKeepsFlight ==
  ASSUME Flight, NEW responses, Transmit(responses), UNCHANGED <<phase, pending>>
  PROVE  Flight'
BY DEF Flight, Transmit, Awaited, Waits

\* Whatever is answered is answered to who asked.
LEMMA ServeAnswers ==
  ASSUME Held, NEW c \in CallIds, NEW req, Speaks(c, req), Serve(req)
  PROVE  \A r \in sent' : r \in sent \/ r.cid = c
<1>1. /\ proc = "running" /\ req.cid = c
      /\ sent' = sent \union ToSet(result'.responses)
  BY DEF Speaks, Serve, Transmit
<1>2. ASSUME NEW r \in ToSet(result'.responses)
      PROVE  r.cid = c
  <2>1. CASE Uas!Invite(req)
    <3>1. CASE Uas!InviteRetransmitted(req)
      <4>1. /\ haveDialog /\ invite.cid = c /\ result'.responses = <<last2xx>>
        BY <1>1, <3>1 DEF Uas!InviteRetransmitted, Uas!Retransmitted, Uas!Return, Held
      <4> QED BY <1>1, <4>1 DEF Held, ToSet
    <3>2. CASE Uas!InviteIncomplete(req) \/ Uas!InviteBusy(req)
      BY <1>1, <3>2 DEF Uas!InviteIncomplete, Uas!InviteBusy, Uas!Return, Uas!Response, ToSet
    <3>3. CASE Uas!InviteNew(req)
      <4>1. \E code : result'.responses = <<Uas!Response(req, 100), Uas!Response(req, 180),
                                            Uas!Response(req, code)>>
        BY <3>3 DEF Uas!InviteNew, Uas!Refuse, Uas!Accept, Uas!Return
      <4> QED BY <1>1, <4>1 DEF Uas!Response, ToSet
    <3> QED BY <2>1, <3>1, <3>2, <3>3 DEF Uas!Invite
  <2>2. CASE Uas!Bye(req)
    BY <1>1, <2>2 DEF Uas!Bye, Uas!Return, Uas!Response, ToSet
  <2> QED
    BY <2>1, <2>2 DEF Speaks, Serve, Uas!Handle, Uas!Options, Uas!Ack, Uas!Cancel, Uas!Other
<1> QED BY <1>1, <1>2

\* What one request of c may do, as long as the program does not crash.
LEMMA ServeEffect ==
  ASSUME Held, NEW c \in CallIds, NEW req, Speaks(c, req), Serve(req), proc' # "crashed"
  PROVE  /\ proc = "running" /\ proc' = "running"
         /\ Held'
         /\ \A r \in sent' : r \in sent \/ r.cid = c
         /\ sent \subseteq sent'
         /\ \/ /\ media' = media
               /\ Accepted(sent', c) => Accepted(sent, c) \/ media.cid = c
            \/ media = NoMedia /\ media' = req
            \/ req.method = "BYE" /\ media.cid = c
<1>0. /\ proc = "running" /\ req.cid = c /\ c # NoHeader /\ req.cseq # NoHeader
      /\ sent' = sent \union ToSet(result'.responses)
  BY EndpointAssumption DEF Speaks, Serve, Transmit, CSeqs
<1>1. ASSUME UNCHANGED Uas!dialog \/ haveDialog' = FALSE, result'.media = "None",
             \A r \in ToSet(result'.responses) :
               /\ r.cid = c
               /\ r.code = 200 /\ r.cseq \in {1, 2} => media.cid = c
      PROVE  /\ proc' = "running" /\ Held' /\ media' = media
             /\ \A r \in sent' : r \in sent \/ r.cid = c
             /\ Accepted(sent', c) => Accepted(sent, c) \/ media.cid = c
  <2>1. media' = media /\ proc' = proc
    BY <1>1 DEF Serve
  <2>2. Held'
    <3>1. CASE haveDialog' = FALSE
      BY <3>1 DEF Held
    <3>2. CASE UNCHANGED Uas!dialog
      <4>1. UNCHANGED <<haveDialog, answered, invite, last2xx>>
        BY <3>2 DEF Uas!dialog
      <4> QED BY <1>0, <2>1, <4>1 DEF Held
    <3> QED BY <1>1, <3>1, <3>2
  <2> QED BY <1>0, <1>1, <2>1, <2>2 DEF Accepted
<1>2. ASSUME NEW code, code # 200, result'.responses = <<Uas!Response(req, code)>>
      PROVE  \A r \in ToSet(result'.responses) : r.cid = c /\ r.code # 200
  BY <1>0, <1>2 DEF ToSet, Uas!Response
<1>3. ASSUME NEW code, code # 200,
             result'.responses = <<Uas!Response(req, 100), Uas!Response(req, 180),
                                   Uas!Response(req, code)>>
      PROVE  \A r \in ToSet(result'.responses) : r.cid = c /\ r.code # 200
  BY <1>0, <1>3 DEF ToSet, Uas!Response
<1>4. CASE Uas!Invite(req)
  <2>1. ~Uas!InviteIncomplete(req)
    BY <1>0 DEF Uas!InviteIncomplete, Uas!Incomplete
  <2>2. CASE Uas!InviteRetransmitted(req)
    <3>1. /\ haveDialog /\ invite.cid = c
          /\ result'.responses = <<last2xx>> /\ result'.media = "None"
          /\ UNCHANGED Uas!dialog
      BY <1>0, <2>2 DEF Uas!InviteRetransmitted, Uas!Retransmitted, Uas!Return, Held
    <3>2. \A r \in ToSet(result'.responses) : r = last2xx
      BY <3>1 DEF ToSet
    <3> QED BY <1>0, <1>1, <3>1, <3>2 DEF Held
  <2>3. CASE Uas!InviteBusy(req)
    BY <1>0, <1>1, <1>2, <2>3 DEF Uas!InviteBusy, Uas!Return
  <2>4. CASE Uas!InviteNew(req)
    <3>1. ASSUME NEW code, code # 200, Uas!Refuse(req, code)
          PROVE  /\ proc' = "running" /\ Held' /\ media' = media
                 /\ \A r \in sent' : r \in sent \/ r.cid = c
                 /\ Accepted(sent', c) => Accepted(sent, c) \/ media.cid = c
      <4>1. \A r \in ToSet(result'.responses) : r.cid = c /\ r.code # 200
        BY <1>3, <3>1 DEF Uas!Refuse, Uas!Return
      <4>2. haveDialog' = FALSE /\ result'.media = "None"
        BY <3>1 DEF Uas!Refuse, Uas!Return
      <4> QED BY <1>1, <4>1, <4>2
    <3>2. CASE Uas!Accept(req)
      <4>1. /\ result'.media = "Start"
            /\ answered' = TRUE /\ last2xx' = Uas!Response(req, 200) /\ invite' = req
            /\ \A r \in ToSet(result'.responses) : r.cid = c
        BY <1>0, <2>4, <3>2 DEF Uas!Accept, Uas!Return, Uas!InviteNew, Uas!Response, ToSet
      <4>2. StartMedia(req)
        BY <4>1 DEF Serve
      <4>3. media = NoMedia /\ media' = req /\ proc' = proc
        BY <4>2 DEF StartMedia
      <4>4. Held'
        BY <1>0, <4>1, <4>3 DEF Held, Uas!Response
      <4> QED BY <1>0, <4>1, <4>3, <4>4
    <3> QED BY <1>0, <2>4, <3>1, <3>2 DEF Uas!InviteNew
  <2> QED BY <1>4, <2>1, <2>2, <2>3, <2>4 DEF Uas!Invite
<1>5. CASE Uas!Bye(req) /\ Uas!OfDialog(req)
  <2>1. /\ req.method = "BYE" /\ media.cid = c
        /\ haveDialog' = FALSE /\ result'.media = "Stop"
        /\ \A r \in ToSet(result'.responses) : r.cid = c
    BY <1>0, <1>5 DEF Uas!Bye, Uas!OfDialog, Uas!Return, Uas!Response, ToSet, Held
  <2>2. proc' = proc
    BY <2>1 DEF Serve, StopMedia
  <2> QED BY <1>0, <2>1, <2>2 DEF Held
<1>6. CASE Uas!Bye(req) /\ ~Uas!OfDialog(req)
  <2>1. /\ UNCHANGED Uas!dialog /\ result'.media = "None"
        /\ \A r \in ToSet(result'.responses) : r.cid = c /\ r.code # 200
    BY <1>2, <1>6 DEF Uas!Bye, Uas!Return
  <2> QED BY <1>0, <1>1, <2>1
<1> QED
  BY <1>4, <1>5, <1>6 DEF Speaks, Serve, Uas!Handle, Uas!Options, Uas!Ack, Uas!Cancel, Uas!Other

\* A request is served that one of the softphones sent, and perhaps leaves the wire.
LEMMA ServeKeeps ==
  ASSUME MInv, NEW c \in CallIds, NEW req \in Carried(wire, c), Serve(req),
         wire' \in [CallIds -> Seq(Uas!Requests)],
         \A d \in CallIds : Carried(wire', d) \subseteq Carried(wire, d),
         UNCHANGED <<phase, pending>>
  PROVE  MInv'
<1>1. Speaks(c, req)
  BY DEF MInv, Talk
<1>2. Talk'
  BY DEF MInv, Talk
<1>5. Silent'
  <2>1. phase[c] # "idle" /\ proc = "running" /\ Held
    BY DEF MInv, Silent, Serve
  <2>2. \A r \in sent' : r \in sent \/ r.cid = c
    BY <1>1, <2>1, ServeAnswers
  <2> QED BY <2>1, <2>2 DEF MInv, Silent
<1>6. Flight'
  BY TransmitKeepsFlight DEF Serve, MInv
<1>3. CASE proc' = "crashed"
  <2>1. sent \subseteq sent'
    BY DEF Serve, Transmit
  <2> QED BY <1>2, <1>5, <1>6, <1>3, <2>1 DEF MInv, Held, AcceptedHasMedia, Accepted
<1>4. CASE proc' # "crashed"
  <2>1. /\ proc = "running" /\ proc' = "running" /\ Held'
        /\ \A r \in sent' : r \in sent \/ r.cid = c
        /\ sent \subseteq sent'
        /\ \/ /\ media' = media
              /\ Accepted(sent', c) => Accepted(sent, c) \/ media.cid = c
           \/ media = NoMedia /\ media' = req
           \/ req.method = "BYE" /\ media.cid = c
    BY <1>1, <1>4, ServeEffect DEF MInv
  <2>2. \A d \in CallIds : /\ Accepted(sent, d) => Accepted(sent', d)
                           /\ d # c /\ Accepted(sent', d) => Accepted(sent, d)
    BY <2>1 DEF Accepted
  <2>3. ASSUME NEW d \in CallIds, Accepted(sent', d), phase[d] \in {"calling", "up", "reinviting"}
        PROVE  media'.cid = d
    <3>1. Accepted(sent, d) => media.cid = d
      BY <2>1, <2>3 DEF MInv, AcceptedHasMedia
    <3>2. CASE media' = media /\ (Accepted(sent', c) => Accepted(sent, c) \/ media.cid = c)
      BY <2>2, <2>3, <3>1, <3>2
    <3>3. CASE media = NoMedia /\ media' = req
      <4>1. media.cid # d
        BY <3>3, EndpointAssumption DEF NoMedia, Uas!NoRequest
      <4> QED BY <1>1, <2>2, <2>3, <3>1, <3>3, <4>1 DEF Speaks
    <3>4. CASE req.method = "BYE" /\ media.cid = c
      <4>1. d # c
        BY <2>3, <3>4 DEF MInv, Talk
      <4> QED BY <2>2, <2>3, <3>1, <3>4, <4>1
    <3> QED BY <2>1, <3>2, <3>3, <3>4
  <2>4. AcceptedHasMedia'
    BY <2>2, <2>3 DEF MInv, AcceptedHasMedia
  <2> QED BY <1>2, <1>5, <1>6, <2>1, <2>4 DEF MInv
<1> QED BY <1>3, <1>4

\* It is served as far as a response that cannot be sent.
LEMMA ThrowKeeps ==
  ASSUME MInv, NEW req, ServeThrows(req), UNCHANGED <<phase, pending>>,
         wire' \in [CallIds -> Seq(Uas!Requests)],
         \A d \in CallIds : Carried(wire', d) \subseteq Carried(wire, d)
  PROVE  MInv'
<1>1. proc' = "thrown" /\ sent \subseteq sent'
  BY ThrowEnds
<1>2. Flight'
  BY TransmitKeepsFlight DEF ServeThrows, MInv
<1>3. Talk'
  BY DEF MInv, Talk
<1>4. Held' /\ AcceptedHasMedia' /\ Silent'
  BY <1>1 DEF MInv, Held, AcceptedHasMedia, Accepted, Silent
<1> QED BY <1>2, <1>3, <1>4 DEF MInv

\* A softphone asks for something.
LEMMA AskKeeps ==
  ASSUME MInv, NEW c \in CallIds, NEW req, Speaks(c, req), NEW p, Ask(c, req, p),
         \/ p = "calling" /\ req.method = "INVITE" /\ phase[c] \in {"idle", "calling"}
         \/ p = "reinviting" /\ req.method = "INVITE" /\ phase[c] \in {"up", "reinviting"}
         \/ p = "closing",
         Waits(c) => p = phase[c] /\ req = pending[c]
  PROVE  MInv'
<1>1. /\ wire \in [CallIds -> Seq(Uas!Requests)] /\ req \in Uas!Requests
      /\ wire' = [wire EXCEPT ![c] = Append(@, req)]
      /\ pending' = [pending EXCEPT ![c] = req] /\ phase' = [phase EXCEPT ![c] = p]
      /\ UNCHANGED <<endpoint, sent, answers>> /\ proc = "running"
      /\ phase \in [CallIds -> Phases] /\ pending \in [CallIds -> Uas!Requests]
  BY DEF MInv, Talk, Ask, Speaks
<1>2. /\ wire' \in [CallIds -> Seq(Uas!Requests)]
      /\ Carried(wire', c) = Carried(wire, c) \union {req}
      /\ \A d \in CallIds \ {c} : Carried(wire', d) = Carried(wire, d)
  <2>1. Asked(wire, wire', c, req)
    BY <1>1, WireAsked
  <2> QED BY <2>1 DEF Asked
<1>3. /\ phase' \in [CallIds -> Phases] /\ pending' \in [CallIds -> Uas!Requests]
      /\ phase'[c] = p /\ pending'[c] = req
      /\ \A d \in CallIds \ {c} : phase'[d] = phase[d] /\ pending'[d] = pending[d]
  BY <1>1 DEF Phases
<1>4. Talk'
  <2>1. \A d \in CallIds : \A r \in Carried(wire', d) : Speaks(d, r)
    <3>1. \A d \in CallIds : \A r \in Carried(wire, d) : Speaks(d, r)
      BY DEF MInv, Talk
    <3> QED BY <1>2, <3>1
  <2>2. \A d \in CallIds : phase'[d] # "idle" => Speaks(d, pending'[d])
    BY <1>3 DEF MInv, Talk
  <2>3. \A d \in CallIds : phase'[d] \in {"calling", "reinviting"} => pending'[d].method = "INVITE"
    BY <1>3 DEF MInv, Talk
  <2>4. \A d \in CallIds : phase'[d] \notin {"closing", "over"} =>
          \A r \in Carried(wire', d) : r.method = "INVITE"
    BY <1>2, <1>3 DEF MInv, Talk
  <2> QED BY <1>2, <1>3, <2>1, <2>2, <2>3, <2>4 DEF Talk
<1>5. Held'
  BY <1>1 DEF endpoint, uas, MInv, Held
<1>6. phase[c] = "idle" => ~Accepted(sent, c)
  BY <1>1 DEF MInv, Silent, Accepted
<1>7. AcceptedHasMedia'
  <2>1. media' = media /\ proc' = proc /\ sent' = sent
    BY <1>1 DEF endpoint
  <2> QED BY <1>3, <1>6, <2>1 DEF MInv, AcceptedHasMedia
<1>8. Silent'
  BY <1>1, <1>2, <1>3 DEF endpoint, MInv, Silent
<1>9. Flight'
  <2>1. \A r : Awaited(r) => Awaited(r)'
    BY <1>3 DEF Awaited, Waits
  <2> QED BY <1>1, <2>1 DEF MInv, Flight
<1> QED BY <1>4, <1>5, <1>7, <1>8, <1>9 DEF MInv

LEMMA NextMInv == MInv /\ [Next]_vars => MInv'
<1> SUFFICES ASSUME MInv, [Next]_vars PROVE MInv'
  OBVIOUS
<1>1. ASSUME Interrupt PROVE MInv'
  <2>1. UNCHANGED <<uas, wire, sent, answers, phase, pending>> /\ proc' # "running"
    BY <1>1 DEF Interrupt, environment, network
  <2> QED BY <2>1 DEF MInv, Talk, Held, AcceptedHasMedia, Silent, Flight, Awaited, Waits
<1>2. ASSUME NEW c \in CallIds, NEW i \in Arriving(c)
      PROVE  /\ i \in 1 .. Len(wire[c])
             /\ wire[c][i] \in Carried(wire, c)
             /\ wire \in [CallIds -> Seq(Uas!Requests)]
  BY DEF Arriving, MInv, Talk, Carried
<1>3. ASSUME NEW c \in CallIds, Deliver(c) PROVE MInv'
  <2> PICK i \in Arriving(c) :
        /\ Serve(wire[c][i])
        /\ wire' = [wire EXCEPT ![c] = RemoveAt(@, i)]
        /\ UNCHANGED <<phase, pending>>
    BY <1>3 DEF Deliver
  <2>1. /\ wire' \in [CallIds -> Seq(Uas!Requests)]
        /\ \A d \in CallIds : Carried(wire', d) \subseteq Carried(wire, d)
    BY <1>2, WireTaken
  <2> QED BY <1>2, <2>1, ServeKeeps
<1>4. ASSUME NEW c \in CallIds, DeliverCopy(c) PROVE MInv'
  <2> PICK i \in Arriving(c) : Serve(wire[c][i]) /\ UNCHANGED <<wire, phase, pending>>
    BY <1>4 DEF DeliverCopy
  <2> QED BY <1>2, ServeKeeps
<1>5. ASSUME NEW c \in CallIds, Lose(c) PROVE MInv'
  <2> PICK i \in Arriving(c) :
        /\ wire' = [wire EXCEPT ![c] = RemoveAt(@, i)]
        /\ UNCHANGED <<endpoint, sent, answers, phase, pending>>
    BY <1>5 DEF Lose
  <2>1. /\ wire' \in [CallIds -> Seq(Uas!Requests)]
        /\ \A d \in CallIds : Carried(wire', d) \subseteq Carried(wire, d)
    BY <1>2, WireTaken
  <2>2. UNCHANGED <<endpoint, sent, answers, phase, pending>>
    OBVIOUS
  <2>3. Talk' /\ Silent'
    BY <2>1, <2>2 DEF endpoint, MInv, Talk, Silent
  <2>4. Held' /\ AcceptedHasMedia' /\ Flight'
    BY <2>2 DEF endpoint, uas, MInv, Held, AcceptedHasMedia, Flight, Awaited, Waits
  <2> QED BY <2>3, <2>4 DEF MInv
<1>12. ASSUME NEW c \in CallIds, LoseAnswer(c) PROVE MInv'
  <2>1. UNCHANGED <<endpoint, wire, sent, phase, pending>> /\ answers' \subseteq answers
    BY <1>12 DEF LoseAnswer
  <2> QED
    BY <2>1 DEF endpoint, uas, MInv, Talk, Held, AcceptedHasMedia, Silent, Flight, Awaited, Waits
<1>13. ASSUME NEW c \in CallIds, DeliverLast(c) PROVE MInv'
  <2> PICK i \in Arriving(c) :
        /\ ServeThrows(wire[c][i])
        /\ wire' = [wire EXCEPT ![c] = RemoveAt(@, i)]
        /\ UNCHANGED <<phase, pending>>
    BY <1>13 DEF DeliverLast
  <2>1. /\ wire' \in [CallIds -> Seq(Uas!Requests)]
        /\ \A d \in CallIds : Carried(wire', d) \subseteq Carried(wire, d)
    BY <1>2, WireTaken
  <2> QED BY <2>1, ThrowKeeps
<1>6. ASSUME NEW c \in CallIds, Call(c) PROVE MInv'
  <2> PICK offer \in Uas!Offers : Ask(c, Request("INVITE", c, 1, offer), "calling")
    BY <1>6 DEF Call
  <2>1. Speaks(c, Request("INVITE", c, 1, offer)) /\ Request("INVITE", c, 1, offer).method = "INVITE"
    BY DEF Speaks, Request, Uas!Requests, Uas!Methods, CSeqs
  <2> QED BY <1>6, <2>1, AskKeeps DEF Call, Waits
<1>7. ASSUME NEW c \in CallIds, ReInvite(c) PROVE MInv'
  <2> PICK offer \in Uas!Offers : Ask(c, Request("INVITE", c, 2, offer), "reinviting")
    BY <1>7 DEF ReInvite
  <2>1. Speaks(c, Request("INVITE", c, 2, offer)) /\ Request("INVITE", c, 2, offer).method = "INVITE"
    BY DEF Speaks, Request, Uas!Requests, Uas!Methods, CSeqs
  <2> QED BY <1>7, <2>1, AskKeeps DEF ReInvite, Waits
<1>8. ASSUME NEW c \in CallIds, HangUp(c) PROVE MInv'
  <2>1. Speaks(c, Request("BYE", c, 3, "good"))
    BY DEF Speaks, Request, Uas!Requests, Uas!Methods, Uas!Offers, CSeqs
  <2> QED BY <1>8, <2>1, AskKeeps DEF HangUp, Waits
<1>9. ASSUME NEW c \in CallIds, Retransmit(c) PROVE MInv'
  <2>1. Speaks(c, pending[c])
    BY <1>9 DEF Retransmit, Waits, MInv, Talk
  <2>2. phase[c] \in {"calling", "reinviting"} => pending[c].method = "INVITE"
    BY DEF MInv, Talk
  <2> QED BY <1>9, <2>1, <2>2, AskKeeps DEF Retransmit, Waits
<1>10. ASSUME NEW c \in CallIds, Hear(c) PROVE MInv'
  <2>1. PICK p \in Phases :
          /\ phase' = [phase EXCEPT ![c] = p]
          /\ \/ phase[c] = "calling" /\ p = "up" /\ Accepted(sent, c)
             \/ phase[c] = "reinviting" /\ p = "up"
             \/ p = "over" /\ phase[c] # "idle"
          /\ answers' = {r \in answers : r.cid # c}
    <3> PICK r \in answers :
          /\ r.cid = c /\ answers' = {other \in answers : other.cid # c}
          /\ \/ phase[c] = "calling" /\ r.code = 200 /\ phase' = [phase EXCEPT ![c] = "up"]
             \/ phase[c] = "calling" /\ r.code # 200 /\ phase' = [phase EXCEPT ![c] = "over"]
             \/ phase[c] = "reinviting" /\ phase' = [phase EXCEPT ![c] = "up"]
             \/ phase[c] = "closing" /\ phase' = [phase EXCEPT ![c] = "over"]
      BY <1>10 DEF Hear
    <3>1. r \in sent /\ r.cseq = pending[c].cseq
      BY DEF MInv, Flight, Awaited
    <3>2. phase[c] = "calling" => pending[c].cseq \in {1, 2}
      BY DEF MInv, Talk, Speaks
    <3> QED BY <3>1, <3>2 DEF Phases, Accepted
  <2>2. UNCHANGED <<endpoint, wire, sent, pending>>
    BY <1>10 DEF Hear
  <2>3. /\ phase' \in [CallIds -> Phases] /\ phase'[c] = p
        /\ \A d \in CallIds \ {c} : phase'[d] = phase[d]
    BY <2>1 DEF MInv, Talk
  <2>4. Talk'
    BY <2>1, <2>2, <2>3 DEF MInv, Talk
  <2>5. Held'
    BY <2>2 DEF endpoint, uas, MInv, Held
  <2>6. AcceptedHasMedia'
    BY <2>1, <2>2, <2>3 DEF endpoint, MInv, AcceptedHasMedia
  <2>7. Silent'
    BY <2>1, <2>2, <2>3 DEF endpoint, MInv, Silent
  <2>8. Flight'
    BY <2>1, <2>2, <2>3 DEF MInv, Flight, Awaited, Waits
  <2> QED BY <2>4, <2>5, <2>6, <2>7, <2>8 DEF MInv
<1>11. CASE UNCHANGED vars
  BY <1>11 DEF vars, endpoint, environment, network, uas, MInv, Talk, Held, AcceptedHasMedia, Silent,
     Flight, Awaited, Waits
<1> QED
  BY <1>1, <1>3, <1>4, <1>5, <1>6, <1>7, <1>8, <1>9, <1>10, <1>11, <1>12, <1>13 DEF Next

\* Whatever the softphones send and the network does, INVITEs inside the call included:
\* as long as the program runs, who is in a call has the media.
THEOREM CallHasMedia == Spec => []UpHasMedia
<1>1. MInv => UpHasMedia
  BY DEF MInv, AcceptedHasMedia, UpHasMedia
<1> QED BY <1>1, InitMInv, NextMInv, PTL DEF Spec

-----------------------------------------------------------------------------
(* What drives the UAS and main apart: INVITEs inside the call, and nothing     *)
(* else, in whatever order requests come.                                       *)

Answered(responses, c, cseq, codes) ==
  \E r \in responses : r.cid = c /\ r.cseq = cseq /\ r.code \in codes

Says(c) == Carried(wire, c) \union {pending[c]}

\* An INVITE inside the call comes from a softphone whose call was accepted, and with
\* it the offer of each copy of its first INVITE.
Offered ==
  \A c \in CallIds :
    /\ \A q, r \in Says(c) : q.cseq = 1 /\ r.cseq = 1 => q = r
    /\ Answered(sent, c, 1, {200}) => \A q \in Says(c) : q.cseq = 1 => q.offer = "good"
    /\ phase[c] \in {"up", "reinviting", "closing"} => Answered(sent, c, 1, {200})
    /\ (\E q \in Says(c) : q.cseq = 2) => Answered(sent, c, 1, {200})
    /\ Answered(sent, c, 2, {200}) => Answered(sent, c, 1, {200})

\* A dialog has the media, and was set up by an INVITE that was answered 200.
Recorded ==
  haveDialog =>
    /\ media = invite /\ invite.cid \in CallIds /\ invite.cseq \in {1, 2}
    /\ last2xx = Uas!Response(invite, 200) /\ last2xx \in sent

DInv ==
  /\ MInv
  /\ proc = "running" => Offered /\ Recorded
  /\ DriftOnlyByReInvite

LEMMA InitDInv == Init => DInv
<1> SUFFICES ASSUME Init PROVE DInv
  OBVIOUS
<1>1. \A c \in CallIds : /\ Carried(wire, c) = {} /\ phase[c] = "idle"
                         /\ pending[c].cseq = NoHeader
  BY DEF Init, Carried, Uas!NoRequest
<1>2. NoHeader # 1 /\ NoHeader # 2
  BY EndpointAssumption DEF CSeqs
<1>3. Offered
  BY <1>1, <1>2 DEF Init, Offered, Says, Answered
<1>4. Recorded /\ DriftOnlyByReInvite
  BY DEF Init, Uas!Init, Recorded, DriftOnlyByReInvite
<1> QED BY <1>3, <1>4, InitMInv DEF DInv

\* Not a copy of the INVITE of the dialog, if there is one.
Renewed(req) ==
  req.method = "INVITE" /\ (haveDialog => req.cid = invite.cid /\ req.cseq # invite.cseq)

Kept == UNCHANGED <<haveDialog, invite, last2xx, media, proc>>

HungUp == haveDialog' = FALSE /\ media' = NoMedia /\ proc' = "running"

Dropped(req) ==
  /\ Renewed(req) /\ req.offer # "good"
  /\ haveDialog' = FALSE /\ UNCHANGED <<media, proc>>
  /\ Answered(sent', req.cid, req.cseq, {400, 488})

Started(req) ==
  /\ Renewed(req)
  /\ media = NoMedia /\ media' = req /\ UNCHANGED proc
  /\ haveDialog' = TRUE /\ invite' = req
  /\ last2xx' = Uas!Response(req, 200) /\ last2xx' \in sent'

StartedOver(req) ==
  /\ Renewed(req)
  /\ media # NoMedia /\ UNCHANGED media /\ proc' = "crashed"
  /\ Answered(sent', req.cid, req.cseq, {200})

\* What one request does to responses, dialog and media.
LEMMA ServeDrifts ==
  ASSUME proc = "running", Held, Recorded,
         NEW c \in CallIds, NEW req, Speaks(c, req), Serve(req)
  PROVE  /\ sent \subseteq sent'
         /\ \A r \in sent' : r \in sent \/
              /\ r.cid = c /\ r.cseq = req.cseq
              /\ req.method = "INVITE" /\ r.code = 200 => req.offer = "good"
         /\ Kept \/ HungUp \/ Dropped(req) \/ Started(req) \/ StartedOver(req)
<1>0. /\ req.cid = c /\ c # NoHeader /\ req.cseq \in CSeqs
      /\ sent' = sent \union ToSet(result'.responses)
      /\ (req.method = "INVITE" => req.cseq \in {1, 2}) /\ (req.method = "BYE" => req.cseq = 3)
  BY EndpointAssumption DEF Speaks, Serve, Transmit, CSeqs
<1>a. req.cseq # NoHeader
  BY <1>0, EndpointAssumption
<1>1. CASE Uas!Invite(req)
  <2>0. req.method = "INVITE"
    BY <1>1 DEF Uas!Invite
  <2>1. ~Uas!InviteIncomplete(req)
    BY <1>0, <1>a DEF Uas!InviteIncomplete, Uas!Incomplete
  <2>2. CASE Uas!InviteRetransmitted(req)
    <3>1. /\ haveDialog
          /\ result'.responses = <<last2xx>> \/ result'.responses = <<>>
          /\ result'.media = "None" /\ UNCHANGED <<haveDialog, invite, last2xx>>
      BY <1>0, <2>2 DEF Uas!InviteRetransmitted, Uas!Retransmitted, Uas!Return, Uas!dialog
    <3>2. \A r \in ToSet(result'.responses) : r \in sent
      BY <3>1 DEF ToSet, Recorded
    <3>3. UNCHANGED <<media, proc>>
      BY <3>1 DEF Serve
    <3> QED BY <1>0, <3>1, <3>2, <3>3 DEF Kept
  <2>3. CASE Uas!InviteBusy(req)
    <3>1. /\ result'.responses = <<Uas!Response(req, 486)>> /\ result'.media = "None"
          /\ UNCHANGED <<haveDialog, invite, last2xx>>
      BY <2>3 DEF Uas!InviteBusy, Uas!Return, Uas!dialog
    <3>2. \A r \in ToSet(result'.responses) : r.cid = c /\ r.cseq = req.cseq /\ r.code = 486
      BY <1>0, <3>1 DEF ToSet, Uas!Response
    <3>3. UNCHANGED <<media, proc>>
      BY <3>1 DEF Serve
    <3> QED BY <1>0, <3>1, <3>2, <3>3 DEF Kept
  <2>4. CASE Uas!InviteNew(req)
    <3>0. Renewed(req)
      BY <2>0, <2>4 DEF Uas!InviteNew, Uas!Foreign, Uas!Retransmitted, Renewed
    <3>1. CASE req.offer # "good"
      <4>1. PICK code \in {400, 488} : Uas!Refuse(req, code)
        BY <2>4, <3>1 DEF Uas!InviteNew
      <4>2. /\ haveDialog' = FALSE /\ result'.media = "None"
            /\ result'.responses = <<Uas!Response(req, 100), Uas!Response(req, 180),
                                     Uas!Response(req, code)>>
        BY <4>1 DEF Uas!Refuse, Uas!Return
      <4>3. /\ \A r \in ToSet(result'.responses) : r.cid = c /\ r.cseq = req.cseq /\ r.code # 200
            /\ Uas!Response(req, code) \in ToSet(result'.responses)
        BY <1>0, <4>2 DEF ToSet, Uas!Response
      <4>4. Answered(sent', req.cid, req.cseq, {400, 488})
        BY <1>0, <4>3 DEF Answered, Uas!Response
      <4>5. UNCHANGED <<media, proc>>
        BY <4>2 DEF Serve
      <4>6. Dropped(req)
        BY <3>0, <3>1, <4>2, <4>4, <4>5 DEF Dropped
      <4> QED BY <1>0, <4>3, <4>6
    <3>2. CASE req.offer = "good"
      <4>1. Uas!Accept(req) /\ invite' = req
        BY <2>4, <3>2 DEF Uas!InviteNew
      <4>2. /\ haveDialog' = TRUE /\ result'.media = "Start" /\ last2xx' = Uas!Response(req, 200)
            /\ result'.responses = <<Uas!Response(req, 100), Uas!Response(req, 180),
                                     Uas!Response(req, 200)>>
        BY <4>1 DEF Uas!Accept, Uas!Return
      <4>3. /\ \A r \in ToSet(result'.responses) : r.cid = c /\ r.cseq = req.cseq
            /\ Uas!Response(req, 200) \in ToSet(result'.responses)
        BY <1>0, <4>2 DEF ToSet, Uas!Response
      <4>4. Answered(sent', req.cid, req.cseq, {200}) /\ last2xx' \in sent'
        BY <1>0, <4>2, <4>3 DEF Answered, Uas!Response
      <4>5. StartMedia(req)
        BY <4>2 DEF Serve
      <4>6. \/ media = NoMedia /\ media' = req /\ UNCHANGED proc
            \/ media # NoMedia /\ UNCHANGED media /\ proc' = "crashed"
        BY <4>5 DEF StartMedia
      <4>7. Started(req) \/ StartedOver(req)
        BY <3>0, <4>1, <4>2, <4>4, <4>6 DEF Started, StartedOver
      <4> QED BY <1>0, <3>2, <4>3, <4>7
    <3> QED BY <3>1, <3>2
  <2> QED BY <1>1, <2>1, <2>2, <2>3, <2>4 DEF Uas!Invite
<1>2. CASE Uas!Bye(req)
  <2>1. /\ req.method = "BYE"
        /\ \A r \in ToSet(result'.responses) : r.cid = c /\ r.cseq = req.cseq
    BY <1>0, <1>2 DEF Uas!Bye, Uas!Return, Uas!Response, ToSet
  <2>2. CASE Uas!OfDialog(req)
    <3>1. haveDialog' = FALSE /\ result'.media = "Stop"
      BY <1>2, <2>2 DEF Uas!Bye, Uas!Return
    <3>2. media' = NoMedia /\ proc' = "running"
      BY <3>1 DEF Serve, StopMedia
    <3> QED BY <1>0, <2>1, <3>1, <3>2 DEF HungUp
  <2>3. CASE ~Uas!OfDialog(req)
    <3>1. UNCHANGED <<haveDialog, invite, last2xx>> /\ result'.media = "None"
      BY <1>2, <2>3 DEF Uas!Bye, Uas!Return, Uas!dialog
    <3>2. UNCHANGED <<media, proc>>
      BY <3>1 DEF Serve
    <3> QED BY <1>0, <2>1, <3>1, <3>2 DEF Kept
  <2> QED BY <2>2, <2>3
<1> QED
  BY <1>1, <1>2 DEF Speaks, Serve, Uas!Handle, Uas!Options, Uas!Ack, Uas!Cancel, Uas!Other

\* A request is served, and perhaps taken from the wire.
LEMMA ServeKeepsDrift ==
  ASSUME DInv, NEW c \in CallIds, NEW req \in Carried(wire, c), Serve(req),
         wire' \in [CallIds -> Seq(Uas!Requests)],
         \A d \in CallIds : Carried(wire', d) \subseteq Carried(wire, d),
         UNCHANGED <<phase, pending>>
  PROVE  DInv'
<1>1. MInv'
  BY ServeKeeps DEF DInv
<1>2. /\ Speaks(c, req) /\ proc = "running" /\ Held /\ Recorded /\ Offered
      /\ req.cid = c /\ req.cseq \in {1, 2, 3} /\ (req.method = "INVITE" => req.cseq \in {1, 2})
      /\ (req.cseq \in {1, 2} => req.method = "INVITE")
  BY DEF DInv, MInv, Talk, Serve, Speaks
<1>3. /\ sent \subseteq sent'
      /\ \A r \in sent' : r \in sent \/
           /\ r.cid = c /\ r.cseq = req.cseq
           /\ req.method = "INVITE" /\ r.code = 200 => req.offer = "good"
      /\ Kept \/ HungUp \/ Dropped(req) \/ Started(req) \/ StartedOver(req)
  BY <1>2, ServeDrifts
<1>4. \A d, k, codes : Answered(sent, d, k, codes) => Answered(sent', d, k, codes)
  BY <1>3 DEF Answered
<1>5. \A d \in CallIds : Says(d)' \subseteq Says(d)
  BY DEF Says
<1>6. ASSUME NEW d \in CallIds, NEW k \in {1, 2},
             Answered(sent', d, k, {200}), ~Answered(sent, d, k, {200})
      PROVE  d = c /\ req.cseq = k /\ req.offer = "good"
  <2>1. PICK r \in sent' : r.cid = d /\ r.cseq = k /\ r.code = 200
    BY <1>6 DEF Answered
  <2>2. r \notin sent
    BY <1>6, <2>1 DEF Answered
  <2> QED BY <1>2, <1>3, <2>1, <2>2
<1>7. Offered'
  <2>0. req \in Says(c)
    BY DEF Says
  <2> SUFFICES ASSUME NEW d \in CallIds
               PROVE  /\ \A q, r \in Says(d)' : q.cseq = 1 /\ r.cseq = 1 => q = r
                      /\ Answered(sent', d, 1, {200}) => \A q \in Says(d)' : q.cseq = 1 => q.offer = "good"
                      /\ phase[d] \in {"up", "reinviting", "closing"} => Answered(sent', d, 1, {200})
                      /\ (\E q \in Says(d)' : q.cseq = 2) => Answered(sent', d, 1, {200})
                      /\ Answered(sent', d, 2, {200}) => Answered(sent', d, 1, {200})
    BY DEF Offered
  <2>1. \A q, r \in Says(d)' : q.cseq = 1 /\ r.cseq = 1 => q = r
    BY <1>2, <1>5 DEF Offered
  <2>2. ASSUME Answered(sent', d, 1, {200}) PROVE \A q \in Says(d)' : q.cseq = 1 => q.offer = "good"
    <3>1. CASE Answered(sent, d, 1, {200})
      BY <1>2, <1>5, <3>1 DEF Offered
    <3>2. CASE ~Answered(sent, d, 1, {200})
      <4>1. d = c /\ req.cseq = 1 /\ req.offer = "good"
        BY <1>6, <2>2, <3>2
      <4> QED BY <1>2, <1>5, <2>0, <4>1 DEF Offered
    <3> QED BY <3>1, <3>2
  <2>3. phase[d] \in {"up", "reinviting", "closing"} => Answered(sent', d, 1, {200})
    BY <1>2, <1>4 DEF Offered
  <2>4. (\E q \in Says(d)' : q.cseq = 2) => Answered(sent', d, 1, {200})
    BY <1>2, <1>4, <1>5 DEF Offered
  <2>5. ASSUME Answered(sent', d, 2, {200}) PROVE Answered(sent', d, 1, {200})
    <3>1. CASE Answered(sent, d, 2, {200})
      BY <1>2, <1>4, <3>1 DEF Offered
    <3>2. CASE ~Answered(sent, d, 2, {200})
      <4>1. d = c /\ req.cseq = 2
        BY <1>6, <2>5, <3>2
      <4>2. Answered(sent, c, 1, {200})
        BY <1>2, <2>0, <4>1 DEF Offered
      <4> QED BY <1>4, <4>1, <4>2
    <3> QED BY <3>1, <3>2
  <2> QED BY <2>1, <2>2, <2>3, <2>4, <2>5
<1>8. proc' = "running" => Recorded'
  <2>1. CASE Kept
    BY <1>2, <1>3, <2>1 DEF Kept, Recorded, Uas!Response
  <2>2. CASE HungUp \/ Dropped(req)
    BY <2>2 DEF HungUp, Dropped, Recorded
  <2>3. CASE Started(req)
    BY <1>2, <2>3 DEF Started, Renewed, Recorded, Uas!Response
  <2>4. CASE StartedOver(req)
    BY <2>4 DEF StartedOver
  <2> QED BY <1>3, <2>1, <2>2, <2>3, <2>4
\* A dialog dropped or started over was that of a softphone that sends INVITEs inside
\* the call, and this one or the one before is such an INVITE.
<1>9. ASSUME haveDialog, Renewed(req)
      PROVE  /\ media.cid = c
             /\ req.cseq = 1 => req.offer = "good" /\ Answered(sent', c, 2, {200})
             /\ req.cseq # 1 => req.cseq = 2
  <2>1. media = invite /\ invite.cseq \in {1, 2} /\ invite.cid = c
        /\ last2xx = Uas!Response(invite, 200) /\ last2xx \in sent
        /\ req.cseq # invite.cseq /\ req.cseq \in {1, 2}
    BY <1>2, <1>9 DEF Recorded, Renewed
  <2>2. CASE req.cseq = 1
    <3>1. last2xx.cid = c /\ last2xx.cseq = 2 /\ last2xx.code = 200
      BY <2>1, <2>2 DEF Uas!Response
    <3>2. Answered(sent, c, 2, {200})
      BY <2>1, <3>1 DEF Answered
    <3>3. Answered(sent, c, 1, {200})
      BY <1>2, <3>2 DEF Offered
    <3>4. req.offer = "good"
      BY <1>2, <2>2, <3>3 DEF Offered, Says
    <3> QED BY <1>4, <2>1, <2>2, <3>2, <3>4
  <2> QED BY <2>1, <2>2
<1>10. ASSUME NEW k \in CSeqs, Answered(sent', c, k, {200}) \/ Answered(sent', c, k, {400, 488})
       PROVE  Answered(sent', c, k, {200, 400, 488})
  BY <1>10 DEF Answered
<1>11. DriftOnlyByReInvite'
  <2> SUFFICES
        /\ proc' = "running" /\ haveDialog' => media' = invite'
        /\ proc' = "running" /\ ~haveDialog' /\ media' # NoMedia
             => Answered(sent', media'.cid, 2, {400, 488})
        /\ proc' = "crashed" => Answered(sent', media'.cid, 2, {200, 400, 488})
    BY DEF DriftOnlyByReInvite, Answered, NoMedia, Uas!NoRequest
  <2>0. haveDialog => media = invite
    BY <1>2 DEF Recorded
  <2>1. ~haveDialog /\ media # NoMedia => Answered(sent, media.cid, 2, {400, 488})
    BY <1>2 DEF DInv, DriftOnlyByReInvite, Answered
  <2>2. ~haveDialog /\ media # NoMedia => Answered(sent', media.cid, 2, {400, 488})
    BY <1>4, <2>1
  <2>3. CASE Kept
    BY <1>2, <2>0, <2>2, <2>3 DEF Kept
  <2>4. CASE HungUp
    BY <2>4 DEF HungUp
  <2>5. CASE Dropped(req)
    <3>1. haveDialog' = FALSE /\ proc' = "running" /\ media' = media
          /\ Renewed(req) /\ req.offer # "good"
          /\ Answered(sent', c, req.cseq, {400, 488})
      BY <1>2, <2>5 DEF Dropped
    <3>2. haveDialog => Answered(sent', media.cid, 2, {400, 488})
      BY <1>9, <3>1
    <3> QED BY <2>2, <3>1, <3>2
  <2>6. CASE Started(req)
    BY <1>2, <2>6 DEF Started
  <2>7. CASE StartedOver(req)
    <3>1. proc' = "crashed" /\ media' = media /\ media # NoMedia
          /\ Renewed(req) /\ Answered(sent', c, req.cseq, {200})
      BY <1>2, <2>7 DEF StartedOver
    <3>2. ASSUME haveDialog PROVE Answered(sent', media.cid, 2, {200, 400, 488})
      <4>1. media.cid = c /\ Answered(sent', c, 2, {200})
        BY <1>9, <3>1, <3>2
      <4> QED BY <4>1, <1>10 DEF CSeqs
    <3>3. ASSUME ~haveDialog PROVE Answered(sent', media.cid, 2, {200, 400, 488})
      <4>1. PICK r \in sent' : r.cid = media.cid /\ r.cseq = 2 /\ r.code \in {400, 488}
        BY <2>2, <3>1, <3>3 DEF Answered
      <4> QED BY <4>1 DEF Answered
    <3> QED BY <3>1, <3>2, <3>3
  <2> QED BY <1>3, <2>3, <2>4, <2>5, <2>6, <2>7
<1> QED BY <1>1, <1>7, <1>8, <1>11 DEF DInv

\* A softphone asks for something.
LEMMA AskKeepsDrift ==
  ASSUME DInv, MInv', NEW c \in CallIds, NEW req, Speaks(c, req), NEW p, Ask(c, req, p),
         \/ phase[c] = "idle" /\ p = "calling" /\ req.cseq = 1
         \/ phase[c] = "up" /\ req.cseq # 1
         \/ phase[c] = p /\ req = pending[c]
  PROVE  DInv'
<1>1. /\ proc = "running" /\ UNCHANGED <<endpoint, sent>> /\ Offered /\ Recorded /\ req \in Uas!Requests
      /\ wire' = [wire EXCEPT ![c] = Append(@, req)]
      /\ pending' = [pending EXCEPT ![c] = req] /\ phase' = [phase EXCEPT ![c] = p]
      /\ wire \in [CallIds -> Seq(Uas!Requests)]
      /\ phase \in [CallIds -> Phases] /\ pending \in [CallIds -> Uas!Requests]
  BY DEF Ask, Speaks, DInv, MInv, Talk
<1>2. Carried(wire', c) = Carried(wire, c) \union {req}
      /\ \A d \in CallIds \ {c} : Carried(wire', d) = Carried(wire, d)
  <2>1. Asked(wire, wire', c, req)
    BY <1>1, WireAsked
  <2> QED BY <2>1 DEF Asked
<1>3. /\ phase'[c] = p /\ pending'[c] = req
      /\ \A d \in CallIds \ {c} : phase'[d] = phase[d] /\ pending'[d] = pending[d]
  BY <1>1
<1>4. Says(c)' = Carried(wire, c) \union {req}
      /\ \A d \in CallIds \ {c} : Says(d)' = Says(d)
  BY <1>2, <1>3 DEF Says
<1>5. Recorded' /\ DriftOnlyByReInvite'
  BY <1>1 DEF endpoint, uas, DInv, Recorded, DriftOnlyByReInvite
<1>6. Offered'
  <2> SUFFICES ASSUME NEW d \in CallIds
               PROVE  /\ \A q, r \in Says(d)' : q.cseq = 1 /\ r.cseq = 1 => q = r
                      /\ Answered(sent, d, 1, {200}) => \A q \in Says(d)' : q.cseq = 1 => q.offer = "good"
                      /\ phase'[d] \in {"up", "reinviting", "closing"} => Answered(sent, d, 1, {200})
                      /\ (\E q \in Says(d)' : q.cseq = 2) => Answered(sent, d, 1, {200})
                      /\ Answered(sent, d, 2, {200}) => Answered(sent, d, 1, {200})
    BY <1>1 DEF Offered
  <2>1. CASE d # c
    BY <1>1, <1>3, <1>4, <2>1 DEF Offered
  <2>2. CASE d = c /\ phase[c] = "idle" /\ p = "calling" /\ req.cseq = 1
    <3>1. Carried(wire, c) = {} /\ \A k, codes : ~Answered(sent, c, k, codes)
      BY <1>1, <2>2 DEF DInv, MInv, Silent, Answered
    <3> QED BY <1>3, <1>4, <2>2, <3>1
  <2>3. CASE d = c /\ phase[c] = "up" /\ req.cseq # 1
    <3>1. Answered(sent, c, 1, {200})
      BY <1>1, <2>3 DEF Offered
    <3>2. \A q \in Says(c)' : q.cseq = 1 => q \in Says(c)
      BY <1>4, <2>3 DEF Says
    <3> QED BY <1>1, <2>3, <3>1, <3>2 DEF Offered
  <2>4. CASE d = c /\ phase[c] = p /\ req = pending[c]
    <3>1. Says(c)' = Says(c)
      BY <1>4, <2>4 DEF Says
    <3> QED BY <1>1, <1>3, <2>4, <3>1 DEF Offered
  <2> QED BY <2>1, <2>2, <2>3, <2>4
<1> QED BY <1>5, <1>6 DEF DInv

LEMMA NextDInv == DInv /\ [Next]_vars => DInv'
<1> SUFFICES ASSUME DInv, [Next]_vars PROVE DInv'
  OBVIOUS
<1>0. MInv' /\ MInv
  BY NextMInv DEF DInv
<1>1. ASSUME proc' \notin {"running", "crashed"} PROVE DInv'
  BY <1>0, <1>1 DEF DInv, DriftOnlyByReInvite
<1>2. ASSUME NEW c \in CallIds, NEW i \in Arriving(c)
      PROVE  /\ i \in 1 .. Len(wire[c])
             /\ wire[c][i] \in Carried(wire, c)
             /\ wire \in [CallIds -> Seq(Uas!Requests)]
  BY <1>0 DEF Arriving, MInv, Talk, Carried
<1>3. ASSUME NEW c \in CallIds, Deliver(c) PROVE DInv'
  <2> PICK i \in Arriving(c) :
        /\ Serve(wire[c][i])
        /\ wire' = [wire EXCEPT ![c] = RemoveAt(@, i)]
        /\ UNCHANGED <<phase, pending>>
    BY <1>3 DEF Deliver
  <2>1. /\ wire' \in [CallIds -> Seq(Uas!Requests)]
        /\ \A d \in CallIds : Carried(wire', d) \subseteq Carried(wire, d)
    BY <1>2, WireTaken
  <2> QED BY <1>2, <2>1, ServeKeepsDrift
<1>4. ASSUME NEW c \in CallIds, DeliverCopy(c) PROVE DInv'
  <2> PICK i \in Arriving(c) : Serve(wire[c][i]) /\ UNCHANGED <<wire, phase, pending>>
    BY <1>4 DEF DeliverCopy
  <2> QED BY <1>2, ServeKeepsDrift
<1>5. ASSUME NEW c \in CallIds, DeliverLast(c) PROVE DInv'
  BY <1>1, <1>5 DEF DeliverLast, ServeThrows
<1>15. ASSUME Interrupt PROVE DInv'
  BY <1>1, <1>15 DEF Interrupt
\* What is lost is asked no more.
<1>6. ASSUME NEW c \in CallIds, Lose(c) PROVE DInv'
  <2> PICK i \in Arriving(c) :
        /\ proc = "running" /\ wire' = [wire EXCEPT ![c] = RemoveAt(@, i)]
        /\ UNCHANGED <<endpoint, sent, answers, phase, pending>>
    BY <1>6 DEF Lose
  <2>1. \A d \in CallIds : Carried(wire', d) \subseteq Carried(wire, d)
    BY <1>2, WireTaken
  <2>2. \A d \in CallIds : Says(d)' \subseteq Says(d)
    BY <2>1 DEF Says
  <2>3. Offered'
    BY <2>2 DEF DInv, Offered
  <2>4. Recorded' /\ DriftOnlyByReInvite'
    BY DEF endpoint, uas, DInv, Recorded, DriftOnlyByReInvite
  <2> QED BY <1>0, <2>3, <2>4 DEF DInv
<1>7. ASSUME UNCHANGED <<endpoint, wire, sent, phase, pending>> PROVE DInv'
  <2>1. \A d \in CallIds : Says(d)' = Says(d)
    BY <1>7 DEF Says
  <2>2. Offered => Offered'
    BY <1>7, <2>1 DEF Offered
  <2> QED BY <1>0, <1>7, <2>2 DEF endpoint, uas, DInv, Recorded, DriftOnlyByReInvite
<1>8. ASSUME NEW c \in CallIds, Call(c) PROVE DInv'
  <2> PICK offer \in Uas!Offers : Ask(c, Request("INVITE", c, 1, offer), "calling")
    BY <1>8 DEF Call
  <2>1. Speaks(c, Request("INVITE", c, 1, offer)) /\ Request("INVITE", c, 1, offer).cseq = 1
    BY DEF Speaks, Request, Uas!Requests, Uas!Methods, CSeqs
  <2> QED BY <1>0, <1>8, <2>1, AskKeepsDrift DEF Call
<1>9. ASSUME NEW c \in CallIds, ReInvite(c) PROVE DInv'
  <2> PICK offer \in Uas!Offers : Ask(c, Request("INVITE", c, 2, offer), "reinviting")
    BY <1>9 DEF ReInvite
  <2>1. Speaks(c, Request("INVITE", c, 2, offer)) /\ Request("INVITE", c, 2, offer).cseq = 2
    BY DEF Speaks, Request, Uas!Requests, Uas!Methods, CSeqs
  <2> QED BY <1>0, <1>9, <2>1, AskKeepsDrift DEF ReInvite
<1>10. ASSUME NEW c \in CallIds, HangUp(c) PROVE DInv'
  <2>1. Speaks(c, Request("BYE", c, 3, "good")) /\ Request("BYE", c, 3, "good").cseq = 3
    BY DEF Speaks, Request, Uas!Requests, Uas!Methods, Uas!Offers, CSeqs
  <2> QED BY <1>0, <1>10, <2>1, AskKeepsDrift DEF HangUp
<1>11. ASSUME NEW c \in CallIds, Retransmit(c) PROVE DInv'
  <2>1. Speaks(c, pending[c])
    BY <1>0, <1>11 DEF Retransmit, Waits, MInv, Talk
  <2> QED BY <1>0, <1>11, <2>1, AskKeepsDrift DEF Retransmit
\* Who hears a 200 to its first INVITE was accepted; and who hears it to another, before.
<1>12. ASSUME NEW c \in CallIds, Hear(c) PROVE DInv'
  <2>1. PICK r \in answers :
          /\ r.cid = c
          /\ \/ phase[c] = "calling" /\ r.code = 200 /\ phase' = [phase EXCEPT ![c] = "up"]
             \/ phase[c] = "calling" /\ r.code # 200 /\ phase' = [phase EXCEPT ![c] = "over"]
             \/ phase[c] = "reinviting" /\ phase' = [phase EXCEPT ![c] = "up"]
             \/ phase[c] = "closing" /\ phase' = [phase EXCEPT ![c] = "over"]
    BY <1>12 DEF Hear
  <2>2. UNCHANGED <<endpoint, wire, sent, pending>> /\ proc = "running" /\ Offered
    BY <1>12 DEF Hear, DInv
  <2>3. r \in sent /\ r.cseq = pending[c].cseq /\ phase \in [CallIds -> Phases]
        /\ (phase[c] = "calling" => pending[c].cseq \in {1, 2})
    <3>1. r \in sent /\ r.cseq = pending[c].cseq
      BY <1>0, <2>1 DEF MInv, Flight, Awaited
    <3>2. phase \in [CallIds -> Phases] /\ (phase[c] = "calling" => pending[c].cseq \in {1, 2})
      BY <1>0 DEF MInv, Talk, Speaks
    <3> QED BY <3>1, <3>2
  <2>4. phase[c] = "calling" /\ r.code = 200 => Answered(sent, c, 1, {200})
    <3>1. pending[c] \in Says(c)
      BY DEF Says
    <3>2. r.code = 200 /\ r.cseq = 1 => Answered(sent, c, 1, {200})
      BY <2>1, <2>3 DEF Answered
    <3> QED BY <2>2, <2>3, <3>1, <3>2 DEF Offered
  <2>5. \A d \in CallIds : Says(d)' = Says(d)
    BY <2>2 DEF Says
  <2>6. \A d \in CallIds : phase'[d] \in {"up", "reinviting", "closing"}
          => Answered(sent, d, 1, {200})
    BY <2>1, <2>2, <2>3, <2>4 DEF Offered
  <2>7. Offered'
    BY <2>2, <2>5, <2>6 DEF Offered
  <2>8. Recorded' /\ DriftOnlyByReInvite'
    BY <2>2 DEF endpoint, uas, DInv, Recorded, DriftOnlyByReInvite
  <2> QED BY <1>0, <2>7, <2>8 DEF DInv
<1>13. ASSUME NEW c \in CallIds, LoseAnswer(c) PROVE DInv'
  BY <1>7, <1>13 DEF LoseAnswer
<1>14. CASE UNCHANGED vars
  BY <1>7, <1>14 DEF vars, environment, network
<1> QED
  BY <1>3, <1>4, <1>5, <1>6, <1>8, <1>9, <1>10, <1>11, <1>12, <1>13, <1>14, <1>15 DEF Next

\* Without an INVITE inside the call that was refused no media runs without its dialog,
\* and without one that was answered no session is started over another: handle drops the
\* dialog and starts the media only for an INVITE it takes for new (SipUas.cpp:109).
THEOREM OnlyReInvitesDrift == Spec => []DriftOnlyByReInvite
<1>1. DInv => DriftOnlyByReInvite
  BY DEF DInv
<1> QED BY <1>1, InitDInv, NextDInv, PTL DEF Spec

-----------------------------------------------------------------------------
(* On a network that keeps the order, the media does not outlive the call:     *)
(* behind its BYE nothing of a softphone can open the line.                    *)

\* Of the requests under way the INVITEs come first.
InviteFirst(w) ==
  \A c \in CallIds : \A i, j \in 1 .. Len(w[c]) :
    i < j /\ w[c][i].method = "BYE" => w[c][j].method = "BYE"

\* All that is left of the softphone is its BYE.
Gone(c) == pending[c].method = "BYE" /\ \A req \in Carried(wire, c) : req.method = "BYE"

Ended(responses, c) == \E r \in responses : r.cid = c /\ r.cseq = 3

Orderly ==
  /\ InviteFirst(wire)
  /\ \A c \in CallIds :
       /\ pending[c].method = "INVITE" => \A req \in Carried(wire, c) : req = pending[c]
       /\ pending[c].method = "BYE" => phase[c] \in {"closing", "over"}
       /\ phase[c] = "closing" => pending[c].method = "BYE"

\* What a response says is so, and what the softphone was told: an INVITE is refused
\* for its offer, or for the line being busy.
Told ==
  proc = "running" => \A c \in CallIds :
    /\ Ended(sent, c) => Gone(c)
    /\ \A r \in sent :
         r.cid = c /\ pending[c].method = "INVITE" /\ r.code \notin {100, 180, 200, 486}
           => pending[c].offer # "good"
    /\ phase[c] = "over" =>
         \/ Ended(sent, c)
         \/ /\ pending[c].method = "INVITE"
            /\ \E r \in sent : r.cid = c /\ r.code >= 200 /\ r.code # 200

\* Whose the media is.
Owned ==
  proc = "running" =>
    /\ haveDialog => last2xx.cseq = 1 /\ last2xx.code = 200
    /\ \A c \in CallIds : media.cid = c =>
         /\ phase[c] # "idle"
         /\ pending[c].method = "INVITE" => pending[c].offer = "good"
         /\ ~Ended(sent, c)

OInv == Inv /\ MInv /\ Orderly /\ Told /\ Owned

\* The effect of one request, when media and dialog agree.
LEMMA ServeOrdered ==
  ASSUME Inv, Held, Owned, NEW c \in CallIds, NEW req, Own(c, req), Speaks(c, req), Serve(req)
  PROVE  /\ haveDialog' => last2xx'.cseq = 1 /\ last2xx'.code = 200
         /\ \A r \in sent' : r \in sent \/
              /\ r.cid = c /\ r.cseq = req.cseq
              /\ r.code \notin {100, 180, 200, 486} /\ req.method = "INVITE" => req.offer # "good"
         /\ \/ media' = media /\ startedFor' = startedFor /\ (req.method = "BYE" => media.cid # c)
            \/ /\ req.method = "INVITE" /\ req.offer = "good" /\ media = NoMedia
               /\ media' = req /\ startedFor' = startedFor \union {req}
            \/ req.method = "BYE" /\ media' = NoMedia /\ startedFor' = startedFor /\ media.cid = c
<1>0. /\ proc = "running" /\ req.cid = c /\ c # NoHeader /\ req.cseq # NoHeader
      /\ sent' = sent \union ToSet(result'.responses)
      /\ (haveDialog => media = invite /\ invite.cseq = 1 /\ answered)
      /\ (~haveDialog => media = NoMedia)
      /\ NoMedia.cid = NoHeader
      /\ (haveDialog => last2xx.cseq = 1 /\ last2xx.code = 200 /\ last2xx.cid = invite.cid)
      /\ (req.method = "INVITE" => req.cseq = 1) /\ (req.method = "BYE" => req.cseq = 3)
  BY EndpointAssumption DEF Own, Speaks, Serve, Transmit, CSeqs, Inv, Agreed, MediaMatchesDialog,
     NoMedia, Uas!NoRequest, Held, Owned
<1>1. CASE Uas!Invite(req)
  <2>0. req.method = "INVITE"
    BY <1>1 DEF Uas!Invite
  <2>1. ~Uas!InviteIncomplete(req)
    BY <1>0 DEF Uas!InviteIncomplete, Uas!Incomplete
  <2>2. CASE Uas!InviteRetransmitted(req)
    <3>1. /\ haveDialog /\ invite.cid = c
          /\ result'.responses = <<last2xx>> /\ result'.media = "None"
          /\ UNCHANGED <<haveDialog, last2xx>>
      BY <1>0, <2>2 DEF Uas!InviteRetransmitted, Uas!Retransmitted, Uas!Return, Uas!dialog
    <3>2. \A r \in ToSet(result'.responses) : r = last2xx
      BY <3>1 DEF ToSet
    <3>3. media' = media /\ startedFor' = startedFor
      BY <3>1 DEF Serve
    <3> QED BY <1>0, <2>0, <3>1, <3>2, <3>3
  <2>3. CASE Uas!InviteBusy(req)
    <3>1. /\ result'.responses = <<Uas!Response(req, 486)>> /\ result'.media = "None"
          /\ UNCHANGED <<haveDialog, last2xx>>
      BY <2>3 DEF Uas!InviteBusy, Uas!Return, Uas!dialog
    <3>2. \A r \in ToSet(result'.responses) : r.cid = c /\ r.cseq = req.cseq /\ r.code = 486
      BY <1>0, <3>1 DEF ToSet, Uas!Response
    <3>3. media' = media /\ startedFor' = startedFor
      BY <3>1 DEF Serve
    <3> QED BY <1>0, <2>0, <3>1, <3>2, <3>3
  <2>4. ASSUME NEW code, Uas!Refuse(req, code), req.offer # "good"
        PROVE  /\ ~haveDialog' /\ media' = media /\ startedFor' = startedFor
               /\ \A r \in ToSet(result'.responses) : r.cid = c /\ r.cseq = req.cseq
    <3>1. ~haveDialog' /\ result'.media = "None"
      BY <2>4 DEF Uas!Refuse, Uas!Return
    <3>2. \A r \in ToSet(result'.responses) : r.cid = c /\ r.cseq = req.cseq
      BY <1>0, <2>4 DEF Uas!Refuse, Uas!Return, Uas!Response, ToSet
    <3> QED BY <3>1, <3>2 DEF Serve
  <2>5. CASE Uas!InviteNew(req) /\ Uas!Accept(req) /\ req.offer = "good"
    <3>1. ~haveDialog
      BY <1>0, <2>0, <2>5 DEF Uas!InviteNew, Uas!Retransmitted, Uas!Foreign, Uas!CSeqNum, BadCSeqs
    <3>2. /\ result'.media = "Start" /\ last2xx' = Uas!Response(req, 200)
          /\ \A r \in ToSet(result'.responses) :
                r.cid = c /\ r.cseq = req.cseq /\ r.code \in {100, 180, 200}
      BY <1>0, <2>5 DEF Uas!Accept, Uas!Return, Uas!Response, ToSet
    <3>3. StartMedia(req)
      BY <3>2 DEF Serve
    <3>4. media = NoMedia /\ media' = req /\ startedFor' = startedFor \union {req}
      BY <1>0, <3>1, <3>3 DEF StartMedia
    <3>5. last2xx'.cseq = 1 /\ last2xx'.code = 200
      BY <1>0, <2>0, <3>2 DEF Uas!Response
    <3> QED BY <1>0, <2>0, <2>5, <3>2, <3>4, <3>5
  <2>6. CASE Uas!InviteNew(req) /\ req.offer # "good"
    <3>1. PICK code : Uas!Refuse(req, code)
      BY <2>6 DEF Uas!InviteNew
    <3> QED BY <1>0, <2>0, <2>4, <2>6, <3>1
  <2>7. Uas!InviteNew(req) /\ req.offer = "good" => Uas!Accept(req)
    BY DEF Uas!InviteNew
  <2> QED BY <1>1, <2>1, <2>2, <2>3, <2>5, <2>6, <2>7 DEF Uas!Invite
<1>2. CASE Uas!Bye(req) /\ Uas!OfDialog(req)
  <2>1. /\ req.method = "BYE" /\ media.cid = c
        /\ haveDialog' = FALSE /\ result'.media = "Stop"
        /\ \A r \in ToSet(result'.responses) : r.cid = c /\ r.cseq = req.cseq
    BY <1>0, <1>2 DEF Uas!Bye, Uas!OfDialog, Uas!Return, Uas!Response, ToSet
  <2>2. media' = NoMedia /\ startedFor' = startedFor
    BY <2>1 DEF Serve, StopMedia
  <2> QED BY <1>0, <2>1, <2>2
<1>3. CASE Uas!Bye(req) /\ ~Uas!OfDialog(req)
  <2>1. /\ req.method = "BYE" /\ UNCHANGED <<haveDialog, last2xx>> /\ result'.media = "None"
        /\ \A r \in ToSet(result'.responses) : r.cid = c /\ r.cseq = req.cseq
    BY <1>0, <1>3 DEF Uas!Bye, Uas!Return, Uas!dialog, Uas!Response, ToSet
  <2>2. media.cid # c
    BY <1>0, <1>3 DEF Uas!OfDialog
  <2>3. media' = media /\ startedFor' = startedFor
    BY <2>1 DEF Serve
  <2> QED BY <1>0, <2>1, <2>2, <2>3
<1> QED
  BY <1>1, <1>2, <1>3 DEF Speaks, Serve, Uas!Handle, Uas!Options, Uas!Ack, Uas!Cancel, Uas!Other

\* A network that keeps the order brings the oldest request, and a BYE only when
\* nothing of the softphone is under way any more but BYEs.
LEMMA HeadArrives ==
  ASSUME ~Reorders, MInv, Orderly, NEW c \in CallIds, NEW i \in Arriving(c)
  PROVE  /\ i = 1 /\ 1 \in 1 .. Len(wire[c])
         /\ wire[c][1] \in Carried(wire, c) /\ Speaks(c, wire[c][1])
         /\ phase[c] # "idle"
         /\ wire[c][1].method = "BYE" => Gone(c)
         /\ pending[c].method = "INVITE" => wire[c][1] = pending[c]
<1>1. i = 1 /\ 1 \in 1 .. Len(wire[c]) /\ wire[c] \in Seq(Uas!Requests)
  BY DEF Arriving, MInv, Talk
<1>2. wire[c][1] \in Carried(wire, c)
  BY <1>1 DEF Carried
<1>3. Speaks(c, wire[c][1]) /\ phase[c] # "idle"
  BY <1>2 DEF MInv, Talk, Silent
<1>4. pending[c].method = "INVITE" => wire[c][1] = pending[c]
  BY <1>2 DEF Orderly
<1>5. ASSUME wire[c][1].method = "BYE" PROVE Gone(c)
  <2>1. pending[c].method = "BYE"
    BY <1>3, <1>4, <1>5 DEF MInv, Talk, Speaks
  <2>2. \A j \in 1 .. Len(wire[c]) : wire[c][j].method = "BYE"
    <3> TAKE j \in 1 .. Len(wire[c])
    <3>1. CASE j = 1
      BY <1>5, <3>1
    <3>2. CASE 1 < j
      BY <1>1, <1>5, <3>2 DEF Orderly, InviteFirst
    <3> QED BY <1>1, <3>1, <3>2
  <2> QED BY <2>1, <2>2 DEF Gone, Carried
<1> QED BY <1>1, <1>2, <1>3, <1>4, <1>5

LEMMA RemoveHead ==
  ASSUME NEW S, NEW s \in Seq(S), NEW i \in 1 .. Len(s), i = 1
  PROVE  /\ Len(RemoveAt(s, i)) = Len(s) - 1
         /\ \A j \in 1 .. Len(s) - 1 : RemoveAt(s, i)[j] = s[j + 1]
<1> DEFINE r == RemoveAt(s, i)
           n == Len(s)
<1>1. /\ Len(r) = n - 1
      /\ \A j \in 1 .. n - 1 : r[j] = IF j < i THEN s[j] ELSE s[j + 1]
  BY RemoveAtIs
<1> HIDE DEF r, n
<1>2. \A j \in 1 .. n - 1 : r[j] = s[j + 1]
  BY <1>1
<1> QED BY <1>1, <1>2 DEF r, n

LEMMA HeadTaken ==
  ASSUME NEW w \in [CallIds -> Seq(Uas!Requests)], NEW c \in CallIds, 1 \in 1 .. Len(w[c]),
         InviteFirst(w), NEW v, v = [w EXCEPT ![c] = RemoveAt(@, 1)]
  PROVE  InviteFirst(v)
<1> DEFINE s == w[c]
           b == RemoveAt(s, 1)
<1>1. s \in Seq(Uas!Requests) /\ Len(s) \in Nat
  OBVIOUS
<1>2. Len(b) = Len(s) - 1 /\ \A j \in 1 .. Len(s) - 1 : b[j] = s[j + 1]
  BY <1>1, RemoveHead
<1>3. v[c] = b /\ \A d \in CallIds \ {c} : v[d] = w[d]
  OBVIOUS
<1>4. ASSUME NEW i \in 1 .. Len(b), NEW j \in 1 .. Len(b), i < j, b[i].method = "BYE"
      PROVE  b[j].method = "BYE"
  <2> HIDE DEF b
  <2>1. /\ b[i] = s[i + 1] /\ b[j] = s[j + 1] /\ i + 1 < j + 1
        /\ i + 1 \in 1 .. Len(s) /\ j + 1 \in 1 .. Len(s)
    BY <1>1, <1>2, <1>4
  <2> QED BY <1>4, <2>1 DEF InviteFirst
<1> HIDE DEF b
<1> QED BY <1>3, <1>4 DEF InviteFirst

\* A request is served, and perhaps taken from the wire.
LEMMA ServeKeepsOrder ==
  ASSUME ~Reorders, OInv, NEW c \in CallIds, NEW i \in Arriving(c), Serve(wire[c][i]),
         InviteFirst(wire)', \A d \in CallIds : Carried(wire, d)' \subseteq Carried(wire, d),
         UNCHANGED <<phase, pending>>
  PROVE  (Orderly /\ Told /\ Owned)'
<1> DEFINE req == wire[c][1]
<1>1. /\ i = 1 /\ req \in Carried(wire, c) /\ Speaks(c, req) /\ Own(c, req) /\ Serve(req)
      /\ phase[c] # "idle"
      /\ req.method = "BYE" => Gone(c)
      /\ pending[c].method = "INVITE" => req = pending[c]
  <2>1. Own(c, wire[c][i])
    BY DEF Arriving, OInv, Inv, OwnRequests
  <2> QED BY <2>1, HeadArrives DEF OInv
<1>2. /\ proc = "running" /\ req.cid = c /\ c # NoHeader /\ NoMedia.cid = NoHeader
      /\ sent \subseteq sent'
      /\ (req.method = "INVITE" => req.cseq = 1)
  BY <1>1, EndpointAssumption DEF Serve, Transmit, Own, NoMedia, Uas!NoRequest
<1>3. /\ haveDialog' => last2xx'.cseq = 1 /\ last2xx'.code = 200
      /\ \A r \in sent' : r \in sent \/
           /\ r.cid = c /\ r.cseq = req.cseq
           /\ r.code \notin {100, 180, 200, 486} /\ req.method = "INVITE" => req.offer # "good"
      /\ \/ media' = media /\ startedFor' = startedFor /\ (req.method = "BYE" => media.cid # c)
         \/ /\ req.method = "INVITE" /\ req.offer = "good" /\ media = NoMedia
            /\ media' = req /\ startedFor' = startedFor \union {req}
         \/ req.method = "BYE" /\ media' = NoMedia /\ startedFor' = startedFor /\ media.cid = c
  BY <1>1, ServeOrdered DEF OInv, MInv
<1> HIDE DEF req
<1>4. \A d \in CallIds : Gone(d) => Gone(d)'
  BY DEF Gone
<1>5. Orderly'
  BY DEF OInv, Orderly
<1>6. \A d \in CallIds : Ended(sent', d) => Ended(sent, d) \/ (d = c /\ req.method = "BYE")
  <2> TAKE d \in CallIds
  <2> SUFFICES ASSUME Ended(sent', d), ~Ended(sent, d) PROVE d = c /\ req.method = "BYE"
    OBVIOUS
  <2>1. PICK r \in sent' : r.cid = d /\ r.cseq = 3
    BY DEF Ended
  <2>2. r \notin sent
    BY <2>1 DEF Ended
  <2>3. r.cid = c /\ r.cseq = req.cseq
    BY <1>3, <2>2
  <2> QED BY <1>1, <1>2, <2>1, <2>3 DEF Speaks
<1>7. Told'
  <2>1. \A d \in CallIds : Ended(sent, d)' => Gone(d)'
    BY <1>1, <1>2, <1>4, <1>6 DEF OInv, Told, Ended
  <2>2. \A d \in CallIds : \A r \in sent' :
          r.cid = d /\ pending'[d].method = "INVITE" /\ r.code \notin {100, 180, 200, 486}
            => pending'[d].offer # "good"
    BY <1>1, <1>2, <1>3 DEF OInv, Told, Speaks
  <2>3. \A d \in CallIds : phase'[d] = "over" =>
          \/ Ended(sent, d)'
          \/ /\ pending'[d].method = "INVITE"
             /\ \E r \in sent' : r.cid = d /\ r.code >= 200 /\ r.code # 200
    BY <1>2 DEF OInv, Told, Ended
  <2> QED BY <2>1, <2>2, <2>3 DEF Told
<1>8. Owned'
  <2>1. ASSUME NEW d \in CallIds, media'.cid = d
        PROVE  /\ phase[d] # "idle"
               /\ pending[d].method = "INVITE" => pending[d].offer = "good"
               /\ ~Ended(sent', d)
    <3>1. CASE media' = media /\ (req.method = "BYE" => media.cid # c)
      BY <1>2, <1>6, <2>1, <3>1 DEF OInv, Owned
    <3>2. CASE req.method = "INVITE" /\ req.offer = "good" /\ media' = req
      <4>1. d = c
        BY <1>2, <2>1, <3>2
      <4>2. ~Gone(c)
        BY <1>1, <3>2 DEF Gone
      <4>3. ~Ended(sent', c)
        BY <1>2, <1>6, <3>2, <4>2 DEF OInv, Told
      <4> QED BY <1>1, <3>2, <4>1, <4>3
    <3>3. media' # NoMedia
      BY <2>1, EndpointAssumption DEF NoMedia, Uas!NoRequest
    <3> QED BY <1>3, <3>1, <3>2, <3>3
  <2> QED BY <1>3, <2>1 DEF Owned, Ended
<1> QED BY <1>5, <1>7, <1>8

LEMMA InitOInv == Init => OInv
<1> SUFFICES ASSUME Init PROVE OInv
  OBVIOUS
<1>1. Inv /\ MInv
  BY InitInv, InitMInv
<1>2. \A c \in CallIds : /\ wire[c] = <<>> /\ Carried(wire, c) = {} /\ phase[c] = "idle"
                         /\ pending[c].method \notin {"INVITE", "BYE"}
  BY DEF Init, Carried, Uas!NoRequest
<1>3. Orderly
  BY <1>2 DEF Orderly, InviteFirst
<1>4. Told
  BY <1>2 DEF Init, Told, Ended
<1>5. Owned
  BY EndpointAssumption DEF Init, Uas!Init, Owned, NoMedia, Uas!NoRequest
<1> QED BY <1>1, <1>3, <1>4, <1>5 DEF OInv

LEMMA AskedInviteFirst ==
  ASSUME NEW w \in [CallIds -> Seq(Uas!Requests)], NEW c \in CallIds, NEW req \in Uas!Requests,
         InviteFirst(w), req.method = "BYE" \/ \A r \in Carried(w, c) : r.method # "BYE",
         NEW v, v = [w EXCEPT ![c] = Append(@, req)]
  PROVE  InviteFirst(v)
<1> DEFINE s == w[c]
           b == Append(s, req)
<1>1. s \in Seq(Uas!Requests) /\ Len(s) \in Nat
  OBVIOUS
<1>2. Len(b) = Len(s) + 1 /\ b[Len(s) + 1] = req /\ \A j \in 1 .. Len(s) : b[j] = s[j]
  BY <1>1
<1>3. v[c] = b /\ \A d \in CallIds \ {c} : v[d] = w[d]
  OBVIOUS
<1>4. ASSUME NEW i \in 1 .. Len(b), NEW j \in 1 .. Len(b), i < j, b[i].method = "BYE"
      PROVE  b[j].method = "BYE"
  <2> HIDE DEF b
  <2>1. i \in 1 .. Len(s) /\ b[i] = s[i] /\ s[i] \in Carried(w, c)
    BY <1>1, <1>2, <1>4 DEF Carried
  <2>2. CASE j \in 1 .. Len(s)
    BY <1>2, <1>4, <2>1, <2>2 DEF InviteFirst
  <2>3. CASE j = Len(s) + 1
    BY <1>2, <1>4, <2>1, <2>3
  <2> QED BY <1>1, <1>2, <2>2, <2>3
<1> HIDE DEF b
<1> QED BY <1>3, <1>4 DEF InviteFirst

\* A softphone calls, repeats its request, or hangs up.
LEMMA AskKeepsOrder ==
  ASSUME OInv, NEW c \in CallIds, NEW req, Speaks(c, req), NEW p, Ask(c, req, p),
         \/ phase[c] = "idle" /\ p = "calling" /\ req.method = "INVITE"
         \/ phase[c] \in {"calling", "reinviting", "closing"} /\ p = phase[c] /\ req = pending[c]
         \/ phase[c] = "up" /\ p = "closing" /\ req.method = "BYE"
  PROVE  (Orderly /\ Told /\ Owned)'
<1>1. /\ wire \in [CallIds -> Seq(Uas!Requests)] /\ req \in Uas!Requests
      /\ wire' = [wire EXCEPT ![c] = Append(@, req)]
      /\ UNCHANGED <<endpoint, sent>> /\ proc = "running"
      /\ phase \in [CallIds -> Phases] /\ pending \in [CallIds -> Uas!Requests]
  BY DEF OInv, MInv, Talk, Ask, Speaks
<1>2. /\ phase'[c] = p /\ pending'[c] = req
      /\ \A d \in CallIds \ {c} : phase'[d] = phase[d] /\ pending'[d] = pending[d]
  BY <1>1 DEF Ask
<1>3. /\ Carried(wire', c) = Carried(wire, c) \union {req}
      /\ \A d \in CallIds \ {c} : Carried(wire', d) = Carried(wire, d)
  <2>1. Asked(wire, wire', c, req)
    BY <1>1, WireAsked
  <2> QED BY <2>1 DEF Asked
<1>4. \A r \in Carried(wire, c) : phase[c] \notin {"closing", "over"} => r.method = "INVITE"
  BY DEF OInv, MInv, Talk
<1>5. phase[c] # "closing" => ~Gone(c) /\ ~Ended(sent, c)
  BY <1>1 DEF OInv, Orderly, Told, Gone
<1>6. Orderly'
  <2>1. InviteFirst(wire')
    <3>1. req.method = "BYE" \/ \A r \in Carried(wire, c) : r.method # "BYE"
      BY <1>4 DEF OInv, Orderly
    <3> QED BY <1>1, <3>1, AskedInviteFirst DEF OInv, Orderly
  <2>2. \A d \in CallIds :
          pending'[d].method = "INVITE" => \A r \in Carried(wire', d) : r = pending'[d]
    BY <1>2, <1>3 DEF OInv, Orderly, MInv, Silent
  <2>3. \A d \in CallIds : pending'[d].method = "BYE" => phase'[d] \in {"closing", "over"}
    BY <1>2 DEF OInv, Orderly
  <2>4. \A d \in CallIds : phase'[d] = "closing" => pending'[d].method = "BYE"
    BY <1>2 DEF OInv, Orderly
  <2> QED BY <2>1, <2>2, <2>3, <2>4 DEF Orderly
<1>7. \A d \in CallIds : Gone(d) => Gone(d)'
  BY <1>2, <1>3, <1>5 DEF Gone, OInv, Orderly
<1>8. Told'
  <2>1. \A d \in CallIds : Ended(sent, d)' => Gone(d)'
    BY <1>1, <1>7 DEF OInv, Told, Ended
  <2>2. \A d \in CallIds : \A r \in sent :
          r.cid = d /\ pending'[d].method = "INVITE" /\ r.code \notin {100, 180, 200, 486}
            => pending'[d].offer # "good"
    BY <1>1, <1>2 DEF OInv, Told, MInv, Silent
  <2>3. \A d \in CallIds : phase'[d] = "over" =>
          \/ Ended(sent, d)
          \/ /\ pending'[d].method = "INVITE"
             /\ \E r \in sent : r.cid = d /\ r.code >= 200 /\ r.code # 200
    <3>1. ASSUME NEW d \in CallIds, phase'[d] = "over"
          PROVE  d # c /\ phase[d] = "over" /\ pending'[d] = pending[d]
      BY <1>2, <3>1
    <3>2. \A d \in CallIds : phase[d] = "over" =>
            \/ Ended(sent, d)
            \/ /\ pending[d].method = "INVITE"
               /\ \E r \in sent : r.cid = d /\ r.code >= 200 /\ r.code # 200
      BY <1>1 DEF OInv, Told
    <3> QED BY <3>1, <3>2
  <2> QED BY <1>1, <2>1, <2>2, <2>3 DEF Told, Ended
<1>9. Owned'
  <2>1. UNCHANGED <<proc, haveDialog, last2xx, media, startedFor, sent>>
    BY <1>1 DEF endpoint, uas
  <2>2. ASSUME proc = "running", NEW d \in CallIds, media.cid = d
        PROVE  /\ phase'[d] # "idle"
               /\ pending'[d].method = "INVITE" => pending'[d].offer = "good"
    BY <1>2, <2>2 DEF OInv, Owned
  <2> QED BY <1>7, <2>1, <2>2 DEF OInv, Owned, Ended
<1> QED BY <1>6, <1>8, <1>9

LEMMA NextOInv == ~ReInvites /\ ~Reorders /\ OInv /\ [Next]_vars => OInv'
<1> SUFFICES ASSUME ~ReInvites, ~Reorders, OInv, [Next]_vars PROVE (Orderly /\ Told /\ Owned)'
  BY NextInv, NextMInv DEF OInv
<1>1. ASSUME Interrupt PROVE (Orderly /\ Told /\ Owned)'
  <2>1. UNCHANGED <<wire, sent, phase, pending>> /\ proc' # "running"
    BY <1>1 DEF Interrupt, environment, network
  <2> QED BY <2>1 DEF OInv, Orderly, Told, Owned, Gone
<1>2. ASSUME NEW c \in CallIds, NEW i \in Arriving(c), wire' = [wire EXCEPT ![c] = RemoveAt(@, i)]
      PROVE  /\ InviteFirst(wire)'
             /\ \A d \in CallIds : Carried(wire, d)' \subseteq Carried(wire, d)
  <2>1. i = 1 /\ 1 \in 1 .. Len(wire[c]) /\ wire \in [CallIds -> Seq(Uas!Requests)]
    BY HeadArrives DEF OInv, MInv, Talk
  <2>2. InviteFirst(wire')
    BY <1>2, <2>1, HeadTaken DEF OInv, Orderly
  <2>3. \A d \in CallIds : Carried(wire', d) \subseteq Carried(wire, d)
    BY <1>2, <2>1, WireTaken
  <2> QED BY <2>2, <2>3
<1>3. ASSUME NEW c \in CallIds, Deliver(c) PROVE (Orderly /\ Told /\ Owned)'
  <2> PICK i \in Arriving(c) :
        /\ Serve(wire[c][i])
        /\ wire' = [wire EXCEPT ![c] = RemoveAt(@, i)]
        /\ UNCHANGED <<phase, pending>>
    BY <1>3 DEF Deliver
  <2> QED BY <1>2, ServeKeepsOrder
<1>4. ASSUME NEW c \in CallIds, DeliverCopy(c) PROVE (Orderly /\ Told /\ Owned)'
  <2> PICK i \in Arriving(c) : Serve(wire[c][i]) /\ UNCHANGED <<wire, phase, pending>>
    BY <1>4 DEF DeliverCopy
  <2>1. InviteFirst(wire)' /\ \A d \in CallIds : Carried(wire, d)' \subseteq Carried(wire, d)
    BY DEF OInv, Orderly, InviteFirst, Carried
  <2> QED BY <2>1, ServeKeepsOrder
<1>5. ASSUME NEW c \in CallIds, Lose(c) PROVE (Orderly /\ Told /\ Owned)'
  <2> PICK i \in Arriving(c) :
        /\ wire' = [wire EXCEPT ![c] = RemoveAt(@, i)]
        /\ UNCHANGED <<endpoint, sent, answers, phase, pending>>
    BY <1>5 DEF Lose
  <2>1. InviteFirst(wire)' /\ \A d \in CallIds : Carried(wire, d)' \subseteq Carried(wire, d)
    BY <1>2
  <2>2. \A d \in CallIds : Gone(d) => Gone(d)'
    BY <2>1 DEF Gone
  <2>3. UNCHANGED <<endpoint, sent, phase, pending>>
    OBVIOUS
  <2>4. Orderly'
    BY <2>1, <2>3 DEF OInv, Orderly
  <2>5. Told'
    BY <2>2, <2>3 DEF endpoint, OInv, Told, Ended
  <2>6. Owned'
    BY <2>2, <2>3 DEF endpoint, uas, OInv, Owned, Ended
  <2> QED BY <2>4, <2>5, <2>6
<1>11. ASSUME NEW c \in CallIds, LoseAnswer(c) PROVE (Orderly /\ Told /\ Owned)'
  <2>1. UNCHANGED <<endpoint, wire, sent, phase, pending>>
    BY <1>11 DEF LoseAnswer
  <2> QED BY <2>1 DEF endpoint, uas, OInv, Orderly, Told, Owned, Gone
<1>12. ASSUME NEW c \in CallIds, DeliverLast(c) PROVE (Orderly /\ Told /\ Owned)'
  <2> PICK i \in Arriving(c) :
        /\ ServeThrows(wire[c][i])
        /\ wire' = [wire EXCEPT ![c] = RemoveAt(@, i)]
        /\ UNCHANGED <<phase, pending>>
    BY <1>12 DEF DeliverLast
  <2>1. InviteFirst(wire)' /\ \A d \in CallIds : Carried(wire, d)' \subseteq Carried(wire, d)
    BY <1>2
  <2>2. Orderly'
    BY <2>1 DEF OInv, Orderly
  <2>3. proc' = "thrown"
    BY ThrowEnds
  <2> QED BY <2>2, <2>3 DEF Told, Owned
<1>6. ASSUME NEW c \in CallIds, Call(c) PROVE (Orderly /\ Told /\ Owned)'
  <2> PICK offer \in Uas!Offers : Ask(c, Request("INVITE", c, 1, offer), "calling")
    BY <1>6 DEF Call
  <2>1. Speaks(c, Request("INVITE", c, 1, offer)) /\ Request("INVITE", c, 1, offer).method = "INVITE"
    BY DEF Speaks, Request, Uas!Requests, Uas!Methods, CSeqs
  <2> QED BY <1>6, <2>1, AskKeepsOrder DEF Call
<1>7. ASSUME NEW c \in CallIds, HangUp(c) PROVE (Orderly /\ Told /\ Owned)'
  <2>1. Speaks(c, Request("BYE", c, 3, "good")) /\ Request("BYE", c, 3, "good").method = "BYE"
    BY DEF Speaks, Request, Uas!Requests, Uas!Methods, Uas!Offers, CSeqs
  <2> QED BY <1>7, <2>1, AskKeepsOrder DEF HangUp
<1>8. ASSUME NEW c \in CallIds, Retransmit(c) PROVE (Orderly /\ Told /\ Owned)'
  <2>1. Speaks(c, pending[c])
    BY <1>8 DEF Retransmit, Waits, OInv, MInv, Talk
  <2> QED BY <1>8, <2>1, AskKeepsOrder DEF Retransmit, Waits
<1>9. ASSUME NEW c \in CallIds, Hear(c) PROVE (Orderly /\ Told /\ Owned)'
  <2>1. PICK r \in sent, p \in Phases :
          /\ r.cid = c /\ r.cseq = pending[c].cseq /\ r.code >= 200
          /\ phase' = [phase EXCEPT ![c] = p]
          /\ \/ phase[c] \in {"calling", "reinviting"} /\ p = "up"
             \/ phase[c] = "calling" /\ r.code # 200 /\ p = "over"
             \/ phase[c] = "closing" /\ p = "over"
    <3>1. \A r \in answers : r.cid = c => r \in sent /\ r.cseq = pending[c].cseq /\ r.code >= 200
      BY DEF OInv, MInv, Flight, Awaited
    <3> QED BY <1>9, <3>1 DEF Hear, Phases
  <2>2. UNCHANGED <<endpoint, wire, sent, pending>>
    BY <1>9 DEF Hear
  <2>3. /\ phase'[c] = p /\ \A d \in CallIds \ {c} : phase'[d] = phase[d]
    BY <2>1 DEF OInv, MInv, Talk
  <2>4. phase[c] \in {"calling", "reinviting"} => pending[c].method = "INVITE"
    BY DEF OInv, MInv, Talk
  <2>5. phase[c] = "closing" => Ended(sent, c)
    <3>1. phase[c] = "closing" => pending[c].cseq = 3
      BY DEF OInv, Orderly, MInv, Talk, Speaks
    <3> QED BY <2>1, <3>1 DEF Ended
  <2>6. Orderly'
    BY <2>1, <2>2, <2>3, <2>4 DEF OInv, Orderly
  <2>7. \A d \in CallIds : Gone(d)' = Gone(d)
    BY <2>2 DEF Gone
  <2>8. Told'
    BY <2>1, <2>2, <2>3, <2>4, <2>5, <2>7 DEF endpoint, OInv, Told, Ended
  <2>9. Owned'
    BY <2>1, <2>2, <2>3, <2>7 DEF endpoint, uas, OInv, Owned, Ended, Gone
  <2> QED BY <2>6, <2>8, <2>9
<1>10. CASE UNCHANGED vars
  BY <1>10 DEF vars, endpoint, environment, network, uas, OInv, Orderly, Told, Owned, Gone
<1> QED
  BY <1>1, <1>3, <1>4, <1>5, <1>6, <1>7, <1>8, <1>9, <1>10, <1>11, <1>12 DEF Next, ReInvite

LEMMA OrderedInvariance ==
  ASSUME ~ReInvites, ~Reorders
  PROVE  Spec => []OInv
<1>1. OInv /\ [Next]_vars => OInv'
  BY NextOInv
<1> QED BY <1>1, InitOInv, PTL DEF Spec

\* SipUas.cpp:177-200, main.cpp:331-334: the media does not outlive the call.
THEOREM MediaEndsWithCall ==
  ASSUME ~ReInvites, ~Reorders
  PROVE  Spec => []MediaOnlyDuringCall
<1>1. OInv => MediaOnlyDuringCall
  <2> SUFFICES ASSUME OInv, NEW c \in CallIds, proc = "running", media.cid = c, ~Refused(c)
               PROVE  phase[c] \in {"calling", "up", "reinviting", "closing"}
    BY DEF MediaOnlyDuringCall
  <2>1. phase[c] \in Phases /\ phase[c] # "idle" /\ ~Ended(sent, c)
    BY DEF OInv, MInv, Talk, Owned
  <2>2. ASSUME phase[c] = "over" PROVE FALSE
    <3>1. PICK r \in sent : pending[c].method = "INVITE" /\ r.cid = c /\ r.code >= 200 /\ r.code # 200
      BY <2>1, <2>2 DEF OInv, Told
    <3>2. pending[c].offer = "good"
      BY <3>1 DEF OInv, Owned
    <3>3. r.code \in {100, 180, 200, 486}
      BY <3>1, <3>2 DEF OInv, Told
    <3> QED BY <3>1, <3>3 DEF Refused
  <2> QED BY <2>1, <2>2 DEF Phases
<1> QED BY <1>1, OrderedInvariance, PTL

-----------------------------------------------------------------------------
(* On a network that keeps the order no INVITE starts the media twice, not even *)
(* with INVITEs inside the call, which may take the dialog from the media.      *)

\* A softphone whose call is over has nothing but BYEs to send, and what started the
\* media still has it unless its softphone is gone.
Once ==
  /\ InviteFirst(wire)
  /\ \A c \in CallIds :
       /\ phase[c] = "closing" => pending[c].method = "BYE"
       /\ pending[c].method = "BYE" => phase[c] \in {"closing", "over"}
       /\ pending[c].method # "BYE" => \A req \in Carried(wire, c) : req.method = "INVITE"
  /\ proc = "running" =>
       \A req \in startedFor : req.cid \in CallIds /\ (media = req \/ Gone(req.cid))

RInv == MInv /\ Once

\* What is started is what is served, and it is remembered; a crash changes no media.
LEMMA ServeStarts ==
  ASSUME NEW c, NEW req, Speaks(c, req), Serve(req)
  PROVE  \/ startedFor' = startedFor /\ (media' = media \/ media' = NoMedia)
         \/ /\ startedFor' = startedFor \union {req} /\ media' = req
            /\ proc' = proc /\ req.method = "INVITE"
         \/ proc' = "crashed" /\ media' = media
<1>1. \/ result'.media \in {"Stop", "None"}
      \/ result'.media = "Start" /\ req.method = "INVITE"
  <2>1. CASE Uas!Invite(req)
    BY <2>1 DEF Uas!Invite, Uas!InviteRetransmitted, Uas!InviteIncomplete, Uas!InviteBusy,
       Uas!InviteNew, Uas!Refuse, Uas!Accept, Uas!Return
  <2>2. CASE Uas!Bye(req)
    BY <2>2 DEF Uas!Bye, Uas!Return
  <2> QED
    BY <2>1, <2>2 DEF Speaks, Serve, Uas!Handle, Uas!Options, Uas!Ack, Uas!Cancel, Uas!Other
<1>2. CASE result'.media = "Start" /\ req.method = "INVITE"
  BY <1>2 DEF Serve, StartMedia
<1>3. CASE result'.media = "Stop"
  BY <1>3 DEF Serve, StopMedia
<1>4. CASE result'.media = "None"
  BY <1>4 DEF Serve
<1> QED BY <1>1, <1>2, <1>3, <1>4

\* The oldest request arrives; a BYE only when its softphone is gone.
LEMMA HeadComes ==
  ASSUME ~Reorders, RInv, NEW c \in CallIds, NEW i \in Arriving(c)
  PROVE  /\ i = 1 /\ 1 \in 1 .. Len(wire[c])
         /\ wire[c][1] \in Carried(wire, c) /\ Speaks(c, wire[c][1])
         /\ wire[c][1].method = "BYE" => Gone(c)
<1>1. i = 1 /\ 1 \in 1 .. Len(wire[c]) /\ wire[c] \in Seq(Uas!Requests)
  BY DEF Arriving, RInv, MInv, Talk
<1>2. wire[c][1] \in Carried(wire, c) /\ Speaks(c, wire[c][1])
  BY <1>1 DEF Carried, RInv, MInv, Talk
<1>3. ASSUME wire[c][1].method = "BYE" PROVE Gone(c)
  <2>1. pending[c].method = "BYE"
    BY <1>2, <1>3 DEF RInv, Once
  <2>2. \A j \in 1 .. Len(wire[c]) : j = 1 \/ 1 < j
    BY <1>1
  <2>3. \A j \in 1 .. Len(wire[c]) : wire[c][j].method = "BYE"
    BY <1>1, <1>3, <2>2 DEF RInv, Once, InviteFirst
  <2> QED BY <2>1, <2>3 DEF Gone, Carried
<1> QED BY <1>1, <1>2, <1>3

\* A request is served, and perhaps taken from the wire.
LEMMA ServeKeepsOnce ==
  ASSUME ~Reorders, RInv, NEW c \in CallIds, NEW i \in Arriving(c), Serve(wire[c][i]),
         InviteFirst(wire)', \A d \in CallIds : Carried(wire, d)' \subseteq Carried(wire, d),
         UNCHANGED <<phase, pending>>
  PROVE  Once'
<1> DEFINE req == wire[c][1]
<1>1. /\ Serve(req) /\ Speaks(c, req) /\ req.cid = c /\ proc = "running"
      /\ req.method = "BYE" => Gone(c)
  BY HeadComes DEF Speaks, Serve
<1> HIDE DEF req
<1>2. \A d \in CallIds : Gone(d) => Gone(d)'
  BY DEF Gone
<1>3. ASSUME proc' # "crashed", NEW r \in startedFor'
      PROVE  r.cid \in CallIds /\ (media' = r \/ Gone(r.cid)')
  <2>1. /\ \/ startedFor' = startedFor /\ (media' = media \/ media' = NoMedia)
           \/ startedFor' = startedFor \union {req} /\ media' = req
        /\ \/ media' = media
           \/ media = NoMedia /\ media' = req
           \/ req.method = "BYE" /\ media.cid = c
    BY <1>1, <1>3, ServeStarts, ServeEffect DEF RInv, MInv
  <2>2. CASE r \in startedFor
    <3>1. r.cid \in CallIds /\ (media = r \/ Gone(r.cid))
      BY <1>1, <2>2 DEF RInv, Once
    <3>2. Gone(r.cid) => Gone(r.cid)'
      BY <1>2, <3>1
    <3>3. media = NoMedia => media # r
      BY <3>1, EndpointAssumption DEF NoMedia, Uas!NoRequest
    <3> QED BY <1>1, <2>1, <3>1, <3>2, <3>3
  <2>3. CASE r \notin startedFor
    BY <1>1, <1>3, <2>1, <2>3
  <2> QED BY <2>2, <2>3
<1> QED BY <1>3 DEF RInv, Once

\* A softphone calls, repeats its request, calls again, or hangs up.
LEMMA AskKeepsOnce ==
  ASSUME RInv, NEW c \in CallIds, NEW req, Speaks(c, req), NEW p, Ask(c, req, p),
         \/ phase[c] = "idle" /\ p = "calling" /\ req.method = "INVITE"
         \/ phase[c] = "up" /\ p = "reinviting" /\ req.method = "INVITE"
         \/ phase[c] \in {"calling", "reinviting", "closing"} /\ p = phase[c] /\ req = pending[c]
         \/ phase[c] = "up" /\ p = "closing" /\ req.method = "BYE"
  PROVE  Once'
<1>1. /\ wire \in [CallIds -> Seq(Uas!Requests)] /\ req \in Uas!Requests
      /\ wire' = [wire EXCEPT ![c] = Append(@, req)]
      /\ UNCHANGED endpoint
      /\ phase \in [CallIds -> Phases] /\ pending \in [CallIds -> Uas!Requests]
      /\ req.method \in {"INVITE", "BYE"}
  BY DEF RInv, MInv, Talk, Ask, Speaks
<1>2. /\ phase'[c] = p /\ pending'[c] = req
      /\ \A d \in CallIds \ {c} : phase'[d] = phase[d] /\ pending'[d] = pending[d]
  BY <1>1 DEF Ask
<1>3. /\ Carried(wire', c) = Carried(wire, c) \union {req}
      /\ \A d \in CallIds \ {c} : Carried(wire', d) = Carried(wire, d)
  <2>1. Asked(wire, wire', c, req)
    BY <1>1, WireAsked
  <2> QED BY <2>1 DEF Asked
<1>4. phase[c] \notin {"closing", "over"} => \A r \in Carried(wire, c) : r.method = "INVITE"
  BY DEF RInv, MInv, Talk
<1>5. phase[c] # "closing" => ~Gone(c)
  <2>1. phase[c] # "over"
    OBVIOUS
  <2>2. pending[c].method = "BYE" => phase[c] \in {"closing", "over"}
    BY DEF RInv, Once
  <2> QED BY <2>1, <2>2 DEF Gone
<1>6. InviteFirst(wire')
  <2>1. req.method = "BYE" \/ \A r \in Carried(wire, c) : r.method # "BYE"
    BY <1>1, <1>4 DEF RInv, Once
  <2> QED BY <1>1, <2>1, AskedInviteFirst DEF RInv, Once
<1>7. \A d \in CallIds : Gone(d) => Gone(d)'
  BY <1>2, <1>3, <1>5 DEF Gone, RInv, Once
<1>8. \A d \in CallIds :
        /\ phase'[d] = "closing" => pending'[d].method = "BYE"
        /\ pending'[d].method = "BYE" => phase'[d] \in {"closing", "over"}
        /\ pending'[d].method # "BYE" => \A r \in Carried(wire', d) : r.method = "INVITE"
  <2> DEFINE Right(d) ==
        /\ phase[d] = "closing" => pending[d].method = "BYE"
        /\ pending[d].method = "BYE" => phase[d] \in {"closing", "over"}
        /\ pending[d].method # "BYE" => \A r \in Carried(wire, d) : r.method = "INVITE"
  <2>1. \A d \in CallIds : Right(d)
    BY DEF RInv, Once
  <2>2. \A d \in CallIds \ {c} : Right(d)'
    BY <1>2, <1>3, <2>1
  <2>3. (p = "closing" => req.method = "BYE") /\ (req.method = "BYE" => p = "closing")
    BY <2>1
  <2>4. req.method = "INVITE" => \A r \in Carried(wire, c) : r.method = "INVITE"
    BY <1>4, <2>1
  <2>5. Right(c)'
    BY <1>1, <1>2, <1>3, <2>3, <2>4
  <2> QED BY <2>2, <2>5
<1>9. proc' = proc /\ media' = media /\ startedFor' = startedFor
  BY <1>1 DEF endpoint
<1> QED BY <1>6, <1>7, <1>8, <1>9 DEF RInv, Once

LEMMA InitRInv == Init => RInv
<1> SUFFICES ASSUME Init PROVE Once
  BY InitMInv DEF RInv
<1>1. \A c \in CallIds : /\ wire[c] = <<>> /\ Carried(wire, c) = {} /\ phase[c] = "idle"
                         /\ pending[c].method # "BYE"
  BY DEF Init, Carried, Uas!NoRequest
<1> QED BY <1>1 DEF Init, Once, InviteFirst

LEMMA NextRInv == ~Reorders /\ RInv /\ [Next]_vars => RInv'
<1> SUFFICES ASSUME ~Reorders, RInv, [Next]_vars PROVE Once'
  BY NextMInv DEF RInv
<1>1. ASSUME Interrupt PROVE Once'
  <2>1. UNCHANGED <<wire, phase, pending>> /\ proc' # "running"
    BY <1>1 DEF Interrupt, environment, network
  <2> QED BY <2>1 DEF RInv, Once
<1>2. ASSUME NEW c \in CallIds, NEW i \in Arriving(c), wire' = [wire EXCEPT ![c] = RemoveAt(@, i)]
      PROVE  /\ InviteFirst(wire)'
             /\ \A d \in CallIds : Carried(wire, d)' \subseteq Carried(wire, d)
  <2>1. i = 1 /\ 1 \in 1 .. Len(wire[c]) /\ wire \in [CallIds -> Seq(Uas!Requests)]
    BY HeadComes DEF RInv, MInv, Talk
  <2>2. InviteFirst(wire')
    BY <1>2, <2>1, HeadTaken DEF RInv, Once
  <2>3. \A d \in CallIds : Carried(wire', d) \subseteq Carried(wire, d)
    BY <1>2, <2>1, WireTaken
  <2> QED BY <2>2, <2>3
<1>3. ASSUME NEW c \in CallIds, Deliver(c) PROVE Once'
  <2> PICK i \in Arriving(c) :
        /\ Serve(wire[c][i])
        /\ wire' = [wire EXCEPT ![c] = RemoveAt(@, i)]
        /\ UNCHANGED <<phase, pending>>
    BY <1>3 DEF Deliver
  <2> QED BY <1>2, ServeKeepsOnce
<1>4. ASSUME NEW c \in CallIds, DeliverCopy(c) PROVE Once'
  <2> PICK i \in Arriving(c) : Serve(wire[c][i]) /\ UNCHANGED <<wire, phase, pending>>
    BY <1>4 DEF DeliverCopy
  <2>1. InviteFirst(wire)' /\ \A d \in CallIds : Carried(wire, d)' \subseteq Carried(wire, d)
    BY DEF RInv, Once, InviteFirst, Carried
  <2> QED BY <2>1, ServeKeepsOnce
<1>5. ASSUME NEW c \in CallIds, Lose(c) PROVE Once'
  <2> PICK i \in Arriving(c) :
        /\ wire' = [wire EXCEPT ![c] = RemoveAt(@, i)]
        /\ UNCHANGED <<endpoint, sent, answers, phase, pending>>
    BY <1>5 DEF Lose
  <2>1. InviteFirst(wire)' /\ \A d \in CallIds : Carried(wire, d)' \subseteq Carried(wire, d)
    BY <1>2
  <2>2. \A d \in CallIds : Gone(d) => Gone(d)'
    BY <2>1 DEF Gone
  <2>3. UNCHANGED <<proc, media, startedFor, phase, pending>>
    BY DEF endpoint
  <2> QED BY <2>1, <2>2, <2>3 DEF RInv, Once
<1>12. ASSUME NEW c \in CallIds, LoseAnswer(c) PROVE Once'
  <2>1. UNCHANGED <<endpoint, wire, sent, phase, pending>>
    BY <1>12 DEF LoseAnswer
  <2> QED BY <2>1 DEF endpoint, RInv, Once, Gone
<1>13. ASSUME NEW c \in CallIds, DeliverLast(c) PROVE Once'
  <2> PICK i \in Arriving(c) :
        /\ ServeThrows(wire[c][i])
        /\ wire' = [wire EXCEPT ![c] = RemoveAt(@, i)]
        /\ UNCHANGED <<phase, pending>>
    BY <1>13 DEF DeliverLast
  <2>1. InviteFirst(wire)' /\ \A d \in CallIds : Carried(wire, d)' \subseteq Carried(wire, d)
    BY <1>2
  <2>2. proc' = "thrown"
    BY ThrowEnds
  <2> QED BY <2>1, <2>2 DEF RInv, Once
<1>6. ASSUME NEW c \in CallIds, Call(c) PROVE Once'
  <2> PICK offer \in Uas!Offers : Ask(c, Request("INVITE", c, 1, offer), "calling")
    BY <1>6 DEF Call
  <2>1. Speaks(c, Request("INVITE", c, 1, offer)) /\ Request("INVITE", c, 1, offer).method = "INVITE"
    BY DEF Speaks, Request, Uas!Requests, Uas!Methods, CSeqs
  <2> QED BY <1>6, <2>1, AskKeepsOnce DEF Call
<1>7. ASSUME NEW c \in CallIds, ReInvite(c) PROVE Once'
  <2> PICK offer \in Uas!Offers : Ask(c, Request("INVITE", c, 2, offer), "reinviting")
    BY <1>7 DEF ReInvite
  <2>1. Speaks(c, Request("INVITE", c, 2, offer)) /\ Request("INVITE", c, 2, offer).method = "INVITE"
    BY DEF Speaks, Request, Uas!Requests, Uas!Methods, CSeqs
  <2> QED BY <1>7, <2>1, AskKeepsOnce DEF ReInvite
<1>8. ASSUME NEW c \in CallIds, HangUp(c) PROVE Once'
  <2>1. Speaks(c, Request("BYE", c, 3, "good")) /\ Request("BYE", c, 3, "good").method = "BYE"
    BY DEF Speaks, Request, Uas!Requests, Uas!Methods, Uas!Offers, CSeqs
  <2> QED BY <1>8, <2>1, AskKeepsOnce DEF HangUp
<1>9. ASSUME NEW c \in CallIds, Retransmit(c) PROVE Once'
  <2>1. Speaks(c, pending[c])
    BY <1>9 DEF Retransmit, Waits, RInv, MInv, Talk
  <2> QED BY <1>9, <2>1, AskKeepsOnce DEF Retransmit, Waits
<1>10. ASSUME NEW c \in CallIds, Hear(c) PROVE Once'
  <2>1. PICK p \in Phases :
          /\ phase' = [phase EXCEPT ![c] = p]
          /\ \/ phase[c] \in {"calling", "reinviting"} /\ p \in {"up", "over"}
             \/ phase[c] = "closing" /\ p = "over"
    BY <1>10 DEF Hear, Phases
  <2>2. UNCHANGED <<endpoint, wire, pending>>
    BY <1>10 DEF Hear
  <2>3. /\ phase'[c] = p /\ \A d \in CallIds \ {c} : phase'[d] = phase[d]
    BY <2>1 DEF RInv, MInv, Talk
  <2>4. phase[c] \in {"calling", "reinviting"} => pending[c].method = "INVITE"
    BY DEF RInv, MInv, Talk
  <2>5. \A d \in CallIds : Gone(d)' = Gone(d)
    BY <2>2 DEF Gone
  <2>6. UNCHANGED <<proc, media, startedFor>>
    BY <2>2 DEF endpoint
  <2> QED BY <2>1, <2>2, <2>3, <2>4, <2>5, <2>6 DEF RInv, Once
<1>11. CASE UNCHANGED vars
  BY <1>11 DEF vars, endpoint, environment, network, RInv, Once, Gone
<1> QED
  BY <1>1, <1>3, <1>4, <1>5, <1>6, <1>7, <1>8, <1>9, <1>10, <1>11, <1>12, <1>13 DEF Next

\* SipUas.cpp:96-98: "Do NOT restart media": no INVITE starts the media twice, in any
\* number of copies, and whether or not softphones send INVITEs inside the call.
THEOREM InviteStartsMediaOnce ==
  ASSUME ~Reorders
  PROVE  Spec => MediaStartedOncePerInvite
<1> DEFINE New == media' # media /\ media' # NoMedia => media' \notin startedFor
<1>1. ASSUME RInv, Next PROVE New
  <2> SUFFICES ASSUME media' # media, media' # NoMedia PROVE media' \notin startedFor
    OBVIOUS
  <2>1. PICK c \in CallIds : Deliver(c) \/ DeliverCopy(c)
    <3>1. ~Interrupt
      BY DEF Interrupt
    <3>2. ASSUME NEW c \in CallIds PROVE ~Lose(c) /\ ~LoseAnswer(c) /\ ~Hear(c) /\ ~DeliverLast(c)
      BY ThrowEnds DEF Lose, LoseAnswer, Hear, DeliverLast, endpoint
    <3>3. ASSUME NEW c \in CallIds PROVE ~Call(c) /\ ~ReInvite(c) /\ ~HangUp(c) /\ ~Retransmit(c)
      BY DEF Call, ReInvite, HangUp, Retransmit, Ask, endpoint
    <3> QED BY <1>1, <3>1, <3>2, <3>3 DEF Next
  <2> PICK i \in Arriving(c) : Serve(wire[c][i])
    BY <2>1 DEF Deliver, DeliverCopy
  <2> DEFINE req == wire[c][i]
  <2>2. req \in Carried(wire, c) /\ Speaks(c, req) /\ Serve(req) /\ Held
    BY <1>1, HeadComes DEF RInv, MInv
  <2> HIDE DEF req
  <2>3. req.cid = c /\ proc = "running"
    BY <2>2 DEF Speaks, Serve
  <2>4. media' = req /\ proc' = proc /\ req.method = "INVITE"
    BY <2>2, ServeStarts
  <2>5. media = NoMedia
    BY <2>2, <2>3, <2>4, ServeEffect
  <2>6. ~Gone(c)
    BY <2>2, <2>4 DEF Gone
  <2>7. \A r \in startedFor : media = r \/ Gone(r.cid)
    BY <1>1, <2>3 DEF RInv, Once
  <2> QED BY <2>3, <2>4, <2>5, <2>6, <2>7
<1>2. RInv /\ [Next]_vars => [New]_vars
  BY <1>1
<1>3. ASSUME ~Reorders PROVE RInv /\ [Next]_vars => RInv'
  BY <1>3, NextRInv
<1> HIDE DEF New
<1>4. Spec => [][New]_vars
  BY <1>2, <1>3, InitRInv, PTL DEF Spec
<1> QED BY <1>4 DEF New, MediaStartedOncePerInvite
-----------------------------------------------------------------------------
(* Types *)

\* What handle returns, by the kind of its Result.
LEMMA ResponsesTyped ==
  ASSUME NEW req \in Uas!Requests, NEW other \in Uas!Requests, NEW code \in Uas!Codes
  PROVE  /\ Uas!Response(req, code) \in Uas!Responses
         /\ <<>> \in Seq(Uas!Responses)
         /\ <<Uas!Response(req, code)>> \in Seq(Uas!Responses)
         /\ <<Uas!Response(req, 200), Uas!Response(other, 487)>> \in Seq(Uas!Responses)
         /\ <<Uas!Response(req, 100), Uas!Response(req, 180), Uas!Response(req, code)>>
              \in Seq(Uas!Responses)
<1>1. \A r \in Uas!Requests, k \in Uas!Codes : Uas!Response(r, k) \in Uas!Responses
  BY DEF Uas!Response, Uas!Responses, Uas!Requests
<1>2. {100, 180, 200, 487} \subseteq Uas!Codes
  BY DEF Uas!Codes
<1> DEFINE a == Uas!Response(req, 100)
           b == Uas!Response(req, 180)
           d == Uas!Response(req, 200)
           e == Uas!Response(other, 487)
           f == Uas!Response(req, code)
<1>3. {a, b, d, e, f} \subseteq Uas!Responses
  BY <1>1, <1>2
<1> HIDE DEF a, b, d, e, f
<1>4. /\ <<f>> \in Seq(Uas!Responses) /\ <<d, e>> \in Seq(Uas!Responses)
      /\ <<a, b, f>> \in Seq(Uas!Responses) /\ <<>> \in Seq(Uas!Responses)
  BY <1>3
<1> QED BY <1>3, <1>4 DEF a, b, d, e, f

\* One call of handle: its Result, and the agent it leaves.
LEMMA HandleTyped ==
  ASSUME Uas!TypeOK, NEW req \in Uas!Requests, Uas!Handle(req)
  PROVE  /\ Uas!TypeOK'
         /\ result'.media = "Start" => req \in OpenOffers
         /\ ToSet(result'.responses) \subseteq Uas!Responses
<1>0. invite \in Uas!Requests /\ last2xx \in Uas!Responses /\ haveDialog \in BOOLEAN
      /\ answered \in BOOLEAN
  BY DEF Uas!TypeOK
<1> DEFINE Made(rs, action) ==
      /\ result' = [req |-> req, responses |-> rs, media |-> action]
      /\ rs \in Seq(Uas!Responses) /\ action \in {"None", "Start", "Stop"}
      /\ action = "Start" => req \in OpenOffers
           Left ==
      /\ haveDialog' \in BOOLEAN /\ answered' \in BOOLEAN
      /\ invite' \in Uas!Requests /\ last2xx' \in Uas!Responses
           Done == Left /\ \E rs, action : Made(rs, action)
<1>1. ASSUME UNCHANGED Uas!dialog PROVE Left
  BY <1>0, <1>1 DEF Uas!dialog
<1>2. Done => /\ Uas!TypeOK'
              /\ result'.media = "Start" => req \in OpenOffers
              /\ ToSet(result'.responses) \subseteq Uas!Responses
  <2> SUFFICES ASSUME Left, NEW rs, NEW action, Made(rs, action)
               PROVE  /\ Uas!TypeOK'
                      /\ result'.media = "Start" => req \in OpenOffers
                      /\ ToSet(result'.responses) \subseteq Uas!Responses
    OBVIOUS
  <2>1. result'.media = action /\ result'.responses = rs /\ rs \in Seq(Uas!Responses)
    OBVIOUS
  <2>2. ToSet(rs) \subseteq Uas!Responses
    BY <2>1 DEF ToSet
  <2> QED BY <2>1, <2>2 DEF Uas!TypeOK
<1>3. \A code \in {100, 180, 200, 400, 405, 481, 486, 487, 488} :
        /\ Uas!Response(req, code) \in Uas!Responses
        /\ <<>> \in Seq(Uas!Responses)
        /\ <<Uas!Response(req, code)>> \in Seq(Uas!Responses)
        /\ <<Uas!Response(req, 200), Uas!Response(invite, 487)>> \in Seq(Uas!Responses)
        /\ <<Uas!Response(req, 100), Uas!Response(req, 180), Uas!Response(req, code)>>
             \in Seq(Uas!Responses)
  BY <1>0, ResponsesTyped DEF Uas!Codes
<1> SUFFICES Done
  BY <1>2
<1> HIDE DEF Done
<1>4. CASE Uas!Invite(req)
  <2>0. req.method = "INVITE"
    BY <1>4 DEF Uas!Invite
  <2>1. CASE Uas!InviteIncomplete(req)
    <3>1. Made(<<Uas!Response(req, 400)>>, "None") /\ Left
      BY <1>1, <1>3, <2>1 DEF Uas!InviteIncomplete, Uas!Return
    <3> HIDE DEF Made, Left
    <3> QED BY <3>1 DEF Done
  <2>2. CASE Uas!InviteRetransmitted(req)
    <3>1. <<last2xx>> \in Seq(Uas!Responses) /\ <<>> \in Seq(Uas!Responses)
      BY <1>0
    <3>2. Made(IF answered THEN <<last2xx>> ELSE <<>>, "None") /\ Left
      BY <1>1, <2>2, <3>1 DEF Uas!InviteRetransmitted, Uas!Return
    <3> HIDE DEF Made, Left
    <3> QED BY <3>2 DEF Done
  <2>3. CASE Uas!InviteBusy(req)
    <3>1. Made(<<Uas!Response(req, 486)>>, "None") /\ Left
      BY <1>1, <1>3, <2>3 DEF Uas!InviteBusy, Uas!Return
    <3> HIDE DEF Made, Left
    <3> QED BY <3>1 DEF Done
  <2>4. CASE Uas!InviteNew(req)
    <3>1. ASSUME NEW code \in {400, 488}, Uas!Refuse(req, code) PROVE Done
      <4>1. Left
        BY <1>0, <2>4, <3>1 DEF Uas!Refuse, Uas!InviteNew
      <4>2. Made(<<Uas!Response(req, 100), Uas!Response(req, 180), Uas!Response(req, code)>>, "None")
        BY <1>3, <3>1 DEF Uas!Refuse, Uas!Return
      <4> HIDE DEF Made, Left
      <4> QED BY <4>1, <4>2 DEF Done
    <3>2. CASE req.offer = "good" /\ Uas!Accept(req)
      <4>1. Left
        BY <1>3, <2>4, <3>2 DEF Uas!Accept, Uas!InviteNew
      <4>2. Made(<<Uas!Response(req, 100), Uas!Response(req, 180), Uas!Response(req, 200)>>, "Start")
        BY <1>3, <2>0, <3>2 DEF Uas!Accept, Uas!Return, OpenOffers
      <4> HIDE DEF Made, Left
      <4> QED BY <4>1, <4>2 DEF Done
    <3> QED BY <2>4, <3>1, <3>2 DEF Uas!InviteNew
  <2> QED BY <1>4, <2>1, <2>2, <2>3, <2>4 DEF Uas!Invite
<1>5. CASE Uas!Cancel(req)
  <2>1. Left
    BY <1>0, <1>5 DEF Uas!Cancel, Uas!StillPending, Uas!OfDialog
  <2>2. CASE Uas!StillPending(req)
    <3>1. Made(<<Uas!Response(req, 200), Uas!Response(invite, 487)>>, "Stop")
      BY <1>3, <1>5, <2>2 DEF Uas!Cancel, Uas!Return
    <3> HIDE DEF Made, Left
    <3> QED BY <2>1, <3>1 DEF Done
  <2>3. CASE ~Uas!StillPending(req)
    <3>1. Made(<<Uas!Response(req, 200)>>, "None")
      BY <1>3, <1>5, <2>3 DEF Uas!Cancel, Uas!Return
    <3> HIDE DEF Made, Left
    <3> QED BY <2>1, <3>1 DEF Done
  <2> QED BY <2>2, <2>3
<1>6. CASE Uas!Bye(req)
  <2>1. Left
    BY <1>0, <1>1, <1>6 DEF Uas!Bye
  <2>2. \E code \in {200, 481}, action \in {"None", "Stop"} :
          Made(<<Uas!Response(req, code)>>, action)
    BY <1>3, <1>6 DEF Uas!Bye, Uas!Return
  <2> HIDE DEF Made, Left
  <2> QED BY <2>1, <2>2 DEF Done
<1>7. CASE Uas!Options(req) \/ Uas!Ack(req) \/ Uas!Other(req)
  <2>1. Left
    BY <1>1, <1>7 DEF Uas!Options, Uas!Ack, Uas!Other
  <2>2. CASE Uas!Ack(req)
    <3>1. Made(<<>>, "None")
      BY <1>3, <2>2 DEF Uas!Ack, Uas!Return
    <3> HIDE DEF Made, Left
    <3> QED BY <2>1, <3>1 DEF Done
  <2>3. CASE Uas!Options(req) \/ Uas!Other(req)
    <3>1. \E code \in {200, 405} : Made(<<Uas!Response(req, code)>>, "None")
      BY <1>3, <2>3 DEF Uas!Options, Uas!Other, Uas!Return
    <3> HIDE DEF Made, Left
    <3> QED BY <2>1, <3>1 DEF Done
  <2> QED BY <1>7, <2>2, <2>3
<1> QED BY <1>4, <1>5, <1>6, <1>7 DEF Uas!Handle

LEMMA TransmitTyped ==
  ASSUME sent \subseteq Uas!Responses, answers \subseteq sent,
         NEW responses, ToSet(responses) \subseteq Uas!Responses, Transmit(responses)
  PROVE  sent' \subseteq Uas!Responses /\ answers' \subseteq sent'
BY DEF Transmit

\* One request served, and perhaps taken from the wire.
LEMMA ServeTyped ==
  ASSUME TypeOK, NEW req \in Uas!Requests, Serve(req), UNCHANGED <<phase, pending>>,
         wire' \in [CallIds -> Seq(Uas!Requests)],
         \A c \in CallIds : Len(wire'[c]) <= MaxInFlight
  PROVE  TypeOK'
<1>1. /\ Uas!TypeOK'
      /\ result'.media = "Start" => req \in OpenOffers
      /\ ToSet(result'.responses) \subseteq Uas!Responses
  BY HandleTyped DEF Serve, TypeOK
<1>2. sent' \subseteq Uas!Responses /\ answers' \subseteq sent'
  BY <1>1, TransmitTyped DEF Serve, TypeOK
<1>3. /\ media' = NoMedia \/ media' \in OpenOffers
      /\ proc' \in {"running", "exited", "thrown", "crashed"}
      /\ startedFor' \subseteq Uas!Requests
  <2>0. result'.media \in {"None", "Start", "Stop"}
    BY <1>1 DEF Uas!TypeOK
  <2>1. CASE result'.media = "Start"
    <3>1. StartMedia(req)
      BY <2>1 DEF Serve
    <3> QED BY <1>1, <2>1, <3>1 DEF StartMedia, TypeOK, OpenOffers
  <2>2. CASE result'.media = "Stop"
    <3>1. StopMedia
      BY <2>2 DEF Serve
    <3> QED BY <3>1 DEF StopMedia, TypeOK
  <2>3. CASE result'.media = "None"
    <3>1. UNCHANGED <<media, proc, startedFor>>
      BY <2>3 DEF Serve
    <3> QED BY <3>1 DEF TypeOK
  <2> QED BY <2>0, <2>1, <2>2, <2>3
<1>4. phase' \in [CallIds -> Phases] /\ pending' \in [CallIds -> Uas!Requests]
  BY DEF TypeOK
<1> HIDE DEF OpenOffers, NoMedia
<1> QED BY <1>1, <1>2, <1>3, <1>4 DEF TypeOK, OpenOffers, Uas!Requests

\* One request served as far as a response that cannot be sent.
LEMMA ThrowTyped ==
  ASSUME TypeOK, NEW req \in Uas!Requests, ServeThrows(req), UNCHANGED <<phase, pending>>,
         wire' \in [CallIds -> Seq(Uas!Requests)],
         \A c \in CallIds : Len(wire'[c]) <= MaxInFlight
  PROVE  TypeOK'
<1>1. Uas!TypeOK'
  BY HandleTyped DEF ServeThrows, TypeOK
<1>2. PICK i \in DOMAIN result'.responses : Transmit(SubSeq(result'.responses, 1, i - 1))
  BY DEF ServeThrows
<1> DEFINE rs == result'.responses
           head == SubSeq(rs, 1, i - 1)
<1>3. rs \in Seq(Uas!Responses) /\ i \in 1 .. Len(rs)
  BY <1>1, <1>2 DEF Uas!TypeOK
<1>4. ToSet(head) \subseteq Uas!Responses
  <2> HIDE DEF rs
  <2>1. Len(rs) \in Nat /\ \A j \in 1 .. i - 1 : rs[j] \in Uas!Responses
    BY <1>3, LenProperties
  <2>2. head \in Seq(Uas!Responses)
    BY <1>3, <2>1, SubSeqProperties
  <2> HIDE DEF head
  <2> QED BY <2>2 DEF ToSet
<1>5. sent' \subseteq Uas!Responses /\ answers' \subseteq sent'
  BY <1>2, <1>4, TransmitTyped DEF TypeOK
<1>6. proc' = "thrown" /\ UNCHANGED <<media, startedFor>>
  BY ThrowEnds
<1> HIDE DEF OpenOffers, NoMedia
<1> QED BY <1>1, <1>5, <1>6 DEF TypeOK, OpenOffers, Uas!Requests

\* What the network may take from the wire.
LEMMA WireTakenTyped ==
  ASSUME TypeOK, NEW c \in CallIds, NEW i \in Arriving(c)
  PROVE  /\ wire[c][i] \in Uas!Requests
         /\ \A v : v = [wire EXCEPT ![c] = RemoveAt(@, i)] =>
              /\ v \in [CallIds -> Seq(Uas!Requests)]
              /\ \A d \in CallIds : Len(v[d]) <= MaxInFlight
<1>1. /\ wire \in [CallIds -> Seq(Uas!Requests)] /\ wire[c] \in Seq(Uas!Requests)
      /\ \A d \in CallIds : Len(wire[d]) <= MaxInFlight
      /\ i \in 1 .. Len(wire[c])
  BY DEF TypeOK, Arriving
<1>2. wire[c][i] \in Uas!Requests
  BY <1>1
<1>3. ASSUME NEW v, v = [wire EXCEPT ![c] = RemoveAt(@, i)]
      PROVE  /\ v \in [CallIds -> Seq(Uas!Requests)]
             /\ \A d \in CallIds : Len(v[d]) <= MaxInFlight
  <2>1. v \in [CallIds -> Seq(Uas!Requests)]
    BY <1>1, <1>3, WireTaken
  <2>2. Len(RemoveAt(wire[c], i)) = Len(wire[c]) - 1
    BY <1>1, RemoveAtIs
  <2>3. Len(wire[c]) \in Nat /\ Len(wire[c]) <= MaxInFlight /\ MaxInFlight \in Nat
    BY <1>1, EndpointAssumption
  <2>4. \A d \in CallIds : v[d] = IF d = c THEN RemoveAt(wire[c], i) ELSE wire[d]
    BY <1>1, <1>3
  <2> QED BY <1>1, <2>1, <2>2, <2>3, <2>4
<1> QED BY <1>2, <1>3

LEMMA AskTyped ==
  ASSUME TypeOK, NEW c \in CallIds, NEW req \in Uas!Requests, NEW becomes \in Phases,
         Ask(c, req, becomes)
  PROVE  TypeOK'
<1>1. wire \in [CallIds -> Seq(Uas!Requests)] /\ wire[c] \in Seq(Uas!Requests)
  BY DEF TypeOK
<1>2. /\ Append(wire[c], req) \in Seq(Uas!Requests)
      /\ Len(Append(wire[c], req)) = Len(wire[c]) + 1
      /\ Len(wire[c]) \in Nat /\ Len(wire[c]) < MaxInFlight
  BY <1>1 DEF Ask
<1>3. \A d \in CallIds : wire'[d] = IF d = c THEN Append(wire[c], req) ELSE wire[d]
  BY <1>1 DEF Ask
<1>4. wire' \in [CallIds -> Seq(Uas!Requests)] /\ \A d \in CallIds : Len(wire'[d]) <= MaxInFlight
  <2>1. wire' \in [CallIds -> Seq(Uas!Requests)]
    BY <1>1, <1>2 DEF Ask
  <2>2. Len(wire[c]) + 1 <= MaxInFlight
    BY <1>2, EndpointAssumption
  <2> QED BY <1>2, <1>3, <2>1, <2>2 DEF TypeOK
<1>5. phase' \in [CallIds -> Phases] /\ pending' \in [CallIds -> Uas!Requests]
  BY DEF Ask, TypeOK
<1>6. UNCHANGED <<endpoint, sent, answers>>
  BY DEF Ask
<1>7. /\ UNCHANGED <<haveDialog, answered, invite, last2xx, result>>
      /\ UNCHANGED <<media, proc, startedFor, sent, answers>>
  BY <1>6 DEF endpoint, uas
<1>8. Uas!TypeOK'
  BY <1>7 DEF TypeOK, Uas!TypeOK
<1> QED BY <1>4, <1>5, <1>7, <1>8 DEF TypeOK

LEMMA InitTypeOK == Init => TypeOK
<1> SUFFICES ASSUME Init PROVE TypeOK
  OBVIOUS
<1>1. Uas!NoRequest \in Uas!Requests /\ Uas!NoResponse \in Uas!Responses
  BY DEF Uas!NoRequest, Uas!Requests, Uas!Methods, Uas!Offers,
         Uas!NoResponse, Uas!Responses, Uas!Codes
<1>2. Uas!TypeOK
  <2>1. <<>> \in Seq(Uas!Responses)
    OBVIOUS
  <2> QED BY <1>1, <2>1 DEF Init, Uas!Init, Uas!TypeOK
<1>3. /\ wire \in [CallIds -> Seq(Uas!Requests)]
      /\ \A c \in CallIds : Len(wire[c]) <= MaxInFlight
  <2>1. Len(<<>>) <= MaxInFlight /\ <<>> \in Seq(Uas!Requests)
    BY EndpointAssumption
  <2> QED BY <2>1 DEF Init
<1> QED BY <1>1, <1>2, <1>3 DEF Init, TypeOK, Phases

LEMMA NextTypeOK == TypeOK /\ [Next]_vars => TypeOK'
<1> SUFFICES ASSUME TypeOK, [Next]_vars PROVE TypeOK'
  OBVIOUS
<1>0. ASSUME UNCHANGED <<haveDialog, answered, invite, last2xx, result>> PROVE Uas!TypeOK'
  BY <1>0 DEF TypeOK, Uas!TypeOK
<1>1. CASE Interrupt
  <2>1. /\ UNCHANGED <<haveDialog, answered, invite, last2xx, result>>
        /\ UNCHANGED <<startedFor, wire, sent, answers, phase, pending>>
        /\ proc' \in {"exited", "thrown"} /\ media' \in {NoMedia, media}
    BY <1>1 DEF Interrupt, uas, environment, network
  <2>2. Uas!TypeOK'
    BY <1>0, <2>1
  <2> QED BY <2>1, <2>2 DEF TypeOK
<1>2. ASSUME NEW c \in CallIds, Deliver(c) \/ DeliverCopy(c) PROVE TypeOK'
  <2>1. PICK i \in Arriving(c) :
          /\ Serve(wire[c][i]) /\ UNCHANGED <<phase, pending>>
          /\ wire' = wire \/ wire' = [wire EXCEPT ![c] = RemoveAt(@, i)]
    BY <1>2 DEF Deliver, DeliverCopy
  <2>2. /\ wire' \in [CallIds -> Seq(Uas!Requests)]
        /\ \A d \in CallIds : Len(wire'[d]) <= MaxInFlight
    <3>1. CASE wire' = wire
      BY <3>1 DEF TypeOK
    <3> QED BY <2>1, <3>1, WireTakenTyped
  <2>3. wire[c][i] \in Uas!Requests
    BY WireTakenTyped
  <2> QED BY <2>1, <2>2, <2>3, ServeTyped
<1>3. ASSUME NEW c \in CallIds, Lose(c) PROVE TypeOK'
  <2>1. PICK i \in Arriving(c) : wire' = [wire EXCEPT ![c] = RemoveAt(@, i)]
    BY <1>3 DEF Lose
  <2>2. /\ UNCHANGED <<haveDialog, answered, invite, last2xx, result>>
        /\ UNCHANGED <<media, proc, startedFor, sent, answers, phase, pending>>
    BY <1>3 DEF Lose, endpoint, uas
  <2>3. /\ wire' \in [CallIds -> Seq(Uas!Requests)]
        /\ \A d \in CallIds : Len(wire'[d]) <= MaxInFlight
    BY <2>1, WireTakenTyped
  <2>4. Uas!TypeOK'
    BY <1>0, <2>2
  <2> QED BY <2>2, <2>3, <2>4 DEF TypeOK
<1>4. ASSUME NEW c \in CallIds, Call(c) \/ ReInvite(c) \/ HangUp(c) \/ Retransmit(c)
      PROVE  TypeOK'
  <2>1. \A method \in {"INVITE", "BYE"}, cseq \in 1 .. 3, offer \in Uas!Offers :
          Request(method, c, cseq, offer) \in Uas!Requests
    BY DEF Request, Uas!Requests, Uas!Methods, CSeqs
  <2>2. pending[c] \in Uas!Requests /\ phase[c] \in Phases /\ "good" \in Uas!Offers
    BY DEF TypeOK, Uas!Offers
  <2>3. \E req \in Uas!Requests, becomes \in Phases : Ask(c, req, becomes)
    <3>1. CASE Call(c)
      BY <2>1, <3>1 DEF Call, Phases
    <3>2. CASE ReInvite(c)
      BY <2>1, <3>2 DEF ReInvite, Phases
    <3>3. CASE HangUp(c)
      BY <2>1, <2>2, <3>3 DEF HangUp, Phases
    <3>4. CASE Retransmit(c)
      BY <2>2, <3>4 DEF Retransmit, Waits
    <3> QED BY <1>4, <3>1, <3>2, <3>3, <3>4
  <2> QED BY <2>3, AskTyped
<1>5. ASSUME NEW c \in CallIds, Hear(c) PROVE TypeOK'
  <2>1. /\ UNCHANGED <<haveDialog, answered, invite, last2xx, result>>
        /\ UNCHANGED <<media, proc, startedFor, wire, sent, pending>>
        /\ answers' \subseteq answers
    BY <1>5 DEF Hear, endpoint, uas
  <2>2. phase' \in [CallIds -> Phases]
    BY <1>5 DEF Hear, TypeOK, Phases
  <2>3. Uas!TypeOK'
    BY <1>0, <2>1
  <2> QED BY <2>1, <2>2, <2>3 DEF TypeOK
<1>6. CASE UNCHANGED vars
  <2>1. /\ UNCHANGED <<haveDialog, answered, invite, last2xx, result>>
        /\ UNCHANGED <<media, proc, startedFor, wire, sent, answers, phase, pending>>
    BY <1>6 DEF vars, endpoint, uas, environment, network
  <2>2. Uas!TypeOK'
    BY <1>0, <2>1
  <2> QED BY <2>1, <2>2 DEF TypeOK
<1>7. ASSUME NEW c \in CallIds, LoseAnswer(c) PROVE TypeOK'
  <2>1. /\ UNCHANGED <<haveDialog, answered, invite, last2xx, result>>
        /\ UNCHANGED <<media, proc, startedFor, wire, sent, phase, pending>>
        /\ answers' \subseteq answers
    BY <1>7 DEF LoseAnswer, endpoint, uas
  <2>2. Uas!TypeOK'
    BY <1>0, <2>1
  <2> QED BY <2>1, <2>2 DEF TypeOK
<1>8. ASSUME NEW c \in CallIds, DeliverLast(c) PROVE TypeOK'
  <2>1. PICK i \in Arriving(c) :
          /\ ServeThrows(wire[c][i]) /\ UNCHANGED <<phase, pending>>
          /\ wire' = [wire EXCEPT ![c] = RemoveAt(@, i)]
    BY <1>8 DEF DeliverLast
  <2>2. /\ wire' \in [CallIds -> Seq(Uas!Requests)]
        /\ \A d \in CallIds : Len(wire'[d]) <= MaxInFlight
        /\ wire[c][i] \in Uas!Requests
    BY <2>1, WireTakenTyped
  <2> QED BY <2>1, <2>2, ThrowTyped
<1> QED BY <1>1, <1>2, <1>3, <1>4, <1>5, <1>6, <1>7, <1>8 DEF Next

\* Every variable of the endpoint keeps its type: handle and the loop hold, send and
\* start only what the types of the requests and of the Result allow, and no softphone
\* has more requests on their way than the bound.
THEOREM TypeCorrect == Spec => []TypeOK
<1> QED BY InitTypeOK, NextTypeOK, PTL DEF Spec

\* The loop drives the agent only as module SipUas says: every step of the endpoint is
\* one call of handle, with a request SipUas knows, or leaves the agent alone.
THEOREM EndpointDrivesAgent == Spec => Uas!Spec
<1>1. Init => Uas!Init
  BY DEF Init
<1>2. TypeOK /\ [Next]_vars => [Uas!Next]_(Uas!vars)
  <2> SUFFICES ASSUME TypeOK, [Next]_vars PROVE Uas!Next \/ UNCHANGED Uas!vars
    OBVIOUS
  <2>1. ASSUME NEW c \in CallIds, Deliver(c) \/ DeliverCopy(c) \/ DeliverLast(c) PROVE Uas!Next
    <3>1. PICK i \in Arriving(c) : Serve(wire[c][i]) \/ ServeThrows(wire[c][i])
      BY <2>1 DEF Deliver, DeliverCopy, DeliverLast
    <3>2. wire[c][i] \in Uas!Requests
      BY WireTakenTyped
    <3> QED BY <3>1, <3>2 DEF Serve, ServeThrows, Uas!Next
  <2>2. ASSUME \/ Interrupt \/ UNCHANGED vars
               \/ \E c \in CallIds : Lose(c) \/ LoseAnswer(c) \/ Call(c) \/ ReInvite(c)
                                       \/ HangUp(c) \/ Retransmit(c) \/ Hear(c)
        PROVE  UNCHANGED uas
    BY <2>2 DEF Interrupt, vars, endpoint, Lose, LoseAnswer, Call, ReInvite, HangUp, Retransmit, Ask, Hear
  <2> QED BY <2>1, <2>2 DEF Next, uas, Uas!vars, Uas!dialog
<1> QED BY <1>1, <1>2, TypeCorrect, PTL DEF Spec, Uas!Spec

=============================================================================
