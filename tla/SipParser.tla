------------------------------ MODULE SipParser ------------------------------
(***************************************************************************)
(* parseSip and SipMessage of sip/SipParser.cpp.  A datagram is its start  *)
(* line, the lines up to the blank one, whether a blank one comes at all,  *)
(* and a body; Content-Length counts lines of the body.  The value of a    *)
(* header is a sequence of words, of which Blank is a space.               *)
(***************************************************************************)
EXTENDS Integers, Sequences, SequencesExt

CONSTANT Blank

\* A space is no digit.
ASSUME BlankAssumption == Blank \notin Nat

\* Lines of the header section.
HeaderLine(name, words) == [form |-> "header", name |-> name, words |-> words]
FoldedLine(word)        == [form |-> "folded", word |-> word]
NoiseLine               == [form |-> "noise"]     \* no colon, no name, or empty

NoMessage == [isRequest |-> FALSE, start |-> "none"]

Trim(words) ==
  LET solid == {i \in 1 .. Len(words) : words[i] # Blank}
  IN  IF solid = {} THEN <<>>
      ELSE SubSeq(words, CHOOSE i \in solid : \A j \in solid : i <= j,
                         CHOOSE i \in solid : \A j \in solid : i >= j)

\* Names are compared without regard to case.
ProperName(name) ==
  CASE name = "VIA" -> "Via" [] name = "CALL-ID" -> "Call-ID" [] OTHER -> name

IEquals(a, b) == ProperName(a) = ProperName(b)

-----------------------------------------------------------------------------
(* SipMessage *)

\* The headers of that name, or the others.
Keep(headers, name, same) ==
  LET kept[n \in 0 .. Len(headers)] ==
        IF n = 0 THEN <<>>
        ELSE IF IEquals(headers[n].name, name) = same THEN Append(kept[n - 1], headers[n])
             ELSE kept[n - 1]
  IN  kept[Len(headers)]

GetAll(msg, name) == Keep(msg.headers, name, TRUE)

Has(msg, name) == GetAll(msg, name) # <<>>

\* get: the first header of that name.
Get(msg, name) == GetAll(msg, name)[1].value

Header(name, value) == [name |-> name, value |-> value]

Without(headers, name) == Keep(headers, name, FALSE)

Add(msg, name, value) == [msg EXCEPT !.headers = Append(@, Header(name, value))]

Set(msg, name, value) ==
  [msg EXCEPT !.headers = Append(Without(@, name), Header(name, value))]

\* serialize: the length of the body is written anew whatever the message says.
Serialize(msg) ==
  LET kept == Without(msg.headers, "Content-Length")
  IN  [start |-> msg.start,
       lines |-> Append([i \in 1 .. Len(kept) |-> HeaderLine(kept[i].name, kept[i].value)],
                        HeaderLine("Content-Length", <<Len(msg.body)>>)),
       blank |-> TRUE, body |-> msg.body]

-----------------------------------------------------------------------------
(* parseSip *)

\* A folded line continues the header before it.
Unfold(headers, word) ==
  [headers EXCEPT ![Len(headers)].value = @ \o <<Blank, word>>]

ParseHeaderLine(acc, line) ==
  CASE line.form = "header" ->
         [acc EXCEPT !.headers = Append(@, Header(line.name, Trim(line.words)))]
    [] line.form = "folded" /\ acc.headers # <<>> ->
         [acc EXCEPT !.headers = Unfold(@, line.word)]
    [] OTHER -> [acc EXCEPT !.ok = FALSE]

ParseHeaders(lines) == FoldLeft(ParseHeaderLine, [ok |-> TRUE, headers |-> <<>>], lines)

\* strtol skips blanks in front, and finds a number or none.
IsNumber(words) == Trim(words) # <<>> /\ Trim(words)[1] \in Nat

Number(words) == Trim(words)[1]

\* Without a Content-Length the body is all there is; more than there is, or no
\* number, makes the datagram malformed.
LengthHolds(msg, body) ==
  Has(msg, "Content-Length") =>
    /\ IsNumber(Get(msg, "Content-Length"))
    /\ Number(Get(msg, "Content-Length")) <= Len(body)

Declared(msg, body) ==
  IF Has(msg, "Content-Length") THEN SubSeq(body, 1, Number(Get(msg, "Content-Length"))) ELSE body

ParseSip(dg) ==
  LET parsed == ParseHeaders(dg.lines)
      msg    == [isRequest |-> dg.start.form = "request", start |-> dg.start,
                 headers |-> parsed.headers, body |-> dg.body]
  IN  IF dg.blank /\ dg.start.form # "garbled" /\ parsed.ok /\ LengthHolds(msg, dg.body)
        THEN [msg EXCEPT !.body = Declared(msg, dg.body)]
        ELSE NoMessage
=============================================================================
