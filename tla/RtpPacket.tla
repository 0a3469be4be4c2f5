------------------------------ MODULE RtpPacket ------------------------------
(***************************************************************************)
(* parse and serialize of rtp/RtpPacket.cpp.  A datagram is its fixed      *)
(* header of twelve bytes, field by field, and the bytes behind it.        *)
(* Timestamp and SSRC, which nothing but the jitter estimate reads, are    *)
(* left out, of the CSRC list only its bytes are kept, and datagrams of    *)
(* fewer than twelve bytes, refused at once, are not represented.          *)
(***************************************************************************)
EXTENDS Integers, Sequences

Byte == 0 .. 255

NoPacket == [payloadType |-> -1]     \* std::nullopt

\* The fields of a header, and what they mean for the bytes behind it.
CsrcBytes(head) == 4 * head.cc

ExtensionFits(head, rest) == Len(rest) >= CsrcBytes(head) + 4

ExtensionWords(head, rest) ==
  256 * rest[CsrcBytes(head) + 3] + rest[CsrcBytes(head) + 4]

\* How many bytes come before the payload.
PayloadStart(head, rest) ==
  CsrcBytes(head) + (IF head.extension THEN 4 + 4 * ExtensionWords(head, rest) ELSE 0)

\* The last byte of a padded datagram says how many bytes of padding there are.
\* Without bytes behind the header it is a byte of the SSRC, and refused whatever it is.
PadLength(head, rest) ==
  IF ~head.padding THEN 0 ELSE IF rest = <<>> THEN 0 ELSE rest[Len(rest)]

WellFormed(head, rest) ==
  /\ head.version = 2
  /\ Len(rest) >= CsrcBytes(head)
  /\ head.extension => /\ ExtensionFits(head, rest)
                       /\ Len(rest) >= PayloadStart(head, rest)
  /\ head.padding => PadLength(head, rest) \in 1 .. Len(rest) - PayloadStart(head, rest)

Parse(dg) ==
  IF ~WellFormed(dg.head, dg.rest) THEN NoPacket
  ELSE [marker |-> dg.head.marker, payloadType |-> dg.head.payloadType,
        sequence |-> dg.head.sequence,
        padding |-> dg.head.padding, extension |-> dg.head.extension,
        csrc |-> SubSeq(dg.rest, 1, CsrcBytes(dg.head)),
        payload |-> SubSeq(dg.rest, PayloadStart(dg.head, dg.rest) + 1,
                           Len(dg.rest) - PadLength(dg.head, dg.rest))]

\* serialize.  The bits for padding and extension are those of the packet, although
\* neither is written: a packet that has them does not parse back.
Serialize(pkt) ==
  LET cc == IF Len(pkt.csrc) > 60 THEN 15 ELSE Len(pkt.csrc) \div 4
  IN  [head |-> [version |-> 2, padding |-> pkt.padding, extension |-> pkt.extension,
                 cc |-> cc, marker |-> pkt.marker,
                 payloadType |-> pkt.payloadType % 128, sequence |-> pkt.sequence],
       rest |-> SubSeq(pkt.csrc, 1, 4 * cc) \o pkt.payload]

\* A packet as its constructor leaves it, with the fields every caller sets.
Packet(marker, payloadType, sequence, payload) ==
  [marker |-> marker, payloadType |-> payloadType, sequence |-> sequence,
   padding |-> FALSE, extension |-> FALSE, csrc |-> <<>>, payload |-> payload]
=============================================================================
