-------------------------------- MODULE Proto --------------------------------
(***************************************************************************)
(* Protocol buffers: lib/proto.c, and the WebSocket messages made of them: *)
(* lib/websocket.c.  A message is encoded, reaches the other side cut up   *)
(* into strings at any place, and is parsed.                               *)
(*                                                                         *)
(* A byte, an integer and an ASN (a number in a string) are the set of     *)
(* their bits that are 1: the code only moves bits by 7 places, and        *)
(* numbers of 64 bits are beyond TLC's.  Only a length is a number.        *)
(***************************************************************************)
EXTENDS Integers, Sequences

CONSTANTS
  IntBits,      \* size of an integer: 32 or 64
  Messages,     \* what can be sent
  MaxHeaders,   \* bound: headers of a message
  Cuts          \* places where strings are cut, in increasing order

ASSUME IntBitsAssumption == IntBits \in {32, 64}
ASSUME MaxHeadersAssumption == MaxHeaders \in Nat
ASSUME CutsAssumption ==
  \A cut \in Cuts : /\ cut \in Seq(Nat \ {0})
                    /\ \A i, j \in 1..Len(cut) : i < j => cut[i] < cut[j]

VARIABLES
  message,    \* what was sent
  wire,       \* strings that were received
  parsed      \* what was parsed

protoVars == <<message, wire, parsed>>

Byte == SUBSET (0..7)
Text == Seq(Byte)

First(S) == CHOOSE n \in S : \A m \in S : n <= m

(***************************************************************************)
(* Numbers as sets of bits                                                 *)
(***************************************************************************)

ShiftRight(bits, n) == {b \in 0..63 : b + n \in bits}
ShiftLeft(bits, n, size) == {b \in 0..(size - 1) : b - n \in bits}

\* A length, halved again and again.
Halves(n) == LET half[b \in Nat] == IF b = 0 THEN n ELSE half[b - 1] \div 2 IN half

\* A length as an integer, and an integer as a length.
BitsOf(n) == {b \in 0..(IntBits - 1) : Halves(n)[b] % 2 = 1}
Number(bits) ==
  LET top[i \in Nat] ==
        IF i = 0 THEN 0 ELSE 2 * top[i - 1] + IF IntBits - i \in bits THEN 1 ELSE 0
  IN top[IntBits]

\* It fits in an integer, without the sign bit.
FitsInt(n) == Halves(n)[IntBits - 1] = 0

\* Length in bytes of a number as an ASN with a bit for the sign.
AsnLength(bits) == First({len \in 1..9 : bits \subseteq 0..(8 * len - 2)})

(***************************************************************************)
(* proto.c: encoding                                                       *)
(***************************************************************************)

\* Bytes with 7 bits each, of which n are followed by another.
Groups(bits, n) ==
  [i \in 1..(n + 1) |->
     LET rest == ShiftRight(bits, 7 * (i - 1)) IN
     IF i <= n THEN {7} \cup (rest \cap 0..6) ELSE rest]

\* protoInt()
ProtoInt(bits) == Groups(bits, First({n \in 0..9 : ShiftRight(bits, 7 * n) \subseteq 0..6}))

\* protoAsn(): a string of len bytes; from the first shift on the length is the
\* least possible.
ProtoAsn(bits, len) ==
  Groups(bits, IF len = 1 THEN 0
               ELSE First({n \in 1..9 : AsnLength(ShiftRight(bits, 7 * n)) = 1}))

\* protoString(), protoStrbuf()
ProtoString(str) == ProtoInt(BitsOf(Len(str))) \o str

(***************************************************************************)
(* proto.c: parsing.  A parser has the strings that were not yet taken     *)
(* from the StringBuffer, the current string and the offset in it.  A      *)
(* parse gives the value and the new parser, or Error.                     *)
(***************************************************************************)

Parser ==
  {p \in [rest : Seq(Text), buf : Text, offset : Nat] : p.offset <= Len(p.buf)}
\* No string is taken yet, or the next one.
Start(chunks) == [rest |-> chunks, buf |-> <<>>, offset |-> 0]
NextString(p) == [rest |-> Tail(p.rest), buf |-> Head(p.rest), offset |-> 0]

Error == [ok |-> FALSE]
Result(value, p) == [ok |-> TRUE, value |-> value, p |-> p]

AtEnd(p) == p.offset >= Len(p.buf)

\* The next string, when the current one is used up.
Refill(p) ==
  IF AtEnd(p) /\ p.rest # <<>> THEN NextString(p) ELSE p

\* parseByte(): -1 at the end
MinusOne == 0..(IntBits - 1)
ParseByte(p) ==
  LET q == Refill(p) IN
  IF AtEnd(q) THEN Result(MinusOne, q)
  ELSE Result(q.buf[q.offset + 1], [q EXCEPT !.offset = @ + 1])

\* One pass through the loop of parseInt() and parseAsn(), the i-th: size is that of
\* an integer, or that of the modulus ASN64.
GroupStep(s, i, size) ==
  LET c == ParseByte(s.p) IN
  IF ~ s.more THEN s
  ELSE [more |-> 7 \in c.value,
        value |-> s.value \cup ShiftLeft(c.value \cap 0..6, 7 * (i - 1), size),
        p |-> c.p]

\* No number that is sent has more than 10 groups.
MaxGroups == 10
GroupLoop(p, size) ==
  LET after[i \in 0..MaxGroups] ==
        IF i = 0 THEN [more |-> TRUE, value |-> {}, p |-> p]
        ELSE GroupStep(after[i - 1], i, size) IN after

\* What was parsed, if the loop has ended.
Grouped(s) == IF s.more THEN Error ELSE Result(s.value, s.p)
ParseGroups(p, size) == Grouped(GroupLoop(p, size)[MaxGroups])

ParseInt(p) == ParseGroups(p, IntBits)

ParseAsn(p) == ParseGroups(p, 64)

\* How much is left of the current string.
Left(p) == Len(p.buf) - p.offset

\* The next n bytes of it.
Take(p, n) == SubSeq(p.buf, p.offset + 1, p.offset + n)

\* One pass through the loops of parseBytes() and parseStrbuf(), which take the rest of
\* a string and go on with the next one as long as more is needed.
PieceStep(s) ==
  IF s.len <= Left(s.p) \/ s.p.rest = <<>> THEN s
  ELSE [pieces |-> Append(s.pieces, Take(s.p, Left(s.p))), len |-> s.len - Left(s.p),
        p |-> NextString(s.p)]

PieceLoop(p, len) ==
  LET after[i \in 0..Len(p.rest)] ==
        IF i = 0 THEN [pieces |-> <<>>, len |-> len, p |-> p] ELSE PieceStep(after[i - 1])
  IN after

\* The last piece has what is still needed, if the string has as much.
LastPiece(s) ==
  IF s.len > Left(s.p) THEN Error
  ELSE Result(Append(s.pieces, Take(s.p, s.len)), [s.p EXCEPT !.offset = @ + s.len])
ParsePieces(p, len) == LastPiece(PieceLoop(p, len)[Len(p.rest)])

\* Strings one after the other.
Prefix(pieces) ==
  LET str[i \in 0..Len(pieces)] == IF i = 0 THEN <<>> ELSE str[i - 1] \o pieces[i] IN str
Joined(pieces) == Prefix(pieces)[Len(pieces)]

\* parseBytes()
JoinPieces(r) == IF r.ok THEN Result(Joined(r.value), r.p) ELSE Error
ParseBytes(p, len) == JoinPieces(ParsePieces(p, len))

\* parseString()
StringOf(len) == IF len.ok THEN ParseBytes(len.p, Number(len.value)) ELSE Error
ParseString(p) == StringOf(ParseInt(p))

\* parseStrbuf(): a StringBuffer with these pieces; it keeps no empty strings, and
\* only the first can be empty.
ParseStrbuf(p) ==
  LET len == ParseInt(p)
      r == ParsePieces(len.p, Number(len.value)) IN
  IF ~ len.ok THEN Error
  ELSE IF ~ r.ok THEN Error
  ELSE Result(IF r.value[1] = <<>> THEN Tail(r.value) ELSE r.value, r.p)

\* Mutant: the message ends where a string ends.
ParseDoneShort(p) == AtEnd(p)

\* parseDone()
ParseDone(p) == AtEnd(p) /\ p.rest = <<>>

(***************************************************************************)
(* websocket.c: messages.  A body that may be missing is a sequence of one *)
(* string, or of none.                                                     *)
(***************************************************************************)

Optionally == {body \in Seq(Text) : Len(body) <= 1}
RequestMessage ==
  [type : {"request"}, verb : Text, path : Text, body : Optionally,
   context : SUBSET (0..63), headers : Seq(Text)]
ResponseMessage ==
  [type : {"response"}, context : SUBSET (0..63), code : SUBSET (0..(IntBits - 1)),
   comment : Text, body : Optionally, headers : Seq(Text)]

\* Tags and types, as bits; in octal they are:
MessageType == {3}           \* 010
RequestType == {0}           \* 001
ResponseType == {1}          \* 002
RequestTag == {1, 4}         \* 022
ResponseTag == {1, 3, 4}     \* 032
VerbTag == {1, 3}            \* 012
PathTag == {1, 4}            \* 022
RequestBodyTag == {1, 3, 4}  \* 032
RequestIdTag == {5}          \* 040
ResponseIdTag == {3}         \* 010
CodeTag == {4}               \* 020
CommentTag == {1, 3, 4}      \* 032
ResponseBodyTag == {1, 5}    \* 042
HeaderTag == {1, 3, 5}       \* 052

Field(tag, str) == <<tag>> \o ProtoString(str)
OptField(tag, body) == IF body = <<>> THEN <<>> ELSE Field(tag, body[1])
IntField(tag, bits) == <<tag>> \o ProtoInt(bits)
AsnField(tag, bits) == <<tag>> \o ProtoAsn(bits, 8)
HeaderFields(headers) == Joined([i \in 1..Len(headers) |-> Field(HeaderTag, headers[i])])

\* wsRequest(): the request, and the message with it.
RequestBytes(m) ==
  Field(VerbTag, m.verb) \o Field(PathTag, m.path) \o OptField(RequestBodyTag, m.body)
    \o AsnField(RequestIdTag, m.context) \o HeaderFields(m.headers)
WsRequest(m) == <<MessageType, RequestType>> \o Field(RequestTag, RequestBytes(m))

\* wsResponse()
ResponseBytes(m) ==
  AsnField(ResponseIdTag, m.context) \o IntField(CodeTag, m.code)
    \o Field(CommentTag, m.comment) \o OptField(ResponseBodyTag, m.body)
    \o HeaderFields(m.headers)
WsResponse(m) == <<MessageType, ResponseType>> \o Field(ResponseTag, ResponseBytes(m))

Encoded(m) == IF m.type = "request" THEN WsRequest(m) ELSE WsResponse(m)

ASSUME MessagesAssumption ==
  \A m \in Messages :
    /\ m \in RequestMessage \cup ResponseMessage
    /\ Len(m.headers) <= MaxHeaders
    /\ FitsInt(Len(Encoded(m)))

\* A field with this tag, after what was parsed in r.
Expect(r, tag, Op(_)) ==
  IF ~ r.ok THEN Error
  ELSE LET c == ParseByte(r.p) IN IF c.value = tag THEN Op(c.p) ELSE Error

\* The same, if the tag is next.
Optional(r, tag) ==
  IF ~ r.ok THEN Error
  ELSE IF ParseByte(r.p).value # tag THEN Result(<<>>, r.p)
  ELSE LET str == ParseString(ParseByte(r.p).p) IN
       IF str.ok THEN Result(<<str.value>>, str.p) ELSE Error

\* The headers so far, and another.
WithHeader(s, h) == IF h.ok THEN Result(Append(s.value, h.value), h.p) ELSE Error

\* One more header, unless there was an error or nothing is left to parse.
HeaderStep(s) ==
  IF s.ok => ParseDone(s.p) THEN s ELSE WithHeader(s, Expect(s, HeaderTag, ParseString))

\* Fields with headers, up to the end.
HeaderLoop(r) ==
  LET after[i \in 0..MaxHeaders] ==
        IF i = 0 THEN (IF r.ok THEN Result(<<>>, r.p) ELSE Error)
        ELSE HeaderStep(after[i - 1]) IN after
ParseHeaders(r) ==
  LET end == HeaderLoop(r)[MaxHeaders] IN IF end.ok => ParseDone(end.p) THEN end ELSE Error

\* wsReceiveRequest()
WsReceiveRequest(chunks) ==
  LET verb == Expect(Result({}, Start(chunks)), VerbTag, ParseString)
      path == Expect(verb, PathTag, ParseString)
      body == Optional(path, RequestBodyTag)
      context == Expect(body, RequestIdTag, ParseAsn)
      headers == ParseHeaders(context) IN
  IF ~ headers.ok THEN Error
  ELSE [type |-> "request", verb |-> verb.value, path |-> path.value, body |-> body.value,
        context |-> context.value, headers |-> headers.value]

\* wsReceiveResponse(): body and headers only if the message goes on.
WsReceiveResponse(chunks) ==
  LET context == Expect(Result({}, Start(chunks)), ResponseIdTag, ParseAsn)
      code == Expect(context, CodeTag, ParseInt)
      comment == Expect(code, CommentTag, ParseString)
      body == Optional(comment, ResponseBodyTag)
      headers == ParseHeaders(body) IN
  IF ~ headers.ok THEN Error
  ELSE [type |-> "response", context |-> context.value, code |-> code.value,
        comment |-> comment.value, body |-> body.value, headers |-> headers.value]

\* Server.c, _receiveWsChunk(): requests and responses.
ReceiveWsChunk(chunks) ==
  LET type == Expect(Result({}, Start(chunks)), MessageType, ParseInt)
      request == Expect(type, RequestTag, ParseStrbuf)
      response == Expect(type, ResponseTag, ParseStrbuf) IN
  IF ~ type.ok THEN Error
  ELSE IF type.value = RequestType /\ request.ok THEN WsReceiveRequest(request.value)
  ELSE IF type.value = ResponseType /\ response.ok THEN WsReceiveResponse(response.value)
  ELSE Error

(***************************************************************************)
(* Specification                                                           *)
(***************************************************************************)

None == [type |-> "none"]

\* The pieces of a string that is cut where cut says, as far as it goes.
CutUp(str, cut) ==
  LET n == First({i \in 1..(Len(cut) + 1) : i <= Len(cut) => cut[i] >= Len(str)}) IN
  [i \in 1..n |-> SubSeq(str, IF i = 1 THEN 1 ELSE cut[i - 1] + 1,
                              IF i < n THEN cut[i] ELSE Len(str))]

ProtoInit == message = None /\ wire = <<>> /\ parsed = None

Send(m) ==
  /\ message = None
  /\ message' = m
  /\ \E cut \in Cuts : wire' = CutUp(Encoded(m), cut)
  /\ UNCHANGED parsed

Receive ==
  /\ wire # <<>>
  /\ parsed' = ReceiveWsChunk(wire)
  /\ wire' = <<>>
  /\ UNCHANGED message

ProtoNext == (\E m \in Messages : Send(m)) \/ Receive

ProtoSpec == ProtoInit /\ [][ProtoNext]_protoVars

(***************************************************************************)
(* Properties                                                              *)
(***************************************************************************)

\* What is parsed is what was sent, wherever the message was cut up: lengths of
\* one byte and of two, with and without body and headers, contexts with any
\* number of zeroes in front, and codes up to the sign bit.
RoundTrip == parsed # None => parsed = message
==============================================================================
