---------------------------- MODULE ServicesProofs ----------------------------
(***************************************************************************)
(* Proofs about the WebSocket connections of contact discovery and of the  *)
(* provisioning of new devices, for any numbers, lists, devices, messages  *)
(* and bounds: a close frame is sent once and last, the server goes on     *)
(* reading, a new device gets its message before it is cut off, STATE_DONE *)
(* is final, and the response of contact discovery is complete.            *)
(*                                                                         *)
(* The first part is about the operators of WebSocket, which the two       *)
(* services share: each keeps what is well-formed about an endpoint.  The  *)
(* second is about the connections of the two services, the third about    *)
(* what is sent over them.                                                 *)
(***************************************************************************)
EXTENDS MCServices, RestServerProofs, SequenceTheorems, WellFoundedInduction

(***************************************************************************)
(* Sequences                                                               *)
(***************************************************************************)

\* A sequence; what is sent has no type of its own here.
IsSeq(s) == s \in Seq({s[i] : i \in DOMAIN s})

\* What Append() does to the events and chunks of an endpoint.
LEMMA OneAppended ==
  ASSUME NEW S, NEW s \in Seq(S), NEW x \in S
  PROVE  /\ Append(s, x) \in Seq(S)
         /\ Len(s) \in Nat /\ DOMAIN s = 1..Len(s)
         /\ Len(Append(s, x)) = Len(s) + 1
         /\ DOMAIN Append(s, x) = 1..(Len(s) + 1)
         /\ \A i \in DOMAIN s : Append(s, x)[i] = s[i]
         /\ Append(s, x)[Len(s) + 1] = x
<1>1. Len(s) \in Nat /\ DOMAIN s = 1..Len(s)
  BY LenProperties
<1> QED
  BY <1>1

\* What is sent stays a sequence.
LEMMA AppendedSeq ==
  ASSUME NEW s, IsSeq(s), NEW x
  PROVE  /\ IsSeq(Append(s, x))
         /\ Len(s) \in Nat /\ DOMAIN s = 1..Len(s)
         /\ Len(Append(s, x)) = Len(s) + 1
         /\ DOMAIN Append(s, x) = 1..(Len(s) + 1)
         /\ \A i \in DOMAIN s : Append(s, x)[i] = s[i]
         /\ Append(s, x)[Len(s) + 1] = x
<1> DEFINE S == {s[i] : i \in DOMAIN s}
           T == S \cup {x}
           a == Append(s, x)
           R == {a[i] : i \in DOMAIN a}
<1>1. s \in Seq(S)
  BY DEF IsSeq
<1>. s \in Seq(T) /\ x \in T
  BY <1>1, SeqMonotonic
<1> HIDE DEF S
<1>2. /\ a \in Seq(T)
      /\ Len(s) \in Nat /\ DOMAIN s = 1..Len(s)
      /\ Len(a) = Len(s) + 1 /\ DOMAIN a = 1..(Len(s) + 1)
      /\ \A i \in DOMAIN s : a[i] = s[i]
      /\ a[Len(s) + 1] = x
  BY OneAppended
<1> HIDE DEF a, T
<1>3. a \in [1..Len(a) -> T]
  BY <1>2, LenProperties
<1>4. a \in [1..Len(a) -> R] /\ Len(a) \in Nat
  BY <1>2, <1>3
<1>5. a \in Seq(R)
  BY <1>4, SeqDef
<1> QED
  BY <1>2, <1>5 DEF IsSeq, a

\* What Tail() does to the events of an endpoint.
LEMMA Tailed ==
  ASSUME NEW S, NEW s \in Seq(S), s # <<>>
  PROVE  /\ Tail(s) \in Seq(S) /\ Head(s) = s[1] /\ s[1] \in S
         /\ Len(s) \in Nat \ {0} /\ DOMAIN s = 1..Len(s) /\ 1 \in DOMAIN s
         /\ Len(Tail(s)) = Len(s) - 1
         /\ DOMAIN Tail(s) = 1..(Len(s) - 1)
         /\ \A i \in DOMAIN Tail(s) : i + 1 \in DOMAIN s /\ Tail(s)[i] = s[i + 1]
<1>1. Len(s) \in Nat \ {0} /\ DOMAIN s = 1..Len(s)
  BY EmptySeq, LenProperties
<1>2. Tail(s) \in Seq(S) /\ Len(Tail(s)) = Len(s) - 1
  BY HeadTailProperties
<1>3. DOMAIN Tail(s) = 1..(Len(s) - 1)
  BY <1>2, LenProperties
<1>4. \A i \in 1..(Len(s) - 1) : Tail(s)[i] = s[i + 1]
  BY <1>2, HeadTailProperties
<1>5. Head(s) = s[1] /\ s[1] \in S
  BY <1>1, HeadTailProperties
<1> QED
  BY <1>1, <1>2, <1>3, <1>4, <1>5

(***************************************************************************)
(* What is well-formed about an endpoint e, whose client sends Pay in      *)
(* binary frames and has sent its close frame when done holds              *)
(***************************************************************************)

Status == CloseFrame.payload

Fields == {"alive", "conn", "websocket", "closing", "opcode", "inbox", "reading", "stream",
           "output", "sent"}

WsEvents(Pay) ==
  [type : {"frame"}, opcode : Opcodes] \cup [type : {"chunk"}, payload : Pay \cup {Status}]
  \cup [type : {"done", "disconnected"}]

Frames(Pay) == [opcode : Opcodes, payload : Pay \cup {Status}]

WsTyped(e, Pay) ==
  /\ e = [f \in Fields |-> e[f]]
  /\ {e.alive, e.websocket, e.closing, e.output} \subseteq BOOLEAN
  /\ e.conn \in {"up", "ended"}
  /\ e.opcode \in Opcodes
  /\ e.inbox \in Seq(WsEvents(Pay))
  /\ e.reading \in {"none", "frame", "payload"}
  /\ e.stream \in Seq(Frames(Pay))
  /\ IsSeq(e.sent)

\* Whether an event of a type waits, and whether the header of a close frame does.
Waits(inbox, type) == \E i \in DOMAIN inbox : inbox[i].type = type
IsCloseHeader(event) == event.type = "frame" /\ event.opcode = "CLOSE"
CloseWaits(inbox) == \E i \in DOMAIN inbox : IsCloseHeader(inbox[i])

OneChunkWaits(inbox) ==
  \A i, j \in DOMAIN inbox : inbox[i].type = "chunk" /\ inbox[j].type = "chunk" => i = j

NoFrameAfterClose(inbox) ==
  \A i, j \in DOMAIN inbox : IsCloseHeader(inbox[i]) /\ i < j => inbox[j].type # "frame"

\* A close frame is on its way; it is the last of its client.
CloseOnWay(stream) == \E i \in DOMAIN stream : stream[i].opcode = "CLOSE"
CloseIsLast(stream) == \A i \in DOMAIN stream : stream[i].opcode = "CLOSE" => i = Len(stream)

HasClose(sent) == \E i \in DOMAIN sent : sent[i] = Closing
CloseSentLast(sent) == \A i \in DOMAIN sent : sent[i] = Closing => i = Len(sent)

\* A close frame is sent over a WebSocket, and nothing after it.
Closed(e) ==
  /\ e.closing => e.websocket
  /\ HasClose(e.sent) => e.closing
  /\ CloseSentLast(e.sent)

\* _disconnected() runs when the connection has ended.
EndsOnce(e) == Waits(e.inbox, "disconnected") => e.conn = "ended"

\* expectWsFrame() is not called before the upgrade, and then once for each chunk, by
\* the task that handles it: until then nothing is read.
ReadsInTurn(e) ==
  /\ ~ e.websocket => e.reading = "none"
  /\ Waits(e.inbox, "chunk") => e.websocket /\ e.reading = "none"
  /\ OneChunkWaits(e.inbox)
  /\ e.reading = "payload" => e.stream # <<>>

\* No frame follows the one that is being read.
LastFrame(e) ==
  IF e.reading = "payload" THEN Len(e.stream) = 1 ELSE e.stream = <<>>

\* A close frame of the client comes from one that is done, and is its last: while its
\* contents are handled no other header changes the opcode.
CloseComesLast(e, done) ==
  /\ CloseOnWay(e.stream) => done
  /\ CloseIsLast(e.stream)
  /\ CloseWaits(e.inbox) => done /\ LastFrame(e)
  /\ NoFrameAfterClose(e.inbox)
  /\ e.opcode = "CLOSE" => done /\ LastFrame(e) /\ ~ Waits(e.inbox, "frame")

WellFormed(e, Pay, done) ==
  /\ WsTyped(e, Pay) /\ Closed(e) /\ EndsOnce(e) /\ ReadsInTurn(e) /\ CloseComesLast(e, done)

\* What an operator keeps: the WebSocket is not downgraded, a close frame not taken
\* back, the connection not restored, and nothing of what was sent is lost.
Keeps(e, f) ==
  /\ e.websocket => f.websocket
  /\ e.closing => f.closing
  /\ e.conn = "ended" => f.conn = "ended"
  /\ e.opcode = "CLOSE" => f.opcode = "CLOSE"
  /\ \A i \in DOMAIN e.sent : i \in DOMAIN f.sent /\ f.sent[i] = e.sent[i]

(***************************************************************************)
(* Events, frames and chunks, one more and one less                        *)
(***************************************************************************)

\* t has the events of s, and x behind them.
Reported(s, x, t) ==
  /\ \A type : Waits(t, type) <=> Waits(s, type) \/ x.type = type
  /\ CloseWaits(t) <=> CloseWaits(s) \/ IsCloseHeader(x)
  /\ OneChunkWaits(s) /\ ~ (Waits(s, "chunk") /\ x.type = "chunk") => OneChunkWaits(t)
  /\ NoFrameAfterClose(s) /\ ~ (CloseWaits(s) /\ x.type = "frame") => NoFrameAfterClose(t)

\* An event that the connection reports waits behind the others.
LEMMA EventAppended ==
  ASSUME NEW Pay, NEW s \in Seq(WsEvents(Pay)), NEW x \in WsEvents(Pay)
  PROVE  Append(s, x) \in Seq(WsEvents(Pay)) /\ Reported(s, x, Append(s, x))
<1> DEFINE t == Append(s, x)
<1>1. /\ t \in Seq(WsEvents(Pay))
      /\ Len(s) \in Nat /\ DOMAIN s = 1..Len(s) /\ DOMAIN t = 1..(Len(s) + 1)
      /\ \A i \in DOMAIN s : t[i] = s[i]
      /\ t[Len(s) + 1] = x
  BY OneAppended
<1> HIDE DEF t
<1>2. \A type : Waits(t, type) <=> Waits(s, type) \/ x.type = type
  BY <1>1 DEF Waits
<1>3. CloseWaits(t) <=> CloseWaits(s) \/ IsCloseHeader(x)
  <2> HIDE DEF IsCloseHeader
  <2> QED
    BY <1>1 DEF CloseWaits
<1>4. ASSUME OneChunkWaits(s), ~ (Waits(s, "chunk") /\ x.type = "chunk")
      PROVE  OneChunkWaits(t)
  BY <1>1, <1>4 DEF OneChunkWaits, Waits
<1>5. ASSUME NoFrameAfterClose(s), ~ (CloseWaits(s) /\ x.type = "frame")
      PROVE  NoFrameAfterClose(t)
  BY <1>1, <1>5 DEF NoFrameAfterClose, CloseWaits
<1> QED
  BY <1>1, <1>2, <1>3, <1>4, <1>5 DEF t, Reported

\* t has the events of s but the first one, h.
TakenFrom(s, h, t) ==
  /\ Waits(s, h.type)
  /\ \A type : Waits(t, type) => Waits(s, type)
  /\ \A type : Waits(s, type) => Waits(t, type) \/ h.type = type
  /\ CloseWaits(t) \/ IsCloseHeader(h) <=> CloseWaits(s)
  /\ OneChunkWaits(s) =>
       OneChunkWaits(t) /\ (h.type = "chunk" => ~ Waits(t, "chunk"))
  /\ NoFrameAfterClose(s) =>
       NoFrameAfterClose(t) /\ (IsCloseHeader(h) => ~ Waits(t, "frame"))

\* The first event is taken by its task.
LEMMA EventTaken ==
  ASSUME NEW Pay, NEW s \in Seq(WsEvents(Pay)), s # <<>>
  PROVE  /\ Tail(s) \in Seq(WsEvents(Pay)) /\ Head(s) \in WsEvents(Pay)
         /\ TakenFrom(s, Head(s), Tail(s))
<1> DEFINE t == Tail(s)
           h == Head(s)
<1>1. /\ t \in Seq(WsEvents(Pay)) /\ h = s[1] /\ h \in WsEvents(Pay)
      /\ Len(s) \in Nat \ {0} /\ DOMAIN s = 1..Len(s) /\ DOMAIN t = 1..(Len(s) - 1)
      /\ \A i \in DOMAIN t : i + 1 \in DOMAIN s /\ t[i] = s[i + 1]
  BY Tailed
<1> HIDE DEF t, h
<1>2. \A i \in DOMAIN s : i = 1 \/ (i - 1 \in DOMAIN t /\ t[i - 1] = s[i])
  BY <1>1
<1>3. /\ Waits(s, h.type)
      /\ \A type : Waits(t, type) => Waits(s, type)
      /\ \A type : Waits(s, type) => Waits(t, type) \/ h.type = type
  BY <1>1, <1>2 DEF Waits
<1>4. CloseWaits(t) \/ IsCloseHeader(h) <=> CloseWaits(s)
  <2>1. ASSUME NEW i \in DOMAIN t, IsCloseHeader(t[i])
        PROVE  CloseWaits(s)
    BY <1>1, <2>1 DEF CloseWaits
  <2>2. ASSUME IsCloseHeader(h)
        PROVE  CloseWaits(s)
    <3>1. 1 \in DOMAIN s /\ IsCloseHeader(s[1])
      BY <1>1, <2>2
    <3> QED
      BY <3>1 DEF CloseWaits
  <2>3. ASSUME NEW i \in DOMAIN s, IsCloseHeader(s[i]), ~ IsCloseHeader(h)
        PROVE  CloseWaits(t)
    <3>1. i # 1
      BY <1>1, <2>3
    <3>2. i - 1 \in DOMAIN t /\ IsCloseHeader(t[i - 1])
      BY <1>2, <2>3, <3>1
    <3> QED
      BY <3>2 DEF CloseWaits
  <2> QED
    BY <2>1, <2>2, <2>3 DEF CloseWaits
<1>5. ASSUME OneChunkWaits(s)
      PROVE  OneChunkWaits(t) /\ (h.type = "chunk" => ~ Waits(t, "chunk"))
  <2>1. ASSUME NEW i \in DOMAIN t, NEW j \in DOMAIN t,
               t[i].type = "chunk", t[j].type = "chunk"
        PROVE  i = j
    <3>1. /\ i + 1 \in DOMAIN s /\ s[i + 1].type = "chunk"
          /\ j + 1 \in DOMAIN s /\ s[j + 1].type = "chunk"
      BY <1>1, <2>1
    <3>2. i + 1 = j + 1
      BY <1>5, <3>1 DEF OneChunkWaits
    <3> QED
      BY <1>1, <3>2
  <2>2. ASSUME h.type = "chunk", NEW i \in DOMAIN t
        PROVE  t[i].type # "chunk"
    <3>1. 1 \in DOMAIN s /\ s[1].type = "chunk" /\ i + 1 \in DOMAIN s /\ i + 1 # 1
      BY <1>1, <2>2
    <3> QED
      BY <1>1, <1>5, <3>1 DEF OneChunkWaits
  <2> QED
    BY <2>1, <2>2 DEF OneChunkWaits, Waits
<1>6. ASSUME NoFrameAfterClose(s)
      PROVE  NoFrameAfterClose(t) /\ (IsCloseHeader(h) => ~ Waits(t, "frame"))
  <2> HIDE DEF IsCloseHeader
  <2>1. \A i, j \in DOMAIN t : i < j /\ IsCloseHeader(t[i]) => t[j].type # "frame"
    <3> SUFFICES ASSUME NEW i \in DOMAIN t, NEW j \in DOMAIN t,
                        i < j, IsCloseHeader(t[i])
                 PROVE  t[j].type # "frame"
      OBVIOUS
    <3>1. i + 1 \in DOMAIN s /\ j + 1 \in DOMAIN s /\ i + 1 < j + 1
      BY <1>1
    <3>2. t[i] = s[i + 1] /\ t[j] = s[j + 1]
      BY <1>1
    <3> QED
      BY <1>6, <3>1, <3>2 DEF NoFrameAfterClose
  <2>2. ASSUME IsCloseHeader(h), NEW i \in DOMAIN t
        PROVE  t[i].type # "frame"
    <3>1. 1 \in DOMAIN s /\ i + 1 \in DOMAIN s /\ 1 < i + 1
      BY <1>1
    <3>2. t[i] = s[i + 1] /\ IsCloseHeader(s[1])
      BY <1>1, <2>2
    <3> QED
      BY <1>6, <3>1, <3>2 DEF NoFrameAfterClose
  <2> QED
    BY <2>1, <2>2 DEF NoFrameAfterClose, Waits
<1> QED
  BY <1>1, <1>3, <1>4, <1>5, <1>6 DEF t, h, TakenFrom

\* The client sends a frame; it was not done before.
LEMMA FrameAppended ==
  ASSUME NEW Pay, NEW s \in Seq(Frames(Pay)), ~ CloseOnWay(s), NEW x \in Frames(Pay)
  PROVE  LET t == Append(s, x) IN
         /\ t \in Seq(Frames(Pay)) /\ t # <<>>
         /\ CloseIsLast(t)
         /\ CloseOnWay(t) => x.opcode = "CLOSE"
<1> DEFINE t == Append(s, x)
<1>1. /\ t \in Seq(Frames(Pay))
      /\ Len(s) \in Nat /\ DOMAIN s = 1..Len(s) /\ DOMAIN t = 1..(Len(s) + 1)
      /\ Len(t) = Len(s) + 1
      /\ \A i \in DOMAIN s : t[i] = s[i]
      /\ t[Len(s) + 1] = x
  BY OneAppended
<1> HIDE DEF t
<1>2. CloseIsLast(t) /\ (CloseOnWay(t) => x.opcode = "CLOSE")
  BY <1>1 DEF CloseIsLast, CloseOnWay
<1>3. t # <<>>
  BY <1>1
<1> QED
  BY <1>1, <1>2, <1>3 DEF t

\* The connection has read a frame.
LEMMA FrameTaken ==
  ASSUME NEW Pay, NEW s \in Seq(Frames(Pay)), s # <<>>, CloseIsLast(s)
  PROVE  LET t == Tail(s)
             h == Head(s) IN
         /\ t \in Seq(Frames(Pay)) /\ h \in Frames(Pay)
         /\ CloseIsLast(t)
         /\ CloseOnWay(t) => CloseOnWay(s)
         /\ h.opcode = "CLOSE" => CloseOnWay(s) /\ Len(s) = 1
         /\ Len(s) = 1 => t = <<>>
<1> DEFINE t == Tail(s)
           h == Head(s)
<1>1. /\ t \in Seq(Frames(Pay)) /\ h = s[1] /\ h \in Frames(Pay)
      /\ Len(s) \in Nat \ {0} /\ DOMAIN s = 1..Len(s) /\ DOMAIN t = 1..(Len(s) - 1)
      /\ Len(t) = Len(s) - 1
      /\ \A i \in DOMAIN t : i + 1 \in DOMAIN s /\ t[i] = s[i + 1]
  BY Tailed
<1> HIDE DEF t, h
<1>2. CloseIsLast(t) /\ (CloseOnWay(t) => CloseOnWay(s))
  BY <1>1 DEF CloseIsLast, CloseOnWay
<1>3. h.opcode = "CLOSE" => CloseOnWay(s) /\ Len(s) = 1
  BY <1>1 DEF CloseIsLast, CloseOnWay
<1>4. Len(s) = 1 => t = <<>>
  BY <1>1, EmptySeq
<1> QED
  BY <1>1, <1>2, <1>3, <1>4 DEF t, h

\* x is among the chunks t, behind those of s.
IsBehind(x, s, t) == \E i \in DOMAIN t : t[i] = x /\ \A j \in DOMAIN s : j < i

\* t is s with x behind.
Given(s, x, t) ==
  /\ CloseSentLast(t)
  /\ HasClose(t) => x = Closing
  /\ \A i \in DOMAIN s : i \in DOMAIN t /\ t[i] = s[i]
  /\ IsBehind(x, s, t)

\* Something is given to the connection; there was no close frame before.
LEMMA ChunkAppended ==
  ASSUME NEW s, IsSeq(s), ~ HasClose(s), NEW x
  PROVE  IsSeq(Append(s, x)) /\ Given(s, x, Append(s, x))
<1> DEFINE t == Append(s, x)
<1>1. /\ IsSeq(t)
      /\ Len(s) \in Nat /\ DOMAIN s = 1..Len(s) /\ DOMAIN t = 1..(Len(s) + 1)
      /\ Len(t) = Len(s) + 1
      /\ \A i \in DOMAIN s : t[i] = s[i]
      /\ t[Len(s) + 1] = x
  BY AppendedSeq
<1> HIDE DEF t
<1>2. CloseSentLast(t) /\ (HasClose(t) => x = Closing)
  BY <1>1 DEF CloseSentLast, HasClose
<1>3. \A i \in DOMAIN s : i \in DOMAIN t
  BY <1>1
<1>4. IsBehind(x, s, t)
  <2>1. Len(s) + 1 \in DOMAIN t /\ \A j \in DOMAIN s : j < Len(s) + 1
    BY <1>1
  <2> QED
    BY <1>1, <2>1 DEF IsBehind
<1> QED
  BY <1>1, <1>2, <1>3, <1>4 DEF t, Given

(***************************************************************************)
(* The operators of WebSocket, each applied to a well-formed endpoint      *)
(***************************************************************************)

\* An endpoint before anything happened to it.
LEMMA EndpointOK == ASSUME NEW Pay PROVE WellFormed(Endpoint, Pay, FALSE)
<1>1. /\ Endpoint.inbox = <<>> /\ Endpoint.stream = <<>> /\ Endpoint.sent = <<>>
      /\ ~ Endpoint.closing /\ Endpoint.reading = "none" /\ Endpoint.opcode = "none"
  BY DEF Endpoint
<1>2. WsTyped(Endpoint, Pay)
  <2>1. Endpoint = [f \in Fields |-> Endpoint[f]]
    BY DEF Endpoint, Fields
  <2>2. IsSeq(<<>>)
    BY EmptySeq DEF IsSeq
  <2> QED
    BY <1>1, <2>1, <2>2 DEF WsTyped, Endpoint, Opcodes
<1>3. /\ \A type : ~ Waits(<<>>, type)
      /\ ~ CloseWaits(<<>>) /\ OneChunkWaits(<<>>) /\ NoFrameAfterClose(<<>>)
      /\ ~ CloseOnWay(<<>>) /\ CloseIsLast(<<>>) /\ ~ HasClose(<<>>) /\ CloseSentLast(<<>>)
  BY DEF Waits, CloseWaits, OneChunkWaits, NoFrameAfterClose, CloseOnWay, CloseIsLast,
         HasClose, CloseSentLast
<1> QED
  BY <1>1, <1>2, <1>3 DEF WellFormed, Closed, EndsOnce, ReadsInTurn, CloseComesLast

\* A client sends a frame while it is not done.
LEMMA ClientSendsOK ==
  ASSUME NEW Pay, NEW e, WellFormed(e, Pay, FALSE), NEW frame \in Frames(Pay),
         NEW done \in BOOLEAN, frame.opcode = "CLOSE" => done
  PROVE  LET f == ClientSends(e, frame) IN
         /\ WellFormed(f, Pay, done) /\ Keeps(e, f) /\ f.closing = e.closing
         /\ Reads(e) => Reads(f)
<1> DEFINE f == ClientSends(e, frame)
<1>1. /\ f = [x \in Fields |-> f[x]]
      /\ f.stream = Append(e.stream, frame)
      /\ f.alive = e.alive /\ f.conn = e.conn /\ f.websocket = e.websocket
      /\ f.closing = e.closing /\ f.opcode = e.opcode /\ f.inbox = e.inbox
      /\ f.reading = e.reading /\ f.output = e.output /\ f.sent = e.sent
  BY DEF WellFormed, WsTyped, ClientSends, Fields
<1> HIDE DEF f
<1>2. e.stream \in Seq(Frames(Pay)) /\ ~ CloseOnWay(e.stream)
  BY DEF WellFormed, WsTyped, CloseComesLast
<1>3. /\ f.stream \in Seq(Frames(Pay)) /\ f.stream # <<>>
      /\ CloseIsLast(f.stream) /\ (CloseOnWay(f.stream) => done)
  BY <1>1, <1>2, FrameAppended
<1>4. WsTyped(f, Pay)
  BY <1>1, <1>3 DEF WellFormed, WsTyped
<1>5. Closed(f) /\ EndsOnce(f) /\ ReadsInTurn(f)
  BY <1>1, <1>3 DEF WellFormed, Closed, EndsOnce, ReadsInTurn
<1>6. CloseComesLast(f, done)
  BY <1>1, <1>3 DEF WellFormed, CloseComesLast
<1>7. Keeps(e, f) /\ (Reads(e) => Reads(f))
  BY <1>1 DEF Keeps, Reads
<1> QED
  BY <1>1, <1>4, <1>5, <1>6, <1>7 DEF WellFormed, f

\* The connection ends, whoever ends it.
LEMMA EndedOK ==
  ASSUME NEW Pay, NEW e, NEW done \in BOOLEAN, WellFormed(e, Pay, done)
  PROVE  LET f == Ended(e) IN
         /\ WellFormed(f, Pay, done) /\ Keeps(e, f)
         /\ f.closing = e.closing /\ f.websocket = e.websocket /\ f.conn = "ended"
         /\ Reads(f)
<1> DEFINE f == Ended(e)
           x == [type |-> "disconnected"]
<1>1. /\ f = [y \in Fields |-> f[y]]
      /\ f.stream = <<>> /\ f.conn = "ended" /\ f.inbox = Append(e.inbox, x)
      /\ f.reading = "none" /\ f.output = FALSE
      /\ f.alive = e.alive /\ f.websocket = e.websocket
      /\ f.closing = e.closing /\ f.opcode = e.opcode /\ f.sent = e.sent
  BY DEF WellFormed, WsTyped, Ended, Fields
<1>2. x \in WsEvents(Pay) /\ e.inbox \in Seq(WsEvents(Pay))
      /\ x.type = "disconnected" /\ ~ IsCloseHeader(x)
  BY DEF WellFormed, WsTyped, WsEvents, IsCloseHeader
<1> HIDE DEF f, x
<1>3. f.inbox \in Seq(WsEvents(Pay)) /\ Reported(e.inbox, x, f.inbox)
  BY <1>1, <1>2, EventAppended
<1>4. <<>> \in Seq(Frames(Pay)) /\ ~ CloseOnWay(<<>>) /\ CloseIsLast(<<>>)
  BY EmptySeq DEF CloseOnWay, CloseIsLast
<1>5. WsTyped(f, Pay)
  BY <1>1, <1>3, <1>4 DEF WellFormed, WsTyped
<1>6. Closed(f) /\ EndsOnce(f) /\ ReadsInTurn(f)
  BY <1>1, <1>2, <1>3 DEF WellFormed, Closed, EndsOnce, ReadsInTurn, Reported
<1>7. CloseComesLast(f, done)
  BY <1>1, <1>2, <1>3, <1>4 DEF WellFormed, CloseComesLast, LastFrame, Reported
<1>8. Keeps(e, f) /\ Reads(f)
  BY <1>1 DEF Keeps, Reads
<1> QED
  BY <1>1, <1>5, <1>6, <1>7, <1>8 DEF WellFormed, f

\* The connection reads the header of a frame.
LEMMA ReadFrameOK ==
  ASSUME NEW Pay, NEW e, NEW done \in BOOLEAN, WellFormed(e, Pay, done), CanReadFrame(e)
  PROVE  LET f == ReadFrame(e) IN
         /\ WellFormed(f, Pay, done) /\ Keeps(e, f)
         /\ f.closing = e.closing /\ f.websocket = e.websocket /\ f.conn = e.conn
         /\ Reads(f)
<1> DEFINE f == ReadFrame(e)
           x == [type |-> "frame", opcode |-> Head(e.stream).opcode]
<1>1. /\ f = [y \in Fields |-> f[y]]
      /\ f.inbox = Append(e.inbox, x) /\ f.reading = "payload"
      /\ f.conn = e.conn /\ f.stream = e.stream /\ f.output = e.output
      /\ f.alive = e.alive /\ f.websocket = e.websocket
      /\ f.closing = e.closing /\ f.opcode = e.opcode /\ f.sent = e.sent
  BY DEF WellFormed, WsTyped, ReadFrame, Fields
<1>2. /\ e.stream \in Seq(Frames(Pay)) /\ e.stream # <<>> /\ e.reading = "frame"
      /\ CloseIsLast(e.stream) /\ e.inbox \in Seq(WsEvents(Pay))
  BY DEF WellFormed, WsTyped, CloseComesLast, CanReadFrame
<1>3. /\ Head(e.stream) \in Frames(Pay)
      /\ Head(e.stream).opcode = "CLOSE" => CloseOnWay(e.stream) /\ Len(e.stream) = 1
  BY <1>2, FrameTaken
<1>4. /\ x \in WsEvents(Pay) /\ x.type = "frame"
      /\ IsCloseHeader(x) <=> Head(e.stream).opcode = "CLOSE"
  BY <1>3 DEF WsEvents, Frames, IsCloseHeader
<1> HIDE DEF f, x
<1>5. ~ CloseWaits(e.inbox) /\ e.opcode # "CLOSE"
  BY <1>2 DEF WellFormed, CloseComesLast, LastFrame
<1>6. f.inbox \in Seq(WsEvents(Pay)) /\ Reported(e.inbox, x, f.inbox)
  BY <1>1, <1>2, <1>4, EventAppended
<1>7. WsTyped(f, Pay)
  BY <1>1, <1>6 DEF WellFormed, WsTyped
<1>8. Closed(f) /\ EndsOnce(f) /\ ReadsInTurn(f)
  BY <1>1, <1>2, <1>4, <1>6 DEF WellFormed, Closed, EndsOnce, ReadsInTurn, Reported
<1>9. CloseComesLast(f, done)
  BY <1>1, <1>3, <1>4, <1>5, <1>6 DEF WellFormed, CloseComesLast, LastFrame, Reported
<1>10. Keeps(e, f) /\ Reads(f)
  BY <1>1 DEF Keeps, Reads
<1> QED
  BY <1>1, <1>7, <1>8, <1>9, <1>10 DEF WellFormed, f

\* The connection reads the contents of a frame.
LEMMA ReadPayloadOK ==
  ASSUME NEW Pay, NEW e, NEW done \in BOOLEAN, WellFormed(e, Pay, done), CanReadPayload(e)
  PROVE  LET f == ReadPayload(e) IN
         /\ WellFormed(f, Pay, done) /\ Keeps(e, f)
         /\ f.closing = e.closing /\ f.websocket = e.websocket /\ f.conn = e.conn
         /\ Reads(f)
<1> DEFINE f == ReadPayload(e)
           x == [type |-> "chunk", payload |-> Head(e.stream).payload]
<1>1. /\ f = [y \in Fields |-> f[y]]
      /\ f.inbox = Append(e.inbox, x) /\ f.reading = "none" /\ f.stream = Tail(e.stream)
      /\ f.conn = e.conn /\ f.output = e.output
      /\ f.alive = e.alive /\ f.websocket = e.websocket
      /\ f.closing = e.closing /\ f.opcode = e.opcode /\ f.sent = e.sent
  BY DEF WellFormed, WsTyped, ReadPayload, Fields
<1>2. /\ e.stream \in Seq(Frames(Pay)) /\ e.stream # <<>> /\ e.reading = "payload"
      /\ CloseIsLast(e.stream) /\ e.inbox \in Seq(WsEvents(Pay))
      /\ e.websocket /\ ~ Waits(e.inbox, "chunk")
  BY DEF WellFormed, WsTyped, CloseComesLast, ReadsInTurn, CanReadPayload
<1>3. /\ Head(e.stream) \in Frames(Pay) /\ f.stream \in Seq(Frames(Pay))
      /\ CloseIsLast(f.stream) /\ (CloseOnWay(f.stream) => CloseOnWay(e.stream))
      /\ Len(e.stream) = 1 => f.stream = <<>>
  BY <1>1, <1>2, FrameTaken
<1>4. x \in WsEvents(Pay) /\ x.type = "chunk" /\ ~ IsCloseHeader(x)
  BY <1>3 DEF WsEvents, Frames, IsCloseHeader
<1> HIDE DEF f, x
<1>5. f.inbox \in Seq(WsEvents(Pay)) /\ Reported(e.inbox, x, f.inbox)
  BY <1>1, <1>2, <1>4, EventAppended
<1>6. WsTyped(f, Pay)
  BY <1>1, <1>3, <1>5 DEF WellFormed, WsTyped
<1>7. Closed(f) /\ EndsOnce(f) /\ ReadsInTurn(f)
  BY <1>1, <1>2, <1>4, <1>5
  DEF WellFormed, Closed, EndsOnce, ReadsInTurn, Reported
<1>8. CloseComesLast(f, done)
  BY <1>1, <1>2, <1>3, <1>4, <1>5 DEF WellFormed, CloseComesLast, LastFrame, Reported
<1>9. Waits(f.inbox, "chunk")
  BY <1>4, <1>5 DEF Reported
<1>10. Keeps(e, f) /\ Reads(f)
  BY <1>1, <1>9 DEF Keeps, Reads, Waits
<1> QED
  BY <1>1, <1>6, <1>7, <1>8, <1>10 DEF WellFormed, f

\* The connection reports that its output was sent.
LEMMA FlushOK ==
  ASSUME NEW Pay, NEW e, NEW done \in BOOLEAN, WellFormed(e, Pay, done)
  PROVE  LET f == Flush(e) IN
         /\ WellFormed(f, Pay, done) /\ Keeps(e, f)
         /\ f.closing = e.closing /\ f.websocket = e.websocket /\ f.conn = e.conn
         /\ Reads(e) => Reads(f)
<1> DEFINE f == Flush(e)
           x == [type |-> "done"]
<1>1. /\ f = [y \in Fields |-> f[y]]
      /\ f.inbox = Append(e.inbox, x) /\ f.output = FALSE
      /\ f.reading = e.reading /\ f.stream = e.stream /\ f.conn = e.conn
      /\ f.alive = e.alive /\ f.websocket = e.websocket
      /\ f.closing = e.closing /\ f.opcode = e.opcode /\ f.sent = e.sent
  BY DEF WellFormed, WsTyped, Flush, Fields
<1>2. x \in WsEvents(Pay) /\ x.type = "done" /\ ~ IsCloseHeader(x)
      /\ e.inbox \in Seq(WsEvents(Pay))
  BY DEF WellFormed, WsTyped, WsEvents, IsCloseHeader
<1> HIDE DEF f, x
<1>3. f.inbox \in Seq(WsEvents(Pay)) /\ Reported(e.inbox, x, f.inbox)
  BY <1>1, <1>2, EventAppended
<1>4. WsTyped(f, Pay)
  BY <1>1, <1>3 DEF WellFormed, WsTyped
<1>5. Closed(f) /\ EndsOnce(f) /\ ReadsInTurn(f)
  BY <1>1, <1>2, <1>3 DEF WellFormed, Closed, EndsOnce, ReadsInTurn, Reported
<1>6. CloseComesLast(f, done)
  BY <1>1, <1>2, <1>3 DEF WellFormed, CloseComesLast, LastFrame, Reported
<1>7. Waits(e.inbox, "chunk") => Waits(f.inbox, "chunk")
  BY <1>3 DEF Reported
<1>8. Keeps(e, f) /\ (Reads(e) => Reads(f))
  BY <1>1, <1>7 DEF Keeps, Reads, Waits
<1> QED
  BY <1>1, <1>4, <1>5, <1>6, <1>8 DEF WellFormed, f

\* Whatever the connection does next, it stays well-formed, and goes on reading.
LEMMA TransferOK ==
  ASSUME NEW Pay, NEW e, NEW done \in BOOLEAN, WellFormed(e, Pay, done),
         NEW f \in Transfers(e)
  PROVE  /\ WellFormed(f, Pay, done) /\ Keeps(e, f)
         /\ f.closing = e.closing /\ f.websocket = e.websocket /\ f.conn = e.conn
         /\ Reads(e) => Reads(f)
<1>1. CASE CanReadFrame(e) /\ f = ReadFrame(e)
  BY <1>1, ReadFrameOK
<1>2. CASE CanReadPayload(e) /\ f = ReadPayload(e)
  BY <1>2, ReadPayloadOK
<1>3. CASE f = Flush(e)
  BY <1>3, FlushOK
<1> QED
  BY <1>1, <1>2, <1>3 DEF Transfers

\* f is a well-formed e from which the event h was taken.
Took(e, h, f, Pay, done) ==
  /\ WellFormed(f, Pay, done) /\ Keeps(e, f) /\ h \in WsEvents(Pay)
  /\ f.conn = e.conn /\ f.websocket = e.websocket /\ f.closing = e.closing
  /\ f.opcode = e.opcode /\ f.sent = e.sent /\ f.reading = e.reading
  /\ h.type = "chunk" =>
       f.websocket /\ f.reading = "none" /\ ~ Waits(f.inbox, "chunk")
  /\ IsCloseHeader(h) => done /\ LastFrame(f) /\ ~ Waits(f.inbox, "frame")
  /\ h.type = "disconnected" => f.conn = "ended"
  /\ h.type # "chunk" /\ Reads(e) => Reads(f)

\* A task takes the first event.  If it is a chunk, nothing is read before the
\* task calls expectWsFrame().
LEMMA TakenOK ==
  ASSUME NEW Pay, NEW e, NEW done \in BOOLEAN, WellFormed(e, Pay, done), e.inbox # <<>>
  PROVE  Took(e, Head(e.inbox), Taken(e), Pay, done)
<1> DEFINE f == Taken(e)
           h == Head(e.inbox)
<1>1. /\ f = [y \in Fields |-> f[y]]
      /\ f.inbox = Tail(e.inbox) /\ f.output = e.output
      /\ f.reading = e.reading /\ f.stream = e.stream /\ f.conn = e.conn
      /\ f.alive = e.alive /\ f.websocket = e.websocket
      /\ f.closing = e.closing /\ f.opcode = e.opcode /\ f.sent = e.sent
  BY DEF WellFormed, WsTyped, Taken, Fields
<1>2. e.inbox \in Seq(WsEvents(Pay))
  BY DEF WellFormed, WsTyped
<1> HIDE DEF f
<1>3. /\ f.inbox \in Seq(WsEvents(Pay)) /\ h \in WsEvents(Pay)
      /\ TakenFrom(e.inbox, h, f.inbox)
  BY <1>1, <1>2, EventTaken
<1> HIDE DEF h
<1>4. WsTyped(f, Pay)
  BY <1>1, <1>3 DEF WellFormed, WsTyped
<1>5. Closed(f) /\ EndsOnce(f) /\ ReadsInTurn(f)
  BY <1>1, <1>3 DEF WellFormed, Closed, EndsOnce, ReadsInTurn, TakenFrom
<1>6. CloseComesLast(f, done)
  BY <1>1, <1>3 DEF WellFormed, CloseComesLast, LastFrame, TakenFrom
<1>7. Keeps(e, f)
  BY <1>1 DEF Keeps
<1>8. h.type = "chunk" => f.websocket /\ f.reading = "none" /\ ~ Waits(f.inbox, "chunk")
  BY <1>1, <1>3 DEF WellFormed, ReadsInTurn, TakenFrom
<1>9. IsCloseHeader(h) => done /\ LastFrame(f) /\ ~ Waits(f.inbox, "frame")
  BY <1>1, <1>3 DEF WellFormed, CloseComesLast, LastFrame, TakenFrom
<1>10. h.type = "disconnected" => f.conn = "ended"
  BY <1>1, <1>3 DEF WellFormed, EndsOnce, TakenFrom
<1>11. h.type # "chunk" /\ Reads(e) => Reads(f)
  <2>1. h.type # "chunk" /\ Waits(e.inbox, "chunk") => Waits(f.inbox, "chunk")
    BY <1>3 DEF TakenFrom
  <2> QED
    BY <1>1, <2>1 DEF Reads, Waits
<1> QED
  BY <1>1, <1>3, <1>4, <1>5, <1>6, <1>7, <1>8, <1>9, <1>10, <1>11
  DEF WellFormed, Took, f, h

\* expectWsFrame(): nothing was being read, and no chunk waits.
LEMMA ExpectWsFrameOK ==
  ASSUME NEW Pay, NEW e, NEW done \in BOOLEAN, WellFormed(e, Pay, done),
         e.websocket, e.reading = "none", ~ Waits(e.inbox, "chunk")
  PROVE  LET f == ExpectWsFrame(e) IN
         /\ WellFormed(f, Pay, done) /\ Keeps(e, f)
         /\ f.closing = e.closing /\ f.websocket = e.websocket /\ f.conn = e.conn
         /\ f.opcode = e.opcode /\ f.sent = e.sent
         /\ Reads(f)
<1> DEFINE f == ExpectWsFrame(e)
<1>1. CASE e.conn # "up"
  <2>1. f = e
    BY <1>1 DEF ExpectWsFrame
  <2> HIDE DEF f
  <2>2. Keeps(e, e) /\ Reads(e)
    BY <1>1 DEF Keeps, Reads
  <2> QED
    BY <2>1, <2>2 DEF f
<1>2. CASE e.conn = "up"
  <2>1. /\ f = [y \in Fields |-> f[y]]
        /\ f.reading = "frame"
        /\ f.inbox = e.inbox /\ f.output = e.output /\ f.stream = e.stream
        /\ f.alive = e.alive /\ f.websocket = e.websocket /\ f.conn = e.conn
        /\ f.closing = e.closing /\ f.opcode = e.opcode /\ f.sent = e.sent
    BY <1>2 DEF WellFormed, WsTyped, ExpectWsFrame, Fields
  <2> HIDE DEF f
  <2>2. WsTyped(f, Pay)
    BY <2>1 DEF WellFormed, WsTyped
  <2>3. Closed(f) /\ EndsOnce(f) /\ ReadsInTurn(f)
    BY <2>1 DEF WellFormed, Closed, EndsOnce, ReadsInTurn
  <2>4. CloseComesLast(f, done)
    BY <2>1 DEF WellFormed, CloseComesLast, LastFrame
  <2>5. Keeps(e, f) /\ Reads(f)
    BY <2>1 DEF Keeps, Reads
  <2> QED
    BY <2>1, <2>2, <2>3, <2>4, <2>5 DEF WellFormed, f
<1> QED
  BY <1>1, <1>2

\* An endpoint that gave a chunk to its connection.
Sent(e, chunk, output) == [e EXCEPT !.sent = Append(@, chunk), !.output = output]

\* f is a well-formed e that gave a chunk to its connection.
Gave(e, chunk, f, Pay, done) ==
  /\ WellFormed(f, Pay, done) /\ Keeps(e, f)
  /\ f.closing = e.closing /\ f.websocket = e.websocket /\ f.conn = e.conn
  /\ f.opcode = e.opcode /\ f.inbox = e.inbox /\ f.reading = e.reading
  /\ Reads(e) => Reads(f)
  /\ IsBehind(chunk, e.sent, f.sent)

\* Something other than a close frame is given to the connection.
LEMMA SendsOK ==
  ASSUME NEW Pay, NEW e, NEW done \in BOOLEAN, WellFormed(e, Pay, done), ~ e.closing,
         NEW chunk, chunk # Closing, NEW output \in BOOLEAN
  PROVE  Gave(e, chunk, Sent(e, chunk, output), Pay, done)
<1> DEFINE f == Sent(e, chunk, output)
<1>1. /\ f = [y \in Fields |-> f[y]]
      /\ f.sent = Append(e.sent, chunk) /\ f.output = output
      /\ f.inbox = e.inbox /\ f.reading = e.reading /\ f.stream = e.stream
      /\ f.alive = e.alive /\ f.websocket = e.websocket /\ f.conn = e.conn
      /\ f.closing = e.closing /\ f.opcode = e.opcode
  BY DEF WellFormed, WsTyped, Fields, Sent
<1>2. IsSeq(e.sent) /\ ~ HasClose(e.sent)
  BY DEF WellFormed, WsTyped, Closed
<1> HIDE DEF f
<1>3. IsSeq(f.sent) /\ Given(e.sent, chunk, f.sent)
  BY <1>1, <1>2, ChunkAppended
<1>4. WsTyped(f, Pay)
  BY <1>1, <1>3 DEF WellFormed, WsTyped
<1>5. Closed(f) /\ EndsOnce(f) /\ ReadsInTurn(f)
  BY <1>1, <1>3 DEF WellFormed, Closed, EndsOnce, ReadsInTurn, Given
<1>6. CloseComesLast(f, done)
  BY <1>1 DEF WellFormed, CloseComesLast, LastFrame
<1>7. Keeps(e, f) /\ (Reads(e) => Reads(f))
  BY <1>1, <1>3 DEF Keeps, Reads, Given
<1>8. IsBehind(chunk, e.sent, f.sent)
  BY <1>3 DEF Given
<1> QED
  BY <1>1, <1>4, <1>5, <1>6, <1>7, <1>8 DEF WellFormed, Gave, f

\* sendChunk(), unless it is an error
LEMMA SendChunkOK ==
  ASSUME NEW Pay, NEW e, NEW done \in BOOLEAN, WellFormed(e, Pay, done), ~ e.closing,
         NEW chunk, chunk # Closing
  PROVE  Gave(e, chunk, SendChunk(e, chunk), Pay, done)
<1>1. SendChunk(e, chunk) = Sent(e, chunk, TRUE)
  BY DEF SendChunk, SendWsChunk, Sent
<1>2. Gave(e, chunk, Sent(e, chunk, TRUE), Pay, done)
  BY SendsOK
<1> QED
  BY <1>1, <1>2

\* sendClose() over a WebSocket; an error of it leaves closing set.
LEMMA SendCloseOK ==
  ASSUME NEW Pay, NEW e, NEW done \in BOOLEAN, WellFormed(e, Pay, done), e.websocket
  PROVE  LET f == SendClose(e) IN
         /\ WellFormed(f, Pay, done) /\ Keeps(e, f)
         /\ f.closing /\ f.websocket /\ f.conn = e.conn
         /\ f.opcode = e.opcode /\ f.inbox = e.inbox /\ f.reading = e.reading
         /\ Reads(e) => Reads(f)
<1> DEFINE f == SendClose(e)
<1>1. CASE e.closing
  <2>1. f = e
    BY <1>1 DEF SendClose
  <2> HIDE DEF f
  <2>2. Keeps(e, e)
    BY DEF Keeps
  <2> QED
    BY <1>1, <2>1, <2>2 DEF f
<1>2. CASE ~ e.closing
  <2>1. /\ f = [y \in Fields |-> f[y]]
        /\ f.closing = TRUE /\ f.output \in BOOLEAN
        /\ f.sent = Append(e.sent, Closing) \/ f.sent = e.sent
        /\ f.inbox = e.inbox /\ f.reading = e.reading /\ f.stream = e.stream
        /\ f.alive = e.alive /\ f.websocket = e.websocket /\ f.conn = e.conn
        /\ f.opcode = e.opcode
    BY <1>2 DEF WellFormed, WsTyped, Fields, SendClose, SendWsChunk
  <2>2. IsSeq(e.sent) /\ ~ HasClose(e.sent) /\ CloseSentLast(e.sent)
    BY <1>2 DEF WellFormed, WsTyped, Closed
  <2> HIDE DEF f
  <2>3. /\ IsSeq(f.sent) /\ CloseSentLast(f.sent)
        /\ \A i \in DOMAIN e.sent : i \in DOMAIN f.sent /\ f.sent[i] = e.sent[i]
    <3>1. CASE f.sent = e.sent
      BY <2>2, <3>1
    <3>2. CASE f.sent = Append(e.sent, Closing)
      <4>1. IsSeq(f.sent) /\ Given(e.sent, Closing, f.sent)
        BY <2>2, <3>2, ChunkAppended
      <4> QED
        BY <4>1 DEF Given
    <3> QED
      BY <2>1, <3>1, <3>2
  <2>4. WsTyped(f, Pay)
    BY <2>1, <2>3 DEF WellFormed, WsTyped
  <2>5. Closed(f) /\ EndsOnce(f) /\ ReadsInTurn(f)
    BY <2>1, <2>3 DEF WellFormed, Closed, EndsOnce, ReadsInTurn
  <2>6. CloseComesLast(f, done)
    BY <2>1 DEF WellFormed, CloseComesLast, LastFrame
  <2>7. Keeps(e, f) /\ (Reads(e) => Reads(f))
    BY <2>1, <2>3 DEF Keeps, Reads
  <2> QED
    BY <2>1, <2>4, <2>5, <2>6, <2>7 DEF WellFormed, f
<1> QED
  BY <1>1, <1>2

\* upgradeToWebSocket(), of a connection that was not upgraded
LEMMA UpgradeOK ==
  ASSUME NEW Pay, NEW e, NEW done \in BOOLEAN, WellFormed(e, Pay, done), ~ e.websocket
  PROVE  LET f == UpgradeToWebSocket(e) IN
         /\ WellFormed(f, Pay, done) /\ Keeps(e, f)
         /\ f.websocket /\ ~ f.closing /\ f.conn = e.conn /\ Reads(f)
<1> DEFINE chunk == [type |-> "101"]
           g == Sent(e, chunk, e.output)
           h == [e EXCEPT !.websocket = TRUE, !.sent = Append(@, chunk)]
<1>1. /\ chunk # Closing /\ ~ e.closing /\ e.output \in BOOLEAN
      /\ e.reading = "none" /\ ~ Waits(e.inbox, "chunk")
  BY DEF Closing, WellFormed, WsTyped, Closed, ReadsInTurn
<1>2. /\ h = [y \in Fields |-> h[y]]
      /\ h.websocket = TRUE /\ h.sent = g.sent /\ h.closing = g.closing
      /\ h.inbox = g.inbox /\ h.reading = g.reading /\ h.stream = g.stream
      /\ h.alive = g.alive /\ h.conn = g.conn /\ h.opcode = g.opcode /\ h.output = g.output
  BY DEF WellFormed, WsTyped, Fields, Sent
<1> HIDE DEF chunk
<1>3. /\ WellFormed(g, Pay, done) /\ Keeps(e, g)
      /\ g.closing = e.closing /\ g.conn = e.conn /\ g.opcode = e.opcode
      /\ g.inbox = e.inbox /\ g.reading = e.reading
  <2>1. Gave(e, chunk, g, Pay, done)
    BY <1>1, SendsOK
  <2> QED
    BY <2>1 DEF Gave
<1> HIDE DEF g, h
<1>4. WellFormed(h, Pay, done)
  <2>1. WsTyped(h, Pay)
    BY <1>2, <1>3 DEF WellFormed, WsTyped
  <2>2. Closed(h) /\ EndsOnce(h) /\ ReadsInTurn(h)
    BY <1>1, <1>2, <1>3 DEF WellFormed, Closed, EndsOnce, ReadsInTurn
  <2>3. CloseComesLast(h, done)
    BY <1>2, <1>3 DEF WellFormed, CloseComesLast, LastFrame
  <2> QED
    BY <2>1, <2>2, <2>3 DEF WellFormed
<1>5. Keeps(e, h)
  BY <1>2, <1>3 DEF Keeps
<1>6. h.websocket /\ ~ h.closing /\ h.conn = e.conn /\ h.reading = "none"
      /\ ~ Waits(h.inbox, "chunk")
  BY <1>1, <1>2, <1>3
<1>7. UpgradeToWebSocket(e) = ExpectWsFrame(h)
  BY DEF UpgradeToWebSocket, h, chunk
<1> DEFINE f == ExpectWsFrame(h)
<1>8. /\ WellFormed(f, Pay, done) /\ Keeps(h, f) /\ Reads(f)
      /\ f.closing = h.closing /\ f.websocket = h.websocket /\ f.conn = h.conn
  BY <1>4, <1>6, ExpectWsFrameOK
<1> HIDE DEF f
<1>9. Keeps(e, f)
  BY <1>5, <1>8 DEF Keeps
<1> QED
  BY <1>6, <1>7, <1>8, <1>9 DEF f

\* _receiveWsFrame() notes the opcode of the header.
LEMMA ReceiveWsFrameOK ==
  ASSUME NEW Pay, NEW e, NEW done \in BOOLEAN, WellFormed(e, Pay, done), NextIs(e, "frame")
  PROVE  LET f == ReceiveWsFrame(e) IN
         /\ WellFormed(f, Pay, done) /\ Keeps(e, f)
         /\ f.closing = e.closing /\ f.websocket = e.websocket /\ f.conn = e.conn
         /\ Reads(e) => Reads(f)
<1> DEFINE f == ReceiveWsFrame(e)
           g == Taken(e)
           h == Head(e.inbox)
<1>1. e.inbox # <<>> /\ h.type = "frame"
  BY DEF NextIs
<1>2. /\ WellFormed(g, Pay, done) /\ Keeps(e, g) /\ h \in WsEvents(Pay)
      /\ g.conn = e.conn /\ g.websocket = e.websocket /\ g.closing = e.closing
      /\ g.opcode = e.opcode /\ g.sent = e.sent /\ g.reading = e.reading
      /\ IsCloseHeader(h) => done /\ LastFrame(g) /\ ~ Waits(g.inbox, "frame")
      /\ Reads(e) => Reads(g)
  <2>1. Took(e, h, g, Pay, done)
    BY <1>1, TakenOK
  <2> QED
    BY <1>1, <2>1 DEF Took
<1>3. h.opcode \in Opcodes /\ (h.opcode = "CLOSE" => IsCloseHeader(h))
  BY <1>1, <1>2 DEF WsEvents, IsCloseHeader
<1>4. f = [g EXCEPT !.opcode = h.opcode]
  BY DEF ReceiveWsFrame
<1> HIDE DEF f, g, h
<1>5. /\ f = [y \in Fields |-> f[y]]
      /\ f.opcode = h.opcode /\ f.inbox = g.inbox /\ f.output = g.output
      /\ f.reading = g.reading /\ f.stream = g.stream /\ f.conn = g.conn
      /\ f.alive = g.alive /\ f.websocket = g.websocket
      /\ f.closing = g.closing /\ f.sent = g.sent
  BY <1>2, <1>4 DEF WellFormed, WsTyped, Fields
<1>6. WsTyped(f, Pay)
  BY <1>2, <1>3, <1>5 DEF WellFormed, WsTyped
<1>7. Closed(f) /\ EndsOnce(f) /\ ReadsInTurn(f)
  BY <1>2, <1>5 DEF WellFormed, Closed, EndsOnce, ReadsInTurn
<1>8. CloseComesLast(f, done)
  BY <1>2, <1>3, <1>5 DEF WellFormed, CloseComesLast, LastFrame
<1>9. e.opcode # "CLOSE"
  BY <1>1, EventTaken DEF WellFormed, WsTyped, CloseComesLast, TakenFrom, h
<1>10. Keeps(e, f) /\ (Reads(e) => Reads(f))
  BY <1>2, <1>5, <1>9 DEF Keeps, Reads
<1> QED
  BY <1>2, <1>5, <1>6, <1>7, <1>8, <1>10 DEF WellFormed, f

\* _doneChunk() ends the connection after a close frame.
LEMMA DoneChunkOK ==
  ASSUME NEW Pay, NEW e, NEW done \in BOOLEAN, WellFormed(e, Pay, done), NextIs(e, "done")
  PROVE  LET f == DoneChunk(e) IN
         /\ WellFormed(f, Pay, done) /\ Keeps(e, f)
         /\ f.closing = e.closing /\ f.websocket = e.websocket
         /\ Reads(e) => Reads(f)
<1> DEFINE g == Taken(e)
           f == Ended(g)
<1>1. e.inbox # <<>> /\ Head(e.inbox).type = "done"
  BY DEF NextIs
<1>2. /\ WellFormed(g, Pay, done) /\ Keeps(e, g)
      /\ g.websocket = e.websocket /\ g.closing = e.closing
      /\ Reads(e) => Reads(g)
  <2>1. Took(e, Head(e.inbox), g, Pay, done)
    BY <1>1, TakenOK
  <2> QED
    BY <1>1, <2>1 DEF Took
<1>3. DoneChunk(e) \in {g, f}
  BY DEF DoneChunk
<1> HIDE DEF g
<1>4. /\ WellFormed(f, Pay, done) /\ Keeps(g, f)
      /\ f.closing = g.closing /\ f.websocket = g.websocket /\ Reads(f)
  BY <1>2, EndedOK
<1> HIDE DEF f
<1>5. Keeps(e, f)
  BY <1>2, <1>4 DEF Keeps
<1> QED
  BY <1>2, <1>3, <1>4, <1>5

\* _disconnected() and close(): the connection has ended.
LEMMA DisconnectedOK ==
  ASSUME NEW Pay, NEW e, NEW done \in BOOLEAN, WellFormed(e, Pay, done),
         NextIs(e, "disconnected")
  PROVE  LET f == Disconnected(e) IN
         /\ WellFormed(f, Pay, done) /\ Keeps(e, f)
         /\ f.closing = e.closing /\ f.websocket = e.websocket
         /\ Reads(f)
<1> DEFINE f == Disconnected(e)
           g == Taken(e)
<1>1. e.inbox # <<>> /\ Head(e.inbox).type = "disconnected"
  BY DEF NextIs
<1>2. /\ WellFormed(g, Pay, done) /\ Keeps(e, g)
      /\ g.conn = "ended" /\ g.websocket = e.websocket /\ g.closing = e.closing
  <2>1. Took(e, Head(e.inbox), g, Pay, done)
    BY <1>1, TakenOK
  <2> QED
    BY <1>1, <2>1 DEF Took
<1>3. f = [g EXCEPT !.alive = FALSE, !.inbox = <<>>]
  BY DEF Disconnected
<1> HIDE DEF f, g
<1>4. /\ f = [y \in Fields |-> f[y]]
      /\ f.alive = FALSE /\ f.inbox = <<>>
      /\ f.opcode = g.opcode /\ f.output = g.output
      /\ f.reading = g.reading /\ f.stream = g.stream /\ f.conn = g.conn
      /\ f.websocket = g.websocket /\ f.closing = g.closing /\ f.sent = g.sent
  BY <1>2, <1>3 DEF WellFormed, WsTyped, Fields
<1>5. /\ <<>> \in Seq(WsEvents(Pay))
      /\ \A type : ~ Waits(<<>>, type)
      /\ ~ CloseWaits(<<>>) /\ OneChunkWaits(<<>>) /\ NoFrameAfterClose(<<>>)
  BY EmptySeq DEF Waits, CloseWaits, OneChunkWaits, NoFrameAfterClose
<1>6. WsTyped(f, Pay)
  BY <1>2, <1>4, <1>5 DEF WellFormed, WsTyped
<1>7. Closed(f) /\ EndsOnce(f) /\ ReadsInTurn(f)
  BY <1>2, <1>4, <1>5 DEF WellFormed, Closed, EndsOnce, ReadsInTurn
<1>8. CloseComesLast(f, done)
  BY <1>2, <1>4, <1>5 DEF WellFormed, CloseComesLast, LastFrame
<1>9. Keeps(e, f) /\ Reads(f)
  BY <1>2, <1>4 DEF Keeps, Reads
<1> QED
  BY <1>2, <1>4, <1>6, <1>7, <1>8, <1>9 DEF WellFormed, f

\* _receiveWsChunk(), for a close frame, and chatReceiveResponse(): the close frame is
\* answered, or sent, once, and the next frame expected.
LEMMA ReceiveCloseOK ==
  ASSUME NEW Pay, NEW e, NEW done \in BOOLEAN, WellFormed(e, Pay, done), NextIs(e, "chunk")
  PROVE  LET f == ReceiveClose(e) IN
         /\ WellFormed(f, Pay, done) /\ Keeps(e, f) /\ f.closing
         /\ Reads(f)
<1> DEFINE g == Taken(e)
           h == SendClose(g)
           f == ExpectWsFrame(h)
<1>1. e.inbox # <<>> /\ Head(e.inbox).type = "chunk"
  BY DEF NextIs
<1>2. /\ WellFormed(g, Pay, done) /\ Keeps(e, g)
      /\ g.conn = e.conn /\ g.websocket = e.websocket /\ g.closing = e.closing
      /\ g.websocket /\ g.reading = "none" /\ ~ Waits(g.inbox, "chunk")
  <2>1. Took(e, Head(e.inbox), g, Pay, done)
    BY <1>1, TakenOK
  <2> QED
    BY <1>1, <2>1 DEF Took
<1>3. ReceiveClose(e) = IF CanSendClose(e) THEN f ELSE h
  BY DEF ReceiveClose
<1> HIDE DEF g
<1>4. /\ WellFormed(h, Pay, done) /\ Keeps(g, h)
      /\ h.closing /\ h.websocket /\ h.conn = g.conn
      /\ h.inbox = g.inbox /\ h.reading = g.reading
  BY <1>2, SendCloseOK
<1> HIDE DEF h
<1>5. /\ WellFormed(f, Pay, done) /\ Keeps(h, f)
      /\ f.closing = h.closing /\ Reads(f)
  BY <1>2, <1>4, ExpectWsFrameOK
<1> HIDE DEF f
<1>6. Keeps(e, h) /\ Keeps(e, f)
  BY <1>2, <1>4, <1>5 DEF Keeps
<1>7. ~ CanSendClose(e) => Reads(h)
  BY <1>2, <1>4 DEF CanSendClose, Reads
<1> QED
  BY <1>3, <1>4, <1>5, <1>6, <1>7

\* Server.c handles an event that needs no service.  It closes the WebSocket only for
\* a close frame.
LEMMA HandledOK ==
  ASSUME NEW Pay, NEW e, NEW done \in BOOLEAN, WellFormed(e, Pay, done), IsServerEvent(e)
  PROVE  LET f == Handled(e) IN
         /\ WellFormed(f, Pay, done) /\ Keeps(e, f)
         /\ f.closing => e.closing \/ e.opcode = "CLOSE"
         /\ Reads(e) => Reads(f)
<1> DEFINE f == Handled(e)
<1>1. CASE NextIs(e, "frame")
  <2>1. f = ReceiveWsFrame(e)
    BY <1>1 DEF Handled, NextIs
  <2> HIDE DEF f
  <2> QED
    BY <1>1, <2>1, ReceiveWsFrameOK DEF f
<1>2. CASE NextIs(e, "done")
  <2>1. f = DoneChunk(e)
    BY <1>2 DEF Handled, NextIs
  <2> HIDE DEF f
  <2> QED
    BY <1>2, <2>1, DoneChunkOK DEF f
<1>3. CASE NextIs(e, "disconnected")
  <2>1. f = Disconnected(e)
    BY <1>3 DEF Handled, NextIs
  <2> HIDE DEF f
  <2> QED
    BY <1>3, <2>1, DisconnectedOK DEF f
<1>4. CASE IsClose(e)
  <2>1. f = ReceiveClose(e) /\ NextIs(e, "chunk") /\ e.opcode = "CLOSE"
    BY <1>4 DEF Handled, NextIs, IsClose
  <2> HIDE DEF f
  <2> QED
    BY <2>1, ReceiveCloseOK DEF f
<1> QED
  BY <1>1, <1>2, <1>3, <1>4 DEF IsServerEvent

(***************************************************************************)
(* Discovery                                                               *)
(***************************************************************************)

\* Discovery uses the operators of WebSocket.
LEMMA DiscoveryOperators ==
  /\ D!Endpoint = Endpoint /\ D!CloseFrame = CloseFrame /\ D!Closing = Closing
  /\ \A e, c : /\ D!SendChunk(e, c) = SendChunk(e, c)
               /\ D!ClientSends(e, c) = ClientSends(e, c)
               /\ D!NextIs(e, c) = NextIs(e, c)
  /\ \A e : /\ D!ExpectWsFrame(e) = ExpectWsFrame(e)
            /\ D!Ended(e) = Ended(e)
            /\ D!CanSendChunk(e) = CanSendChunk(e)
            /\ D!CanSendClose(e) = CanSendClose(e)
            /\ D!SendClose(e) = SendClose(e)
            /\ D!UpgradeToWebSocket(e) = UpgradeToWebSocket(e)
            /\ D!Taken(e) = Taken(e)
            /\ D!IsChunk(e) = IsChunk(e)
            /\ D!Reads(e) = Reads(e)
            /\ D!ClosedAtTheEnd(e) = ClosedAtTheEnd(e)
  /\ \A payload : D!Frame(payload) = Frame(payload)
<1>1. /\ D!Endpoint = Endpoint /\ D!CloseFrame = CloseFrame /\ D!Closing = Closing
      /\ \A payload : D!Frame(payload) = Frame(payload)
  BY DEF D!Endpoint, Endpoint, D!CloseFrame, CloseFrame, D!Closing, Closing, D!Frame, Frame
<1>2. \A e, c : /\ D!SendChunk(e, c) = SendChunk(e, c)
                /\ D!ClientSends(e, c) = ClientSends(e, c)
                /\ D!NextIs(e, c) = NextIs(e, c)
  BY DEF D!SendChunk, SendChunk, D!SendWsChunk, SendWsChunk, D!ClientSends, ClientSends,
         D!NextIs, NextIs
<1>3. \A e : /\ D!ExpectWsFrame(e) = ExpectWsFrame(e)
             /\ D!Ended(e) = Ended(e)
             /\ D!CanSendChunk(e) = CanSendChunk(e)
             /\ D!CanSendClose(e) = CanSendClose(e)
             /\ D!Taken(e) = Taken(e)
             /\ D!Reads(e) = Reads(e)
  BY DEF D!ExpectWsFrame, ExpectWsFrame, D!Ended, Ended, D!CanSendChunk, CanSendChunk,
         D!CanSendClose, CanSendClose, D!Taken, Taken, D!Reads, Reads
<1>4. \A e : /\ D!SendClose(e) = SendClose(e)
             /\ D!UpgradeToWebSocket(e) = UpgradeToWebSocket(e)
             /\ D!IsChunk(e) = IsChunk(e)
             /\ D!ClosedAtTheEnd(e) = ClosedAtTheEnd(e)
  BY DEF D!SendClose, SendClose, D!SendWsChunk, SendWsChunk, D!UpgradeToWebSocket,
         UpgradeToWebSocket, D!ExpectWsFrame, ExpectWsFrame, D!IsChunk, IsChunk,
         D!NextIs, NextIs, D!ClosedAtTheEnd, ClosedAtTheEnd, D!Closing, Closing
<1> QED
  BY <1>1, <1>2, <1>3, <1>4

\* The same of the handlers.
LEMMA DiscoveryHandlers ==
  ASSUME NEW e
  PROVE  /\ D!IsServerEvent(e) = IsServerEvent(e)
         /\ D!Handled(e) = Handled(e)
         /\ D!Transfers(e) = Transfers(e)
<1>1. D!IsServerEvent(e) = IsServerEvent(e)
  BY DEF D!IsServerEvent, IsServerEvent, D!IsClose, IsClose, D!NextIs, NextIs
<1>2. /\ D!ReceiveWsFrame(e) = ReceiveWsFrame(e)
      /\ D!DoneChunk(e) = DoneChunk(e)
      /\ D!Disconnected(e) = Disconnected(e)
      /\ D!ReceiveClose(e) = ReceiveClose(e)
  BY DEF D!ReceiveWsFrame, ReceiveWsFrame, D!DoneChunk, DoneChunk, D!Disconnected,
         Disconnected, D!ReceiveClose, ReceiveClose, D!Taken, Taken, D!Ended, Ended,
         D!SendClose, SendClose, D!SendWsChunk, SendWsChunk, D!ExpectWsFrame,
         ExpectWsFrame, D!CanSendClose, CanSendClose, D!Closing, Closing
<1>3. D!Handled(e) = Handled(e)
  BY <1>2 DEF D!Handled, Handled, D!NextIs, NextIs
<1>4. D!Transfers(e) = Transfers(e)
  BY DEF D!Transfers, Transfers, D!CanReadFrame, CanReadFrame, D!ReadFrame, ReadFrame,
         D!CanReadPayload, CanReadPayload, D!ReadPayload, ReadPayload, D!CanFlush,
         CanFlush, D!Flush, Flush
<1> QED
  BY <1>1, <1>3, <1>4

CdsiDone == cdsiChunks > MaxChunks

\* The state of Discovery.c and the connection.  There is no batch before STATE_DONE;
\* attest() that is still queued in a later state finds the WebSocket closing; and a
\* WebSocket that closes in STATE_HANDSHAKE was closed by the client, so that no chunk
\* comes for which cdsiReceiveChunk() could not send an answer.
Stages ==
  /\ state # "INIT" => cdsiEp.websocket
  /\ attests => state = "INIT" \/ cdsiEp.closing
  /\ batches # {} => state = "DONE"
  /\ state = "HANDSHAKE" /\ cdsiEp.closing /\ cdsiEp.conn = "up" => cdsiEp.opcode = "CLOSE"

DiscoveryInv ==
  /\ WellFormed(cdsiEp, D!Payloads, CdsiDone)
  /\ Reads(cdsiEp)
  /\ state \in D!States /\ attests \in BOOLEAN
  /\ cdsiChunks \in Nat
  /\ Stages

\* The bounds are numbers.
LEMMA BoundIsNat == MaxChunks \in Nat /\ MaxDeviceChunks \in Nat
  BY BoundsAssumption

\* Initially the connection speaks HTTP and nothing is queued.
LEMMA DiscoveryInit == ASSUME D!Init PROVE DiscoveryInv
<1>1. cdsiEp = Endpoint /\ state = "INIT" /\ attests = FALSE /\ batches = {} /\ cdsiChunks = 0
  BY DiscoveryOperators DEF D!Init
<1>2. CdsiDone = FALSE
  BY <1>1, BoundIsNat DEF CdsiDone
<1>3. WellFormed(cdsiEp, D!Payloads, CdsiDone)
  BY <1>1, <1>2, EndpointOK
<1>4. Reads(cdsiEp)
  BY <1>1 DEF Reads, Endpoint
<1> QED
  BY <1>1, <1>3, <1>4 DEF DiscoveryInv, Stages, D!States

\* What a step that leaves the state of Discovery.c alone must not do.
LEMMA StagesKept ==
  ASSUME DiscoveryInv, Keeps(cdsiEp, cdsiEp'),
         UNCHANGED <<state, attests, batches>>,
         cdsiEp'.closing => cdsiEp.closing \/ cdsiEp.opcode = "CLOSE",
         WellFormed(cdsiEp', D!Payloads, CdsiDone')
  PROVE  Stages'
<1>1. cdsiEp'.conn = "up" => cdsiEp.conn = "up"
  BY DEF Keeps, DiscoveryInv, WellFormed, WsTyped
<1>2. Stages
  BY DEF DiscoveryInv
<1> QED
  BY <1>1, <1>2 DEF Stages, Keeps

\* The client, the network and Server.c
LEMMA DiscoveryEnvironment ==
  ASSUME DiscoveryInv,
         \/ \E payload \in D!Payloads : D!ClientChunk(payload)
         \/ D!ClientClose \/ D!Drop \/ D!Connection \/ D!Server
         \/ \E n \in Numbers : D!Register(n)
  PROVE  DiscoveryInv'
<1> DEFINE Pay == D!Payloads
<1>1. WellFormed(cdsiEp, Pay, CdsiDone) /\ Reads(cdsiEp) /\ CdsiDone \in BOOLEAN
  BY DEF DiscoveryInv, CdsiDone
<1>2. ASSUME UNCHANGED <<state, attests, batches>>, cdsiChunks' \in Nat,
             WellFormed(cdsiEp', Pay, CdsiDone'), Keeps(cdsiEp, cdsiEp'), Reads(cdsiEp'),
             cdsiEp'.closing => cdsiEp.closing \/ cdsiEp.opcode = "CLOSE"
      PROVE  DiscoveryInv'
  <2>1. Stages'
    BY <1>2, StagesKept
  <2> QED
    BY <1>2, <2>1 DEF DiscoveryInv
<1>3. ASSUME UNCHANGED cdsiChunks PROVE CdsiDone' = CdsiDone
  BY <1>3 DEF CdsiDone
<1>4. CASE \E payload \in D!Payloads : D!ClientChunk(payload)
  <2>1. PICK payload \in Pay : D!ClientChunk(payload)
    BY <1>4
  <2>2. /\ cdsiChunks < MaxChunks /\ cdsiChunks' = cdsiChunks + 1
        /\ cdsiEp' = ClientSends(cdsiEp, Frame(payload))
        /\ UNCHANGED <<state, attests, batches>>
    BY <2>1, DiscoveryOperators DEF D!ClientChunk
  <2>3. CdsiDone = FALSE /\ CdsiDone' = FALSE /\ cdsiChunks' \in Nat
    BY <2>2, BoundIsNat DEF DiscoveryInv, CdsiDone
  <2>4. Frame(payload) \in Frames(Pay) /\ Frame(payload).opcode # "CLOSE"
    BY DEF Frame, Frames, Opcodes
  <2>5. /\ WellFormed(cdsiEp', Pay, FALSE) /\ Keeps(cdsiEp, cdsiEp')
        /\ cdsiEp'.closing = cdsiEp.closing /\ Reads(cdsiEp')
    BY <1>1, <2>2, <2>3, <2>4, ClientSendsOK
  <2> QED
    BY <1>2, <2>2, <2>3, <2>5
<1>5. CASE D!ClientClose
  <2>1. /\ cdsiChunks <= MaxChunks /\ cdsiChunks' = MaxChunks + 1
        /\ cdsiEp' = ClientSends(cdsiEp, CloseFrame)
        /\ UNCHANGED <<state, attests, batches>>
    BY <1>5, DiscoveryOperators DEF D!ClientClose
  <2>2. CdsiDone = FALSE /\ CdsiDone' = TRUE /\ cdsiChunks' \in Nat
    BY <2>1, BoundIsNat DEF DiscoveryInv, CdsiDone
  <2>3. CloseFrame \in Frames(Pay)
    BY DEF CloseFrame, Status, Frames, Opcodes
  <2>4. /\ WellFormed(cdsiEp', Pay, TRUE) /\ Keeps(cdsiEp, cdsiEp')
        /\ cdsiEp'.closing = cdsiEp.closing /\ Reads(cdsiEp')
    BY <1>1, <2>1, <2>2, <2>3, ClientSendsOK
  <2> QED
    BY <1>2, <2>1, <2>2, <2>4
<1>6. CASE D!Drop
  <2>1. cdsiEp' = Ended(cdsiEp) /\ UNCHANGED <<state, attests, batches, cdsiChunks>>
    BY <1>6, DiscoveryOperators DEF D!Drop
  <2>2. /\ WellFormed(cdsiEp', Pay, CdsiDone) /\ Keeps(cdsiEp, cdsiEp')
        /\ cdsiEp'.closing = cdsiEp.closing /\ Reads(cdsiEp')
    BY <1>1, <2>1, EndedOK
  <2> QED
    BY <1>2, <1>3, <2>1, <2>2 DEF DiscoveryInv
<1>7. CASE D!Connection
  <2>1. cdsiEp' \in Transfers(cdsiEp) /\ UNCHANGED <<state, attests, batches, cdsiChunks>>
    BY <1>7, DiscoveryHandlers DEF D!Connection
  <2>2. /\ WellFormed(cdsiEp', Pay, CdsiDone) /\ Keeps(cdsiEp, cdsiEp')
        /\ cdsiEp'.closing = cdsiEp.closing /\ Reads(cdsiEp')
    BY <1>1, <2>1, TransferOK
  <2> QED
    BY <1>2, <1>3, <2>1, <2>2 DEF DiscoveryInv
<1>8. CASE D!Server
  <2>1. /\ IsServerEvent(cdsiEp) /\ cdsiEp' = Handled(cdsiEp)
        /\ UNCHANGED <<state, attests, batches, cdsiChunks>>
    BY <1>8, DiscoveryHandlers DEF D!Server
  <2>2. /\ WellFormed(cdsiEp', Pay, CdsiDone) /\ Keeps(cdsiEp, cdsiEp')
        /\ cdsiEp'.closing => cdsiEp.closing \/ cdsiEp.opcode = "CLOSE"
        /\ Reads(cdsiEp')
    BY <1>1, <2>1, HandledOK
  <2> QED
    BY <1>2, <1>3, <2>1, <2>2 DEF DiscoveryInv
<1>9. CASE \E n \in Numbers : D!Register(n)
  <2>1. UNCHANGED <<cdsiEp, state, attests, batches, cdsiChunks>>
    BY <1>9 DEF D!Register
  <2>2. CdsiDone' = CdsiDone
    BY <1>3, <2>1
  <2> QED
    BY <2>1, <2>2 DEF DiscoveryInv, Stages
<1> QED
  BY <1>4, <1>5, <1>6, <1>7, <1>8, <1>9

\* getDiscovery(): only a connection in STATE_INIT is not upgraded.
LEMMA DiscoveryUpgrade == ASSUME DiscoveryInv, D!GetDiscovery PROVE DiscoveryInv'
<1>1. /\ ~ cdsiEp.websocket /\ cdsiEp' = UpgradeToWebSocket(cdsiEp) /\ attests' = TRUE
      /\ UNCHANGED <<state, batches, cdsiChunks>>
  BY DiscoveryOperators DEF D!GetDiscovery
<1>2. CdsiDone \in BOOLEAN /\ CdsiDone' = CdsiDone
  BY <1>1 DEF CdsiDone
<1>3. /\ WellFormed(cdsiEp', D!Payloads, CdsiDone) /\ Reads(cdsiEp')
      /\ cdsiEp'.websocket /\ ~ cdsiEp'.closing
  BY <1>1, <1>2, UpgradeOK DEF DiscoveryInv
<1>4. state = "INIT"
  BY <1>1 DEF DiscoveryInv, Stages
<1> QED
  BY <1>1, <1>2, <1>3, <1>4 DEF DiscoveryInv, Stages

\* attest(): on a WebSocket that is closing nothing happens, on another it is still in
\* STATE_INIT.
LEMMA DiscoveryAttest ==
  ASSUME DiscoveryInv, D!Attest
  PROVE  DiscoveryInv' /\ (state = "DONE" => state' = "DONE")
<1> DEFINE chunk == [type |-> "CDSI"]
<1>1. /\ attests /\ attests' = FALSE /\ UNCHANGED <<batches, cdsiChunks>>
      /\ IF CanSendChunk(cdsiEp)
         THEN cdsiEp' = SendChunk(cdsiEp, chunk) /\ state' = "HANDSHAKE"
         ELSE UNCHANGED <<cdsiEp, state>>
  BY DiscoveryOperators DEF D!Attest
<1>2. CdsiDone \in BOOLEAN /\ CdsiDone' = CdsiDone
  BY <1>1 DEF CdsiDone
<1>3. CASE CanSendChunk(cdsiEp)
  <2>1. ~ cdsiEp.closing /\ cdsiEp.websocket /\ state = "INIT"
    BY <1>1, <1>3 DEF CanSendChunk, DiscoveryInv, Stages
  <2>2. chunk # Closing
    BY DEF Closing
  <2> HIDE DEF chunk
  <2>3. /\ WellFormed(cdsiEp', D!Payloads, CdsiDone) /\ Reads(cdsiEp')
        /\ cdsiEp'.closing = cdsiEp.closing /\ cdsiEp'.websocket = cdsiEp.websocket
    <3>1. Gave(cdsiEp, chunk, SendChunk(cdsiEp, chunk), D!Payloads, CdsiDone)
      BY <1>2, <2>1, <2>2, SendChunkOK DEF DiscoveryInv
    <3> QED
      BY <1>1, <1>3, <3>1 DEF Gave, DiscoveryInv
  <2> QED
    BY <1>1, <1>2, <1>3, <2>1, <2>3 DEF DiscoveryInv, Stages, D!States
<1>4. CASE ~ CanSendChunk(cdsiEp)
  BY <1>1, <1>2, <1>4 DEF DiscoveryInv, Stages
<1> QED
  BY <1>3, <1>4

\* What a handler of a chunk finds: its endpoint e, from which the chunk was taken.
AtChunk(e) ==
  /\ WellFormed(e, D!Payloads, CdsiDone) /\ Keeps(cdsiEp, e)
  /\ e.websocket /\ e.reading = "none" /\ ~ Waits(e.inbox, "chunk")
  /\ e.closing = cdsiEp.closing /\ e.conn = cdsiEp.conn

\* The event of a chunk is taken from the inbox.
LEMMA ChunkTaken ==
  ASSUME DiscoveryInv, IsChunk(cdsiEp)
  PROVE  AtChunk(Taken(cdsiEp)) /\ cdsiEp.opcode # "CLOSE"
<1>1. cdsiEp.inbox # <<>> /\ Head(cdsiEp.inbox).type = "chunk" /\ cdsiEp.opcode # "CLOSE"
  BY DEF IsChunk, NextIs
<1>2. CdsiDone \in BOOLEAN
  BY DEF CdsiDone
<1> DEFINE e == Taken(cdsiEp)
<1>3. /\ WellFormed(e, D!Payloads, CdsiDone) /\ Keeps(cdsiEp, e)
      /\ e.websocket /\ e.reading = "none" /\ ~ Waits(e.inbox, "chunk")
      /\ e.closing = cdsiEp.closing /\ e.conn = cdsiEp.conn
  <2>1. Took(cdsiEp, Head(cdsiEp.inbox), e, D!Payloads, CdsiDone)
    BY <1>1, <1>2, TakenOK DEF DiscoveryInv
  <2> QED
    BY <1>1, <2>1 DEF Took
<1> QED
  BY <1>1, <1>3 DEF AtChunk

\* sendClose() and STATE_DONE: the state is kept only if the connection has ended.
LEMMA DiscoveryClose ==
  ASSUME DiscoveryInv, NEW e, AtChunk(e), D!CloseAndDone(e), UNCHANGED cdsiChunks
  PROVE  /\ WellFormed(cdsiEp', D!Payloads, CdsiDone') /\ Reads(cdsiEp')
         /\ cdsiEp'.closing /\ cdsiEp'.websocket
         /\ state' = "DONE" \/ (state' = state /\ cdsiEp'.conn = "ended")
<1> DEFINE h == SendClose(e)
           f == ExpectWsFrame(h)
<1>1. /\ cdsiEp' = IF CanSendClose(e) THEN f ELSE h
      /\ state' = IF CanSendClose(e) THEN "DONE" ELSE state
  BY DiscoveryOperators DEF D!CloseAndDone
<1>2. CdsiDone \in BOOLEAN /\ CdsiDone' = CdsiDone
  BY DEF CdsiDone
<1>3. /\ WellFormed(h, D!Payloads, CdsiDone)
      /\ h.closing /\ h.websocket /\ h.conn = e.conn
      /\ h.inbox = e.inbox /\ h.reading = e.reading
  BY <1>2, SendCloseOK DEF AtChunk
<1> HIDE DEF h
<1>4. /\ WellFormed(f, D!Payloads, CdsiDone)
      /\ f.closing = h.closing /\ f.websocket = h.websocket /\ Reads(f)
  BY <1>2, <1>3, ExpectWsFrameOK DEF AtChunk
<1> HIDE DEF f
<1>5. CASE CanSendClose(e)
  BY <1>1, <1>2, <1>3, <1>4, <1>5
<1>6. CASE ~ CanSendClose(e)
  <2>1. h.conn = "ended"
    BY <1>3, <1>6 DEF CanSendClose, AtChunk, WellFormed, WsTyped
  <2>2. Reads(h)
    BY <2>1 DEF Reads
  <2> QED
    BY <1>1, <1>2, <1>3, <1>6, <2>1, <2>2
<1> QED
  BY <1>5, <1>6

\* sendChunk() and the next state
LEMMA DiscoverySend ==
  ASSUME DiscoveryInv, NEW e, AtChunk(e), NEW chunk, chunk # Closing, NEW next,
         D!SendAndNext(e, chunk, next), UNCHANGED cdsiChunks
  PROVE  /\ WellFormed(cdsiEp', D!Payloads, CdsiDone') /\ Reads(cdsiEp')
         /\ ~ cdsiEp.closing /\ ~ cdsiEp'.closing /\ cdsiEp'.websocket
         /\ state' = next
<1> DEFINE h == SendChunk(e, chunk)
           f == ExpectWsFrame(h)
<1>1. CanSendChunk(e) /\ cdsiEp' = f /\ state' = next
  BY DiscoveryOperators DEF D!SendAndNext
<1>2. CdsiDone \in BOOLEAN /\ CdsiDone' = CdsiDone
  BY DEF CdsiDone
<1>3. ~ e.closing /\ ~ cdsiEp.closing
  BY <1>1 DEF CanSendChunk, AtChunk
<1>4. /\ WellFormed(h, D!Payloads, CdsiDone)
      /\ h.closing = e.closing /\ h.websocket = e.websocket
      /\ h.inbox = e.inbox /\ h.reading = e.reading
  <2>1. Gave(e, chunk, h, D!Payloads, CdsiDone)
    BY <1>2, <1>3, SendChunkOK DEF AtChunk
  <2> QED
    BY <2>1 DEF Gave
<1> HIDE DEF h
<1>5. /\ WellFormed(f, D!Payloads, CdsiDone)
      /\ f.closing = h.closing /\ f.websocket = h.websocket /\ Reads(f)
  BY <1>2, <1>4, ExpectWsFrameOK DEF AtChunk
<1> HIDE DEF f
<1> QED
  BY <1>1, <1>2, <1>3, <1>4, <1>5 DEF AtChunk

\* cdsiReceiveChunk(), in each state
LEMMA DiscoveryChunk ==
  ASSUME DiscoveryInv, D!CdsiReceiveChunk
  PROVE  DiscoveryInv' /\ (state = "DONE" => state' = "DONE")
<1> DEFINE e == Taken(cdsiEp)
           payload == Head(cdsiEp.inbox).payload
<1>1. /\ IsChunk(cdsiEp)
      /\ \/ D!ReceiveIllegal(e) \/ D!ReceiveHandshake(e, payload)
         \/ D!ReceiveList(e, payload) \/ D!ReceiveAck(e, payload)
      /\ UNCHANGED <<attests, cdsiChunks>>
  BY DiscoveryOperators DEF D!CdsiReceiveChunk
<1>2. AtChunk(e) /\ cdsiEp.opcode # "CLOSE" /\ cdsiChunks' \in Nat /\ CdsiDone' = CdsiDone
  BY <1>1, ChunkTaken DEF DiscoveryInv, CdsiDone
<1> HIDE DEF e, payload
<1>3. ASSUME D!CloseAndDone(e), batches' = batches
      PROVE  DiscoveryInv' /\ (state = "DONE" => state' = "DONE")
  <2>1. /\ WellFormed(cdsiEp', D!Payloads, CdsiDone') /\ Reads(cdsiEp')
        /\ cdsiEp'.closing /\ cdsiEp'.websocket
        /\ state' = "DONE" \/ (state' = state /\ cdsiEp'.conn = "ended")
    BY <1>1, <1>2, <1>3, DiscoveryClose
  <2>2. Stages'
    BY <1>3, <2>1 DEF DiscoveryInv, Stages
  <2>3. state' \in D!States /\ attests' \in BOOLEAN
    BY <1>1, <2>1 DEF DiscoveryInv, D!States
  <2> QED
    BY <1>2, <2>1, <2>2, <2>3 DEF DiscoveryInv
<1>4. ASSUME NEW chunk, chunk # Closing, NEW next \in {"RECEIVE", "RECEIVE_ACK"},
             D!SendAndNext(e, chunk, next), state \in {"HANDSHAKE", "RECEIVE"},
             batches' = batches
      PROVE  DiscoveryInv' /\ (state = "DONE" => state' = "DONE")
  <2>1. /\ WellFormed(cdsiEp', D!Payloads, CdsiDone') /\ Reads(cdsiEp')
        /\ ~ cdsiEp.closing /\ ~ cdsiEp'.closing /\ cdsiEp'.websocket
        /\ state' = next
    BY <1>1, <1>2, <1>4, DiscoverySend
  <2>2. batches = {} /\ ~ attests
    BY <1>4, <2>1 DEF DiscoveryInv, Stages
  <2>3. Stages'
    BY <1>1, <1>4, <2>1, <2>2 DEF Stages
  <2>4. state' \in D!States /\ attests' \in BOOLEAN
    BY <1>1, <1>4, <2>1 DEF DiscoveryInv, D!States
  <2> QED
    BY <1>2, <1>4, <2>1, <2>3, <2>4 DEF DiscoveryInv
<1>5. CASE D!ReceiveIllegal(e)
  BY <1>3, <1>5 DEF D!ReceiveIllegal
<1>6. CASE D!ReceiveHandshake(e, payload)
  <2> DEFINE ready == [type |-> "Ready"]
  <2>1. ready # Closing
    BY DEF Closing
  <2>2. /\ state = "HANDSHAKE" /\ batches' = batches
        /\ D!CloseAndDone(e) \/ D!SendAndNext(e, ready, "RECEIVE") \/ D!Fail(e)
    BY <1>6 DEF D!ReceiveHandshake
  <2> HIDE DEF ready
  <2>3. CASE D!Fail(e)
    <3>1. ~ CanSendChunk(e) /\ cdsiEp' = e /\ state' = state
      BY <2>3, DiscoveryOperators DEF D!Fail
    <3>2. ~ (cdsiEp.closing /\ cdsiEp.conn = "up")
      BY <1>2, <2>2 DEF DiscoveryInv, Stages
    <3>3. e.conn # "up" /\ e.websocket
      BY <1>2, <3>1, <3>2 DEF CanSendChunk, AtChunk
    <3>4. Reads(e)
      BY <3>3 DEF Reads
    <3>5. Stages'
      BY <1>1, <1>2, <2>2, <3>1, <3>3 DEF DiscoveryInv, Stages, AtChunk
    <3> QED
      BY <1>1, <1>2, <3>1, <3>4, <3>5 DEF DiscoveryInv, AtChunk
  <2>4. CASE D!SendAndNext(e, ready, "RECEIVE")
    BY <1>4, <2>1, <2>2, <2>4
  <2> QED
    BY <1>3, <2>2, <2>3, <2>4
<1>7. CASE D!ReceiveList(e, payload)
  <2> DEFINE token == [type |-> "token"]
  <2>1. token # Closing
    BY DEF Closing
  <2>2. /\ state = "RECEIVE" /\ batches' = batches
        /\ D!CloseAndDone(e) \/ D!SendAndNext(e, token, "RECEIVE_ACK")
    BY <1>7 DEF D!ReceiveList
  <2> HIDE DEF token
  <2> QED
    BY <1>3, <1>4, <2>1, <2>2
<1>8. CASE D!ReceiveAck(e, payload)
  <2>1. state = "RECEIVE_ACK"
    BY <1>8 DEF D!ReceiveAck
  <2>2. CASE D!IsMalformed(payload)
    <3>1. D!CloseAndDone(e) /\ batches' = batches
      BY <1>8, <2>2 DEF D!ReceiveAck, D!IsMalformed
    <3> QED
      BY <1>3, <3>1
  <2>3. CASE ~ D!IsMalformed(payload)
    <3>1. cdsiEp' = ExpectWsFrame(e) /\ state' = "DONE"
      BY <1>8, <2>3, DiscoveryOperators DEF D!ReceiveAck
    <3>2. CdsiDone \in BOOLEAN
      BY DEF CdsiDone
    <3>3. /\ WellFormed(cdsiEp', D!Payloads, CdsiDone) /\ Reads(cdsiEp')
          /\ cdsiEp'.closing = e.closing /\ cdsiEp'.websocket = e.websocket
      BY <1>2, <3>1, <3>2, ExpectWsFrameOK DEF AtChunk
    <3>4. Stages'
      BY <1>1, <1>2, <2>1, <3>1, <3>3 DEF DiscoveryInv, Stages, AtChunk
    <3>5. state' \in D!States /\ attests' \in BOOLEAN
      BY <1>1, <3>1 DEF DiscoveryInv, D!States
    <3> QED
      BY <1>2, <3>1, <3>3, <3>4, <3>5 DEF DiscoveryInv
  <2> QED
    BY <2>2, <2>3
<1> QED
  BY <1>1, <1>5, <1>6, <1>7, <1>8

\* cdsiBatch(): STATE_DONE was reached when the first batch was queued.
LEMMA DiscoveryBatch ==
  ASSUME DiscoveryInv, NEW b \in batches, D!CdsiBatch(b)
  PROVE  DiscoveryInv' /\ state' = "DONE"
<1> DEFINE chunk == [type |-> "response", triples |-> D!Triples(D!LookedUp(b))]
<1>1. /\ \/ cdsiEp' = cdsiEp
         \/ CanSendChunk(cdsiEp) /\ cdsiEp' = SendClose(SendChunk(cdsiEp, chunk))
      /\ UNCHANGED <<state, attests, cdsiChunks>>
  BY DiscoveryOperators DEF D!CdsiBatch
<1>2. /\ state = "DONE" /\ cdsiEp.websocket /\ CdsiDone' = CdsiDone /\ CdsiDone \in BOOLEAN
      /\ attests => cdsiEp.closing
  BY <1>1 DEF DiscoveryInv, Stages, CdsiDone
<1>3. chunk.type = "response" /\ Closing.type = "close"
  BY DEF Closing
<1>4. chunk # Closing
  BY <1>3
<1> HIDE DEF chunk
<1>5. CASE cdsiEp' = cdsiEp
  BY <1>1, <1>2, <1>5 DEF DiscoveryInv, Stages
<1>6. CASE CanSendChunk(cdsiEp) /\ cdsiEp' = SendClose(SendChunk(cdsiEp, chunk))
  <2> DEFINE g == SendChunk(cdsiEp, chunk)
             f == SendClose(g)
  <2>1. Gave(cdsiEp, chunk, g, D!Payloads, CdsiDone)
    BY <1>2, <1>4, <1>6, SendChunkOK DEF DiscoveryInv, CanSendChunk
  <2>2. WellFormed(g, D!Payloads, CdsiDone) /\ g.websocket /\ Reads(g)
    BY <1>2, <2>1 DEF Gave, DiscoveryInv
  <2> HIDE DEF g
  <2>3. WellFormed(f, D!Payloads, CdsiDone) /\ f.closing /\ f.websocket /\ Reads(f)
    BY <1>2, <2>2, SendCloseOK
  <2>4. cdsiEp' = f
    BY <1>6 DEF g
  <2> HIDE DEF f
  <2>5. Stages'
    BY <1>1, <1>2, <2>3, <2>4 DEF Stages
  <2> QED
    BY <1>1, <1>2, <2>3, <2>4, <2>5 DEF DiscoveryInv
<1> QED
  BY <1>1, <1>5, <1>6

\* Every step of Discovery.c and of what surrounds it
LEMMA DiscoveryStep ==
  ASSUME DiscoveryInv, D!Next
  PROVE  DiscoveryInv' /\ (state = "DONE" => state' = "DONE")
<1>1. CASE \/ \E payload \in D!Payloads : D!ClientChunk(payload)
           \/ D!ClientClose \/ D!Drop \/ D!Connection \/ D!Server
           \/ \E n \in Numbers : D!Register(n)
  <2>1. state' = state
    BY <1>1 DEF D!ClientChunk, D!ClientClose, D!Drop, D!Connection, D!Server, D!Register
  <2> QED
    BY <1>1, <2>1, DiscoveryEnvironment
<1>2. CASE D!GetDiscovery
  <2>1. state' = state
    BY <1>2 DEF D!GetDiscovery
  <2> QED
    BY <1>2, <2>1, DiscoveryUpgrade
<1>3. CASE D!Attest
  BY <1>3, DiscoveryAttest
<1>4. CASE D!CdsiReceiveChunk
  BY <1>4, DiscoveryChunk
<1>5. CASE \E b \in batches : D!CdsiBatch(b)
  BY <1>5, DiscoveryBatch
<1> QED
  BY <1>1, <1>2, <1>3, <1>4, <1>5 DEF D!Next, D!Tasks

(***************************************************************************)
(* Provisioning                                                            *)
(***************************************************************************)

\* Provisioning uses, too, the operators of WebSocket.
LEMMA ProvisioningOperators ==
  /\ P!Endpoint = Endpoint /\ P!CloseFrame = CloseFrame /\ P!Closing = Closing
  /\ \A e, c : /\ P!SendChunk(e, c) = SendChunk(e, c)
               /\ P!ClientSends(e, c) = ClientSends(e, c)
               /\ P!NextIs(e, c) = NextIs(e, c)
  /\ \A e : /\ P!ExpectWsFrame(e) = ExpectWsFrame(e)
            /\ P!Ended(e) = Ended(e)
            /\ P!CanSendChunk(e) = CanSendChunk(e)
            /\ P!CanSendClose(e) = CanSendClose(e)
            /\ P!SendClose(e) = SendClose(e)
            /\ P!UpgradeToWebSocket(e) = UpgradeToWebSocket(e)
            /\ P!Taken(e) = Taken(e)
            /\ P!IsChunk(e) = IsChunk(e)
            /\ P!Reads(e) = Reads(e)
            /\ P!ClosedAtTheEnd(e) = ClosedAtTheEnd(e)
  /\ \A payload : P!Frame(payload) = Frame(payload)
<1>1. /\ P!Endpoint = Endpoint /\ P!CloseFrame = CloseFrame /\ P!Closing = Closing
      /\ \A payload : P!Frame(payload) = Frame(payload)
  BY DEF P!Endpoint, Endpoint, P!CloseFrame, CloseFrame, P!Closing, Closing, P!Frame, Frame
<1>2. \A e, c : /\ P!SendChunk(e, c) = SendChunk(e, c)
                /\ P!ClientSends(e, c) = ClientSends(e, c)
                /\ P!NextIs(e, c) = NextIs(e, c)
  BY DEF P!SendChunk, SendChunk, P!SendWsChunk, SendWsChunk, P!ClientSends, ClientSends,
         P!NextIs, NextIs
<1>3. \A e : /\ P!ExpectWsFrame(e) = ExpectWsFrame(e)
             /\ P!Ended(e) = Ended(e)
             /\ P!CanSendChunk(e) = CanSendChunk(e)
             /\ P!CanSendClose(e) = CanSendClose(e)
             /\ P!Taken(e) = Taken(e)
             /\ P!Reads(e) = Reads(e)
  BY DEF P!ExpectWsFrame, ExpectWsFrame, P!Ended, Ended, P!CanSendChunk, CanSendChunk,
         P!CanSendClose, CanSendClose, P!Taken, Taken, P!Reads, Reads
<1>4. \A e : /\ P!SendClose(e) = SendClose(e)
             /\ P!UpgradeToWebSocket(e) = UpgradeToWebSocket(e)
             /\ P!IsChunk(e) = IsChunk(e)
             /\ P!ClosedAtTheEnd(e) = ClosedAtTheEnd(e)
  BY DEF P!SendClose, SendClose, P!SendWsChunk, SendWsChunk, P!UpgradeToWebSocket,
         UpgradeToWebSocket, P!ExpectWsFrame, ExpectWsFrame, P!IsChunk, IsChunk,
         P!NextIs, NextIs, P!ClosedAtTheEnd, ClosedAtTheEnd, P!Closing, Closing
<1> QED
  BY <1>1, <1>2, <1>3, <1>4

\* The same of the handlers.
LEMMA ProvisioningHandlers ==
  ASSUME NEW e
  PROVE  /\ P!IsServerEvent(e) = IsServerEvent(e)
         /\ P!Handled(e) = Handled(e)
         /\ P!Transfers(e) = Transfers(e)
         /\ P!ReceiveClose(e) = ReceiveClose(e)
<1>1. P!IsServerEvent(e) = IsServerEvent(e)
  BY DEF P!IsServerEvent, IsServerEvent, P!IsClose, IsClose, P!NextIs, NextIs
<1>2. /\ P!ReceiveWsFrame(e) = ReceiveWsFrame(e)
      /\ P!DoneChunk(e) = DoneChunk(e)
      /\ P!Disconnected(e) = Disconnected(e)
      /\ P!ReceiveClose(e) = ReceiveClose(e)
  BY DEF P!ReceiveWsFrame, ReceiveWsFrame, P!DoneChunk, DoneChunk, P!Disconnected,
         Disconnected, P!ReceiveClose, ReceiveClose, P!Taken, Taken, P!Ended, Ended,
         P!SendClose, SendClose, P!SendWsChunk, SendWsChunk, P!ExpectWsFrame,
         ExpectWsFrame, P!CanSendClose, CanSendClose, P!Closing, Closing
<1>3. P!Handled(e) = Handled(e)
  BY <1>2 DEF P!Handled, Handled, P!NextIs, NextIs
<1>4. P!Transfers(e) = Transfers(e)
  BY DEF P!Transfers, Transfers, P!CanReadFrame, CanReadFrame, P!ReadFrame, ReadFrame,
         P!CanReadPayload, CanReadPayload, P!ReadPayload, ReadPayload, P!CanFlush,
         CanFlush, P!Flush, Flush
<1> QED
  BY <1>1, <1>2, <1>3, <1>4

\* The device was told its address, and, after that, a message.
Told(sent) == \E i \in DOMAIN sent : sent[i].type = "address"
Provisioned(sent) ==
  \E i, j \in DOMAIN sent : i < j /\ sent[i].type = "address" /\ sent[j].type = "message"

DeviceDone(n) == n > MaxDeviceChunks

\* Device d with endpoint e, which has sent n chunks, while the devices A have an
\* address and those in F are finished.
DeviceOK(d, e, n, A, F) ==
  /\ WellFormed(e, P!Payloads, DeviceDone(n))
  /\ n \in Nat
  /\ ~ e.closing => Reads(e)
  /\ d \in A => e.websocket /\ Told(e.sent)
  /\ d \in F => Provisioned(e.sent)
  /\ e.closing /\ n <= MaxDeviceChunks => Provisioned(e.sent)

ProvisioningInv ==
  /\ deviceEp = [d \in Devices |-> deviceEp[d]]
  /\ deviceChunks = [d \in Devices |-> deviceChunks[d]]
  /\ \A d \in Devices : DeviceOK(d, deviceEp[d], deviceChunks[d], addresses, provisioningDone)
  /\ \A c \in callouts : c.to \in addresses

\* Initially no device has an address.
LEMMA ProvisioningInit == ASSUME P!Init PROVE ProvisioningInv
<1>1. /\ deviceEp = [d \in Devices |-> Endpoint] /\ deviceChunks = [d \in Devices |-> 0]
      /\ provisioningDone = {} /\ addresses = {} /\ callouts = {}
  BY ProvisioningOperators DEF P!Init
<1>2. DeviceDone(0) = FALSE
  BY BoundIsNat DEF DeviceDone
<1>3. WellFormed(Endpoint, P!Payloads, DeviceDone(0))
  BY <1>2, EndpointOK
<1>4. Reads(Endpoint) /\ ~ Endpoint.closing
  BY DEF Reads, Endpoint
<1>5. \A d : DeviceOK(d, Endpoint, 0, {}, {})
  BY <1>3, <1>4 DEF DeviceOK
<1> QED
  BY <1>1, <1>5 DEF ProvisioningInv

\* What was sent is not forgotten.
LEMMA SentStays ==
  ASSUME NEW e, NEW f, Keeps(e, f)
  PROVE  /\ Told(e.sent) => Told(f.sent)
         /\ Provisioned(e.sent) => Provisioned(f.sent)
  BY DEF Keeps, Told, Provisioned

\* One device moves from e to f; a step closes its WebSocket only in answer to a close
\* frame of the device, or when it is provisioned.
LEMMA DeviceKept ==
  ASSUME NEW d, NEW A, NEW F, NEW e, NEW n, DeviceOK(d, e, n, A, F),
         NEW f, NEW m \in Nat, WellFormed(f, P!Payloads, DeviceDone(m)), Keeps(e, f),
         ~ f.closing => Reads(f),
         n <= m,
         f.closing => e.closing \/ e.opcode = "CLOSE" \/ d \in F
  PROVE  DeviceOK(d, f, m, A, F)
<1>1. /\ Told(e.sent) => Told(f.sent)
      /\ Provisioned(e.sent) => Provisioned(f.sent)
  BY SentStays
<1>2. n \in Nat /\ (e.opcode = "CLOSE" => DeviceDone(n))
  BY DEF DeviceOK, WellFormed, CloseComesLast
<1>3. m <= MaxDeviceChunks => n <= MaxDeviceChunks /\ e.opcode # "CLOSE"
  BY <1>2, BoundIsNat DEF DeviceDone
<1> QED
  BY <1>1, <1>3 DEF DeviceOK, Keeps

\* The step of one device, which has no address for another one.
LEMMA OneDeviceMoves ==
  ASSUME ProvisioningInv, NEW d \in Devices, NEW f, NEW m,
         deviceEp' = [deviceEp EXCEPT ![d] = f],
         deviceChunks' = [deviceChunks EXCEPT ![d] = m],
         addresses \subseteq addresses', addresses' \subseteq addresses \cup {d},
         provisioningDone' \subseteq provisioningDone \cup {d},
         callouts' \subseteq callouts,
         DeviceOK(d, f, m, addresses', provisioningDone')
  PROVE  ProvisioningInv'
<1>1. /\ deviceEp' = [x \in Devices |-> deviceEp'[x]]
      /\ deviceChunks' = [x \in Devices |-> deviceChunks'[x]]
      /\ deviceEp'[d] = f /\ deviceChunks'[d] = m
      /\ \A x \in Devices \ {d} : deviceEp'[x] = deviceEp[x]
                                  /\ deviceChunks'[x] = deviceChunks[x]
  BY DEF ProvisioningInv
<1>2. \A x \in Devices :
        DeviceOK(x, deviceEp'[x], deviceChunks'[x], addresses', provisioningDone')
  <2> SUFFICES ASSUME NEW x \in Devices
               PROVE  DeviceOK(x, deviceEp'[x], deviceChunks'[x], addresses', provisioningDone')
    OBVIOUS
  <2>1. CASE x = d
    BY <1>1, <2>1
  <2>2. CASE x # d
    <3>1. DeviceOK(x, deviceEp[x], deviceChunks[x], addresses, provisioningDone)
      BY DEF ProvisioningInv
    <3>2. /\ x \in addresses' => x \in addresses
          /\ x \in provisioningDone' => x \in provisioningDone
      BY <2>2
    <3> QED
      BY <1>1, <2>2, <3>1, <3>2 DEF DeviceOK
  <2> QED
    BY <2>1, <2>2
<1>3. \A c \in callouts' : c.to \in addresses'
  BY DEF ProvisioningInv
<1> QED
  BY <1>1, <1>2, <1>3 DEF ProvisioningInv

\* The step of a device that neither gets an address nor a message.
LEMMA DeviceMoves ==
  ASSUME ProvisioningInv, NEW d \in Devices, NEW f, NEW m \in Nat,
         deviceEp' = [deviceEp EXCEPT ![d] = f],
         deviceChunks' = [deviceChunks EXCEPT ![d] = m],
         UNCHANGED <<addresses, provisioningDone, callouts>>,
         WellFormed(f, P!Payloads, DeviceDone(m)), Keeps(deviceEp[d], f),
         ~ f.closing => Reads(f),
         deviceChunks[d] <= m,
         f.closing => \/ deviceEp[d].closing \/ deviceEp[d].opcode = "CLOSE"
                      \/ d \in provisioningDone
  PROVE  ProvisioningInv'
<1>1. DeviceOK(d, deviceEp[d], deviceChunks[d], addresses, provisioningDone)
  BY DEF ProvisioningInv
<1>2. DeviceOK(d, f, m, addresses, provisioningDone)
  BY <1>1, DeviceKept
<1>3. DeviceOK(d, f, m, addresses', provisioningDone')
  BY <1>2
<1> QED
  BY <1>3, OneDeviceMoves

\* The same, of one that sends no frame
LEMMA DeviceMovesAlone ==
  ASSUME ProvisioningInv, NEW d \in Devices, NEW f,
         deviceEp' = [deviceEp EXCEPT ![d] = f],
         UNCHANGED <<addresses, provisioningDone, callouts, deviceChunks>>,
         WellFormed(f, P!Payloads, DeviceDone(deviceChunks[d])), Keeps(deviceEp[d], f),
         ~ f.closing => Reads(f),
         f.closing => \/ deviceEp[d].closing \/ deviceEp[d].opcode = "CLOSE"
                      \/ d \in provisioningDone
  PROVE  ProvisioningInv'
<1>1. /\ deviceChunks[d] \in Nat /\ deviceChunks[d] <= deviceChunks[d]
      /\ deviceChunks' = [deviceChunks EXCEPT ![d] = deviceChunks[d]]
  BY DEF ProvisioningInv, DeviceOK
<1> QED
  BY <1>1, DeviceMoves

\* What a step finds of the device that takes it.
LEMMA DeviceFound ==
  ASSUME ProvisioningInv, NEW d \in Devices
  PROVE  LET done == DeviceDone(deviceChunks[d]) IN
         /\ done \in BOOLEAN /\ deviceChunks[d] \in Nat
         /\ WellFormed(deviceEp[d], P!Payloads, done)
         /\ ~ deviceEp[d].closing => Reads(deviceEp[d])
         /\ d \in addresses => deviceEp[d].websocket /\ Told(deviceEp[d].sent)
         /\ d \in provisioningDone => Provisioned(deviceEp[d].sent)
  BY DEF ProvisioningInv, DeviceOK, DeviceDone

\* The new device and its connection, and Server.c
LEMMA ProvisioningEnvironment ==
  ASSUME ProvisioningInv, NEW d \in Devices,
         \/ \E payload \in P!Payloads : P!ClientChunk(d, payload)
         \/ P!ClientClose(d) \/ P!Drop(d) \/ P!Connection(d) \/ P!Server(d)
  PROVE  ProvisioningInv'
<1> DEFINE e == deviceEp[d]
           n == deviceChunks[d]
           done == DeviceDone(n)
           Pay == P!Payloads
<1>1. /\ done \in BOOLEAN /\ n \in Nat /\ WellFormed(e, Pay, done)
      /\ ~ e.closing => Reads(e)
  BY DeviceFound
<1>2. CASE \E payload \in P!Payloads : P!ClientChunk(d, payload)
  <2>1. PICK payload \in Pay : P!ClientChunk(d, payload)
    BY <1>2
  <2> DEFINE f == ClientSends(e, Frame(payload))
  <2>2. /\ n < MaxDeviceChunks
        /\ deviceChunks' = [deviceChunks EXCEPT ![d] = n + 1]
        /\ deviceEp' = [deviceEp EXCEPT ![d] = f]
        /\ UNCHANGED <<addresses, provisioningDone, callouts>>
    BY <2>1, ProvisioningOperators DEF P!ClientChunk, P!Becomes
  <2>3. /\ done = FALSE /\ DeviceDone(n + 1) = FALSE
        /\ n + 1 \in Nat /\ n <= n + 1
    BY <1>1, <2>2, BoundIsNat DEF DeviceDone
  <2>4. Frame(payload) \in Frames(Pay) /\ Frame(payload).opcode # "CLOSE"
    BY DEF Frame, Frames, Opcodes
  <2>5. /\ WellFormed(f, Pay, FALSE) /\ Keeps(e, f)
        /\ f.closing = e.closing /\ (Reads(e) => Reads(f))
    BY <1>1, <2>3, <2>4, ClientSendsOK
  <2> HIDE DEF f
  <2>6. ~ f.closing => Reads(f)
    BY <1>1, <2>5
  <2> QED
    BY <2>2, <2>3, <2>5, <2>6, DeviceMoves
<1>3. CASE P!ClientClose(d)
  <2> DEFINE f == ClientSends(e, CloseFrame)
             m == MaxDeviceChunks + 1
  <2>1. /\ n <= MaxDeviceChunks
        /\ deviceChunks' = [deviceChunks EXCEPT ![d] = m]
        /\ deviceEp' = [deviceEp EXCEPT ![d] = f]
        /\ UNCHANGED <<addresses, provisioningDone, callouts>>
    BY <1>3, ProvisioningOperators DEF P!ClientClose, P!Becomes
  <2>2. done = FALSE /\ DeviceDone(m) = TRUE /\ m \in Nat /\ n <= m
    BY <1>1, <2>1, BoundIsNat DEF DeviceDone
  <2>3. CloseFrame \in Frames(Pay)
    BY DEF CloseFrame, Status, Frames, Opcodes
  <2>4. /\ WellFormed(f, Pay, TRUE) /\ Keeps(e, f)
        /\ f.closing = e.closing /\ (Reads(e) => Reads(f))
    BY <1>1, <2>2, <2>3, ClientSendsOK
  <2> HIDE DEF f, m
  <2>5. ~ f.closing => Reads(f)
    BY <1>1, <2>4
  <2> QED
    BY <2>1, <2>2, <2>4, <2>5, DeviceMoves
<1>4. CASE P!Drop(d)
  <2> DEFINE f == Ended(e)
  <2>1. /\ deviceEp' = [deviceEp EXCEPT ![d] = f]
        /\ UNCHANGED <<addresses, provisioningDone, callouts, deviceChunks>>
    BY <1>4, ProvisioningOperators DEF P!Drop, P!Becomes
  <2>2. /\ WellFormed(f, Pay, done) /\ Keeps(e, f) /\ f.closing = e.closing /\ Reads(f)
    BY <1>1, EndedOK
  <2> HIDE DEF f
  <2> QED
    BY <2>1, <2>2, DeviceMovesAlone
<1>5. CASE P!Connection(d)
  <2>1. PICK f \in Transfers(e) : deviceEp' = [deviceEp EXCEPT ![d] = f]
    BY <1>5, ProvisioningHandlers DEF P!Connection, P!Becomes
  <2>2. UNCHANGED <<addresses, provisioningDone, callouts, deviceChunks>>
    BY <1>5 DEF P!Connection
  <2>3. /\ WellFormed(f, Pay, done) /\ Keeps(e, f) /\ f.closing = e.closing
        /\ Reads(e) => Reads(f)
    BY <1>1, TransferOK
  <2> QED
    BY <1>1, <2>1, <2>2, <2>3, DeviceMovesAlone
<1>6. CASE P!Server(d)
  <2> DEFINE f == Handled(e)
  <2>1. /\ IsServerEvent(e) /\ deviceEp' = [deviceEp EXCEPT ![d] = f]
        /\ UNCHANGED <<addresses, provisioningDone, callouts, deviceChunks>>
    BY <1>6, ProvisioningHandlers DEF P!Server, P!Becomes
  <2>2. /\ WellFormed(f, Pay, done) /\ Keeps(e, f)
        /\ f.closing => e.closing \/ e.opcode = "CLOSE"
        /\ Reads(e) => Reads(f)
    BY <1>1, <2>1, HandledOK
  <2> HIDE DEF f
  <2>3. ~ f.closing => Reads(f)
    BY <1>1, <2>2 DEF Keeps
  <2> QED
    BY <2>1, <2>2, <2>3, DeviceMovesAlone
<1> QED
  BY <1>2, <1>3, <1>4, <1>5, <1>6

\* getWebsocketProvisioning(): refused, or upgraded and told the address
LEMMA ProvisioningUpgrade ==
  ASSUME ProvisioningInv, NEW d \in Devices,
         P!Refuse(d) \/ P!GetWebsocketProvisioning(d)
  PROVE  ProvisioningInv'
<1> DEFINE e == deviceEp[d]
           n == deviceChunks[d]
           done == DeviceDone(n)
           Pay == P!Payloads
<1>1. /\ done \in BOOLEAN /\ n \in Nat /\ WellFormed(e, Pay, done)
      /\ ~ e.websocket /\ ~ e.closing /\ e.output \in BOOLEAN
      /\ d \notin addresses /\ (d \in provisioningDone => Provisioned(e.sent))
  BY DeviceFound DEF P!Refuse, P!GetWebsocketProvisioning, WellFormed, Closed, WsTyped
<1>2. CASE P!Refuse(d)
  <2> DEFINE chunk == [type |-> "400"]
             g == Sent(e, chunk, e.output)
             f == Ended(g)
  <2>1. chunk # Closing
    BY DEF Closing
  <2>2. g = [e EXCEPT !.sent = Append(@, chunk)]
    BY <1>1 DEF Sent, WellFormed, WsTyped, Fields
  <2>3. /\ deviceEp' = [deviceEp EXCEPT ![d] = f]
        /\ UNCHANGED <<addresses, provisioningDone, callouts, deviceChunks>>
    BY <1>2, <2>2, ProvisioningOperators DEF P!Refuse, P!Becomes
  <2> HIDE DEF chunk
  <2>4. Gave(e, chunk, g, Pay, done)
    BY <1>1, <2>1, SendsOK
  <2>5. WellFormed(g, Pay, done) /\ Keeps(e, g) /\ g.closing = e.closing
    BY <2>4 DEF Gave
  <2> HIDE DEF g
  <2>6. WellFormed(f, Pay, done) /\ Keeps(g, f) /\ f.closing = g.closing /\ Reads(f)
    BY <1>1, <2>5, EndedOK
  <2> HIDE DEF f
  <2>7. Keeps(e, f)
    BY <2>5, <2>6 DEF Keeps
  <2> QED
    BY <1>1, <2>3, <2>5, <2>6, <2>7, DeviceMovesAlone
<1>3. CASE P!GetWebsocketProvisioning(d)
  <2> DEFINE chunk == [type |-> "address"]
             g == UpgradeToWebSocket(e)
             f == SendChunk(g, chunk)
  <2>1. chunk # Closing
    BY DEF Closing
  <2>2. /\ deviceEp' = [deviceEp EXCEPT ![d] = f] /\ addresses' = addresses \cup {d}
        /\ UNCHANGED <<provisioningDone, callouts, deviceChunks>>
    BY <1>3, ProvisioningOperators DEF P!GetWebsocketProvisioning, P!Becomes
  <2>3. WellFormed(g, Pay, done) /\ Keeps(e, g) /\ g.websocket /\ ~ g.closing /\ Reads(g)
    BY <1>1, UpgradeOK
  <2> HIDE DEF g
  <2>4. Gave(g, chunk, f, Pay, done)
    BY <1>1, <2>1, <2>3, SendChunkOK
  <2> HIDE DEF f
  <2>5. Told(f.sent)
    BY <2>4 DEF Gave, IsBehind, Told
  <2>6. /\ WellFormed(f, Pay, done) /\ Keeps(g, f) /\ f.websocket /\ ~ f.closing /\ Reads(f)
    BY <2>3, <2>4 DEF Gave
  <2>7. Keeps(e, f)
    BY <2>3, <2>6 DEF Keeps
  <2>8. d \in provisioningDone => Provisioned(f.sent)
    BY <1>1, <2>7, SentStays
  <2>9. DeviceOK(d, f, n, addresses', provisioningDone')
    BY <1>1, <2>2, <2>5, <2>6, <2>8 DEF DeviceOK
  <2>10. deviceChunks' = [deviceChunks EXCEPT ![d] = n]
    BY <2>2 DEF ProvisioningInv
  <2> QED
    BY <2>2, <2>9, <2>10, OneDeviceMoves
<1> QED
  BY <1>2, <1>3

\* putProvisioning(): a message is queued only for an address that was told.
LEMMA ProvisioningPut ==
  ASSUME ProvisioningInv, NEW a \in Devices, NEW m \in Messages, P!PutProvisioning(a, m)
  PROVE  ProvisioningInv'
<1>1. /\ \/ callouts' = callouts
         \/ a \in addresses /\ callouts' = callouts \cup {[to |-> a, message |-> m]}
      /\ UNCHANGED <<deviceEp, provisioningDone, addresses, deviceChunks>>
  BY DEF P!PutProvisioning, P!HasEndpoint
<1> QED
  BY <1>1 DEF ProvisioningInv

\* provisioningMessage(): the message follows the address.
LEMMA ProvisioningMessageSent ==
  ASSUME ProvisioningInv, NEW d \in Devices, NEW c \in callouts, c.to = d,
         P!ProvisioningMessage(c)
  PROVE  ProvisioningInv'
<1> DEFINE e == deviceEp[d]
           n == deviceChunks[d]
           done == DeviceDone(n)
           Pay == P!Payloads
           chunk == [type |-> "message", message |-> c.message]
           f == SendChunk(e, chunk)
<1>1. /\ done \in BOOLEAN /\ n \in Nat /\ WellFormed(e, Pay, done)
      /\ ~ e.closing => Reads(e)
      /\ e.websocket /\ Told(e.sent) /\ d \in addresses
  BY DeviceFound DEF ProvisioningInv
<1>2. /\ callouts' \subseteq callouts
      /\ \/ UNCHANGED <<deviceEp, provisioningDone>>
         \/ /\ CanSendChunk(e) /\ deviceEp' = [deviceEp EXCEPT ![d] = f]
            /\ provisioningDone' = provisioningDone \cup {d}
      /\ UNCHANGED <<addresses, deviceChunks>>
  BY ProvisioningOperators DEF P!ProvisioningMessage, P!Becomes
<1>3. chunk.type = "message" /\ Closing.type = "close"
  BY DEF Closing
<1>4. chunk # Closing
  BY <1>3
<1> HIDE DEF chunk
<1>5. CASE UNCHANGED <<deviceEp, provisioningDone>>
  BY <1>2, <1>5 DEF ProvisioningInv
<1>6. CASE /\ CanSendChunk(e) /\ deviceEp' = [deviceEp EXCEPT ![d] = f]
           /\ provisioningDone' = provisioningDone \cup {d}
  <2>1. ~ e.closing
    BY <1>6 DEF CanSendChunk
  <2>2. Gave(e, chunk, f, Pay, done)
    BY <1>1, <1>4, <2>1, SendChunkOK
  <2> HIDE DEF f
  <2>3. /\ WellFormed(f, Pay, done) /\ Keeps(e, f) /\ f.websocket /\ ~ f.closing /\ Reads(f)
        /\ IsBehind(chunk, e.sent, f.sent)
    BY <1>1, <2>1, <2>2 DEF Gave
  <2>4. Told(f.sent)
    BY <1>1, <2>3, SentStays
  <2>5. Provisioned(f.sent)
    <3>1. PICK i \in DOMAIN e.sent : e.sent[i].type = "address"
      BY <1>1 DEF Told
    <3>2. PICK j \in DOMAIN f.sent : f.sent[j] = chunk /\ \A k \in DOMAIN e.sent : k < j
      BY <2>3 DEF IsBehind
    <3>3. i \in DOMAIN f.sent /\ f.sent[i].type = "address" /\ i < j
      BY <2>3, <3>1, <3>2 DEF Keeps
    <3> QED
      BY <1>3, <3>2, <3>3 DEF Provisioned
  <2>6. DeviceOK(d, f, n, addresses', provisioningDone')
    BY <1>1, <1>2, <2>3, <2>4, <2>5 DEF DeviceOK
  <2>7. deviceChunks' = [deviceChunks EXCEPT ![d] = n]
    BY <1>2 DEF ProvisioningInv
  <2> QED
    BY <1>2, <1>6, <2>6, <2>7, OneDeviceMoves
<1> QED
  BY <1>2, <1>5, <1>6

\* The server handles what the device sends: a request, which it does not answer on a
\* WebSocket that is closing, or a response, which closes it after a message.
LEMMA ProvisioningChunk ==
  ASSUME ProvisioningInv, NEW d \in Devices,
         P!ReceiveWsRequest(d) \/ P!ChatReceiveResponse(d)
  PROVE  ProvisioningInv'
<1> DEFINE e == deviceEp[d]
           done == DeviceDone(deviceChunks[d])
           Pay == P!Payloads
           g == Taken(e)
           answer == [type |-> "answer"]
           h == SendChunk(g, answer)
           r == ReceiveClose(e)
<1>1. /\ IsChunk(e)
      /\ UNCHANGED <<addresses, provisioningDone, callouts, deviceChunks>>
      /\ \/ CanSendChunk(g) /\ deviceEp' = [deviceEp EXCEPT ![d] = ExpectWsFrame(h)]
         \/ ~ CanSendChunk(g) /\ deviceEp' = [deviceEp EXCEPT ![d] = g]
         \/ d \in provisioningDone /\ deviceEp' = [deviceEp EXCEPT ![d] = r]
         \/ deviceEp' = [deviceEp EXCEPT ![d] = ExpectWsFrame(g)]
  <2>1. CASE P!ReceiveWsRequest(d)
    BY <2>1, ProvisioningOperators DEF P!ReceiveWsRequest, P!Becomes
  <2>2. CASE P!ChatReceiveResponse(d)
    <3>1. /\ IsChunk(e)
          /\ UNCHANGED <<addresses, provisioningDone, callouts, deviceChunks>>
          /\ deviceEp' = [deviceEp EXCEPT ![d] = IF d \in provisioningDone THEN r
                                                 ELSE ExpectWsFrame(g)]
      BY <2>2, ProvisioningOperators, ProvisioningHandlers
      DEF P!ChatReceiveResponse, P!Becomes
    <3> QED
      BY <3>1
  <2> QED
    BY <2>1, <2>2
<1>2. /\ done \in BOOLEAN /\ WellFormed(e, Pay, done)
      /\ NextIs(e, "chunk") /\ e.inbox # <<>> /\ Head(e.inbox).type = "chunk"
  BY <1>1, DeviceFound DEF IsChunk, NextIs
<1>3. /\ WellFormed(g, Pay, done) /\ Keeps(e, g) /\ g.closing = e.closing
      /\ g.websocket /\ g.reading = "none" /\ ~ Waits(g.inbox, "chunk")
  <2>1. Took(e, Head(e.inbox), g, Pay, done)
    BY <1>2, TakenOK
  <2> QED
    BY <1>2, <2>1 DEF Took
<1>4. answer # Closing
  BY DEF Closing
<1> HIDE DEF g, answer
<1>5. CASE CanSendChunk(g) /\ deviceEp' = [deviceEp EXCEPT ![d] = ExpectWsFrame(h)]
  <2> DEFINE f == ExpectWsFrame(h)
  <2>1. ~ g.closing
    BY <1>5 DEF CanSendChunk
  <2>2. Gave(g, answer, h, Pay, done)
    BY <1>2, <1>3, <1>4, <2>1, SendChunkOK
  <2> HIDE DEF h
  <2>3. /\ WellFormed(h, Pay, done) /\ Keeps(g, h) /\ h.closing = g.closing
        /\ h.websocket /\ h.reading = "none" /\ ~ Waits(h.inbox, "chunk")
    BY <1>3, <2>2 DEF Gave
  <2>4. WellFormed(f, Pay, done) /\ Keeps(h, f) /\ f.closing = h.closing /\ Reads(f)
    BY <1>2, <2>3, ExpectWsFrameOK
  <2>5. deviceEp' = [deviceEp EXCEPT ![d] = f]
    BY <1>5
  <2> HIDE DEF f
  <2>6. Keeps(e, f) /\ f.closing = e.closing
    BY <1>3, <2>3, <2>4 DEF Keeps
  <2> QED
    BY <1>1, <2>4, <2>5, <2>6, DeviceMovesAlone
<1>6. CASE ~ CanSendChunk(g) /\ deviceEp' = [deviceEp EXCEPT ![d] = g]
  <2>1. ~ g.closing => Reads(g)
    BY <1>3, <1>6 DEF CanSendChunk, Reads
  <2> QED
    BY <1>1, <1>3, <1>6, <2>1, DeviceMovesAlone
<1>7. CASE d \in provisioningDone /\ deviceEp' = [deviceEp EXCEPT ![d] = r]
  <2>1. WellFormed(r, Pay, done) /\ Keeps(e, r) /\ r.closing
    BY <1>2, ReceiveCloseOK
  <2> HIDE DEF r
  <2> QED
    BY <1>1, <1>7, <2>1, DeviceMovesAlone
<1>8. CASE deviceEp' = [deviceEp EXCEPT ![d] = ExpectWsFrame(g)]
  <2> DEFINE f == ExpectWsFrame(g)
  <2>1. WellFormed(f, Pay, done) /\ Keeps(g, f) /\ f.closing = g.closing /\ Reads(f)
    BY <1>2, <1>3, ExpectWsFrameOK
  <2>2. deviceEp' = [deviceEp EXCEPT ![d] = f]
    BY <1>8
  <2> HIDE DEF f
  <2>3. Keeps(e, f) /\ f.closing = e.closing
    BY <1>3, <2>1 DEF Keeps
  <2> QED
    BY <1>1, <2>1, <2>2, <2>3, DeviceMovesAlone
<1> QED
  BY <1>1, <1>5, <1>6, <1>7, <1>8

\* Every step of a provisioning
LEMMA ProvisioningStep == ASSUME ProvisioningInv, P!Next PROVE ProvisioningInv'
<1>1. ASSUME NEW d \in Devices, P!Client(d) \/ P!Connection(d) \/ P!Tasks(d)
      PROVE  ProvisioningInv'
  <2>1. CASE \/ \E payload \in P!Payloads : P!ClientChunk(d, payload)
             \/ P!ClientClose(d) \/ P!Drop(d) \/ P!Connection(d) \/ P!Server(d)
    BY <2>1, ProvisioningEnvironment
  <2>2. CASE P!Refuse(d) \/ P!GetWebsocketProvisioning(d)
    BY <2>2, ProvisioningUpgrade
  <2>3. CASE P!ReceiveWsRequest(d) \/ P!ChatReceiveResponse(d)
    BY <2>3, ProvisioningChunk
  <2>4. CASE \E c \in callouts : c.to = d /\ P!ProvisioningMessage(c)
    BY <2>4, ProvisioningMessageSent
  <2> QED
    BY <1>1, <2>1, <2>2, <2>3, <2>4 DEF P!Client, P!Tasks
<1>2. CASE \E d \in Devices, m \in Messages : P!PutProvisioning(d, m)
  BY <1>2, ProvisioningPut
<1> QED
  BY <1>1, <1>2 DEF P!Next

(***************************************************************************)
(* The results of a look-up, which sendClientResponse() puts together      *)
(***************************************************************************)

\* A set of numbers that is not empty has a least element.
LEMMA HasLeast ==
  ASSUME NEW S, S \subseteq Nat, S # {}
  PROVE  \E m \in S : \A n \in S : m <= n
<1>1. PICK m \in S : \A n \in S : ~ (<<n, m>> \in OpToRel(<, Nat))
  BY NatLessThanWellFounded, WFMin, Zenon
<1>2. \A n \in S : ~ (n < m)
  BY <1>1 DEF OpToRel
<1> QED
  BY <1>2

\* sendClientResponse() puts all blocks of the results together again, whatever the
\* size of a block is.
LEMMA BlocksAreAll ==
  ASSUME NEW S, NEW results \in Seq(S)
  PROVE  D!Triples(results) = results
<1> DEFINE n == Len(results)
           g == [i \in Nat |-> SubSeq(results, i + 1, n)]
           G(h) == [i \in Nat |->
                      IF i + BlockSize < Len(results)
                      THEN SubSeq(results, i + 1, i + BlockSize) \o h[i + BlockSize]
                      ELSE SubSeq(results, i + 1, Len(results))]
           f == CHOOSE h : h = G(h)
<1>1. D!Triples(results) = f[0]
  BY DEF D!Triples
<1>2. n \in Nat /\ BlockSize \in Nat \ {0}
  BY SizesAssumption, LenProperties
<1>3. ASSUME NEW i \in Nat, i + BlockSize < n
      PROVE  SubSeq(results, i + 1, i + BlockSize) \o SubSeq(results, i + BlockSize + 1, n)
             = SubSeq(results, i + 1, n)
  <2> DEFINE m == i + 1
             k == i + BlockSize
  <2>1. m \in 1..(Len(results) + 1) /\ k \in (m - 1)..Len(results)
        /\ Len(results) \in k..Len(results)
    BY <1>2, <1>3
  <2> HIDE DEF m, k
  <2>2. SubSeq(results, m, k) \o SubSeq(results, k + 1, Len(results))
        = SubSeq(results, m, Len(results))
    BY <2>1, ConcatAdjacentSubSeq
  <2> QED
    BY <2>2 DEF m, k
<1>4. g = G(g)
  <2>1. \A i \in Nat : i + BlockSize < n =>
          i + BlockSize \in Nat /\ g[i + BlockSize] = SubSeq(results, i + BlockSize + 1, n)
    BY <1>2
  <2> HIDE DEF n
  <2>2. \A i \in Nat : g[i] = G(g)[i]
    BY <1>3, <2>1 DEF n
  <2> QED
    BY <2>2 DEF n
<1>5. f = G(f)
  <2> HIDE DEF G, g
  <2> QED
    BY <1>4
<1>6. \A i \in Nat : f[i] = IF i + BlockSize < n
                            THEN SubSeq(results, i + 1, i + BlockSize) \o f[i + BlockSize]
                            ELSE SubSeq(results, i + 1, n)
  <2>1. \A i \in Nat : G(f)[i] = IF i + BlockSize < n
                            THEN SubSeq(results, i + 1, i + BlockSize) \o f[i + BlockSize]
                            ELSE SubSeq(results, i + 1, n)
    <3> HIDE DEF f
    <3> QED
      OBVIOUS
  <2> HIDE DEF f, G
  <2> QED
    BY <1>5, <2>1
<1> HIDE DEF f, G
<1> DEFINE Bad == {k \in Nat : k <= n /\ f[n - k] # g[n - k]}
<1>7. ASSUME Bad # {} PROVE FALSE
  <2>1. PICK k \in Bad : \A j \in Bad : k <= j
    <3>1. Bad \subseteq Nat
      OBVIOUS
    <3> HIDE DEF Bad
    <3> QED
      BY <1>7, <3>1, HasLeast
  <2> DEFINE i == n - k
  <2>2. i \in Nat /\ k \in Nat /\ k <= n /\ f[i] # g[i]
    BY <1>2, <2>1
  <2>3. CASE i + BlockSize < n
    <3>1. k - BlockSize \in Nat /\ k - BlockSize <= n /\ ~ (k <= k - BlockSize)
          /\ n - (k - BlockSize) = i + BlockSize
      BY <1>2, <2>2, <2>3
    <3>2. k - BlockSize \notin Bad
      BY <2>1, <3>1
    <3>3. f[i + BlockSize] = g[i + BlockSize]
      BY <3>1, <3>2
    <3>4. g[i + BlockSize] = SubSeq(results, i + BlockSize + 1, n)
          /\ g[i] = SubSeq(results, i + 1, n)
      <4>1. i + BlockSize \in Nat
        BY <1>2, <2>2
      <4> HIDE DEF i, n
      <4> QED
        BY <2>2, <4>1
    <3> HIDE DEF g, i
    <3> QED
      BY <1>3, <1>6, <2>2, <2>3, <3>3, <3>4
  <2>4. CASE ~ (i + BlockSize < n)
    <3>1. g[i] = SubSeq(results, i + 1, n)
      BY <2>2
    <3> HIDE DEF g, i, n
    <3> QED
      BY <1>6, <2>2, <2>4, <3>1
  <2> QED
    BY <2>3, <2>4
<1>8. f[0] = g[0]
  <2>1. n \notin Bad
    BY <1>7
  <2>2. n <= n /\ n - n = 0
    BY <1>2
  <2> HIDE DEF g
  <2> QED
    BY <1>2, <2>1, <2>2
<1>9. g[0] = SubSeq(results, 1, n)
  OBVIOUS
<1> QED
  BY <1>1, <1>8, <1>9, SubSeqFull

(***************************************************************************)
(* What is sent by the operators of WebSocket                              *)
(***************************************************************************)

\* An endpoint, of whatever type its fields are.
IsEndpoint(e) == e = [f \in Fields |-> e[f]]

\* What was sent, and a close frame if at all.
MaySendClose(e, f) == f.sent = e.sent \/ f.sent = Append(e.sent, Closing)

\* The client and the connection send nothing for the server.
LEMMA SentByOthers ==
  ASSUME NEW e, IsEndpoint(e)
  PROVE  /\ \A frame : ClientSends(e, frame).sent = e.sent
         /\ IsEndpoint(Ended(e)) /\ Ended(e).sent = e.sent
         /\ \A f \in Transfers(e) : f.sent = e.sent
         /\ IsEndpoint(Taken(e)) /\ Taken(e).sent = e.sent
         /\ ExpectWsFrame(e).sent = e.sent
<1>1. /\ \A frame : ClientSends(e, frame).sent = e.sent
      /\ IsEndpoint(Ended(e)) /\ Ended(e).sent = e.sent
      /\ IsEndpoint(Taken(e)) /\ Taken(e).sent = e.sent
      /\ ExpectWsFrame(e).sent = e.sent
  BY DEF IsEndpoint, Fields, ClientSends, Ended, Taken, ExpectWsFrame
<1>2. /\ ReadFrame(e).sent = e.sent /\ ReadPayload(e).sent = e.sent /\ Flush(e).sent = e.sent
  BY DEF IsEndpoint, Fields, ReadFrame, ReadPayload, Flush
<1> QED
  BY <1>1, <1>2 DEF Transfers

\* sendChunk(), sendClose() and upgradeToWebSocket() send one chunk each.
LEMMA SentByServer ==
  ASSUME NEW e, IsEndpoint(e)
  PROVE  /\ \A chunk : /\ IsEndpoint(SendChunk(e, chunk))
                       /\ SendChunk(e, chunk).sent = Append(e.sent, chunk)
         /\ IsEndpoint(SendClose(e)) /\ MaySendClose(e, SendClose(e))
         /\ UpgradeToWebSocket(e).sent = Append(e.sent, [type |-> "101"])
<1>1. \A chunk : /\ IsEndpoint(SendChunk(e, chunk))
                 /\ SendChunk(e, chunk).sent = Append(e.sent, chunk)
  BY DEF IsEndpoint, Fields, SendChunk, SendWsChunk
<1>2. IsEndpoint(SendClose(e)) /\ MaySendClose(e, SendClose(e))
  BY DEF IsEndpoint, Fields, SendClose, SendWsChunk, MaySendClose
<1>3. UpgradeToWebSocket(e).sent = Append(e.sent, [type |-> "101"])
  BY DEF IsEndpoint, Fields, UpgradeToWebSocket, ExpectWsFrame
<1> QED
  BY <1>1, <1>2, <1>3

\* Server.c sends a close frame by itself, and nothing else.
LEMMA SentByItself ==
  ASSUME NEW e, IsEndpoint(e)
  PROVE  MaySendClose(e, ReceiveClose(e)) /\ MaySendClose(e, Handled(e))
<1> DEFINE t == Taken(e)
           c == SendClose(t)
<1>1. IsEndpoint(t) /\ t.sent = e.sent /\ Ended(t).sent = e.sent
  BY SentByOthers
<1>2. ReceiveWsFrame(e).sent = e.sent /\ Disconnected(e).sent = e.sent
  <2>1. [t EXCEPT !.opcode = Head(e.inbox).opcode].sent = t.sent
        /\ [t EXCEPT !.alive = FALSE, !.inbox = <<>>].sent = t.sent
    <3> HIDE DEF t
    <3> QED
      BY <1>1 DEF IsEndpoint, Fields
  <2> QED
    BY <1>1, <2>1 DEF ReceiveWsFrame, Disconnected
<1>3. DoneChunk(e).sent = e.sent
  <2> DoneChunk(e) = Ended(t) \/ DoneChunk(e) = t
    BY DEF DoneChunk
  <2> QED
    BY <1>1
<1>4. MaySendClose(e, ReceiveClose(e))
  <2>1. ReceiveClose(e) = ExpectWsFrame(c) \/ ReceiveClose(e) = c
    BY DEF ReceiveClose
  <2> HIDE DEF t
  <2>2. IsEndpoint(c) /\ MaySendClose(t, c)
    BY <1>1, SentByServer
  <2> HIDE DEF c
  <2>3. ExpectWsFrame(c).sent = c.sent
    BY <2>2, SentByOthers
  <2> QED
    BY <1>1, <2>1, <2>2, <2>3 DEF MaySendClose
<1>5. Handled(e) \in {ReceiveWsFrame(e), DoneChunk(e), Disconnected(e), ReceiveClose(e)}
  BY DEF Handled
<1> QED
  BY <1>2, <1>3, <1>4, <1>5 DEF MaySendClose

(***************************************************************************)
(* Headers and contents of frames                                          *)
(***************************************************************************)

IsStatus(event) == event.type = "chunk" /\ event.payload = Status

\* The contents of a close frame come with its header: they are not taken for a chunk.
\* Nothing is read from a connection that has ended.
Paired(e) ==
  /\ e.conn # "up" => e.reading = "none"
  /\ \A i \in DOMAIN e.stream : e.stream[i].payload = Status => e.stream[i].opcode = "CLOSE"
  /\ e.reading = "payload" /\ e.stream[1].opcode = "CLOSE" =>
       e.opcode = "CLOSE" \/ CloseWaits(e.inbox)
  /\ \A i \in DOMAIN e.inbox : IsStatus(e.inbox[i]) =>
       e.opcode = "CLOSE" \/ \E j \in DOMAIN e.inbox : j < i /\ IsCloseHeader(e.inbox[j])

\* What an operator leaves alone that takes, reads and reports nothing.
SameInput(e, f) ==
  /\ f.stream = e.stream /\ f.inbox = e.inbox /\ f.opcode = e.opcode /\ f.conn = e.conn
  /\ f.reading = e.reading \/ (f.reading = "frame" /\ e.conn = "up")

\* Such an operator keeps headers and contents paired.
LEMMA PairedSame ==
  ASSUME NEW e, NEW f, Paired(e), SameInput(e, f)
  PROVE  Paired(f)
BY DEF Paired, SameInput

\* An event is reported.
LEMMA PairedReport ==
  ASSUME NEW Pay, NEW e, NEW f, Paired(e), e.inbox \in Seq(WsEvents(Pay)),
         NEW x \in WsEvents(Pay), f.inbox = Append(e.inbox, x), f.opcode = e.opcode,
         \A i \in DOMAIN f.stream :
            f.stream[i].payload = Status => f.stream[i].opcode = "CLOSE",
         f.conn # "up" => f.reading = "none",
         f.reading = "payload" /\ f.stream[1].opcode = "CLOSE" =>
           \/ e.reading = "payload" /\ e.stream[1].opcode = "CLOSE"
           \/ IsCloseHeader(x),
         IsStatus(x) => e.opcode = "CLOSE" \/ CloseWaits(e.inbox)
  PROVE  Paired(f)
<1> DEFINE s == e.inbox
           t == f.inbox
<1>1. /\ Len(s) \in Nat /\ DOMAIN s = 1..Len(s) /\ DOMAIN t = 1..(Len(s) + 1)
      /\ \A i \in DOMAIN s : t[i] = s[i]
      /\ t[Len(s) + 1] = x
  BY OneAppended
<1>2. CloseWaits(s) \/ IsCloseHeader(x) => CloseWaits(t)
  BY EventAppended DEF Reported
<1> HIDE DEF s, t, IsStatus, IsCloseHeader
<1>3. ASSUME NEW i \in DOMAIN t, IsStatus(t[i]), f.opcode # "CLOSE"
      PROVE  \E j \in DOMAIN t : j < i /\ IsCloseHeader(t[j])
  <2>1. CASE i \in DOMAIN s
    <3>1. PICK j \in DOMAIN s : j < i /\ IsCloseHeader(s[j])
      BY <1>1, <1>3, <2>1 DEF Paired, s
    <3>2. j \in DOMAIN t /\ t[j] = s[j]
      BY <1>1
    <3> QED
      BY <3>1, <3>2
  <2>2. CASE i \notin DOMAIN s
    <3>1. i = Len(s) + 1 /\ IsStatus(x)
      BY <1>1, <1>3, <2>2
    <3>2. PICK j \in DOMAIN s : IsCloseHeader(s[j])
      BY <1>3, <3>1 DEF CloseWaits, s
    <3>3. j \in DOMAIN t /\ t[j] = s[j] /\ j < i
      BY <1>1, <3>1
    <3> QED
      BY <3>2, <3>3
  <2> QED
    BY <2>1, <2>2
<1> QED
  BY <1>2, <1>3 DEF Paired, s, t

\* The client sends a frame.
LEMMA PairedClient ==
  ASSUME NEW Pay, NEW e, NEW done, WellFormed(e, Pay, done), Paired(e),
         NEW frame \in Frames(Pay), frame.payload = Status => frame.opcode = "CLOSE"
  PROVE  Paired(ClientSends(e, frame))
<1> DEFINE f == ClientSends(e, frame)
           s == e.stream
           t == f.stream
<1>1. /\ t = Append(s, frame) /\ f.inbox = e.inbox /\ f.opcode = e.opcode
      /\ f.reading = e.reading /\ f.conn = e.conn /\ s \in Seq(Frames(Pay))
      /\ e.reading = "payload" => s # <<>>
  BY DEF WellFormed, WsTyped, Fields, ClientSends, ReadsInTurn
<1>2. /\ Len(s) \in Nat /\ DOMAIN s = 1..Len(s) /\ DOMAIN t = 1..(Len(s) + 1)
      /\ \A i \in DOMAIN s : t[i] = s[i]
      /\ t[Len(s) + 1] = frame
  BY <1>1, OneAppended
<1>3. e.reading = "payload" => t[1] = s[1]
  BY <1>1, <1>2, EmptySeq
<1> HIDE DEF f
<1>4. \A i \in DOMAIN t : t[i].payload = Status => t[i].opcode = "CLOSE"
  <2>1. \A i \in DOMAIN s : s[i].payload = Status => s[i].opcode = "CLOSE"
    BY DEF Paired
  <2> HIDE DEF s, t
  <2> QED
    BY <1>2, <2>1
<1> QED
  BY <1>1, <1>3, <1>4 DEF Paired, f

\* The connection ends.
LEMMA PairedEnded ==
  ASSUME NEW Pay, NEW e, NEW done, WellFormed(e, Pay, done), Paired(e)
  PROVE  Paired(Ended(e))
<1> DEFINE f == Ended(e)
           x == [type |-> "disconnected"]
<1>1. /\ f.inbox = Append(e.inbox, x) /\ f.opcode = e.opcode /\ f.reading = "none"
      /\ f.stream = <<>> /\ e.inbox \in Seq(WsEvents(Pay))
  BY DEF WellFormed, WsTyped, Fields, Ended
<1>2. x \in WsEvents(Pay) /\ ~ IsStatus(x)
  BY DEF WsEvents, IsStatus
<1> HIDE DEF f, x
<1> QED
  BY <1>1, <1>2, PairedReport DEF f

\* The connection reads a header, or contents, or reports what was sent.
LEMMA PairedTransfer ==
  ASSUME NEW Pay, NEW e, NEW done, WellFormed(e, Pay, done), Paired(e), NEW f \in Transfers(e)
  PROVE  Paired(f)
<1>1. /\ e = [y \in Fields |-> e[y]]
      /\ e.inbox \in Seq(WsEvents(Pay)) /\ e.stream \in Seq(Frames(Pay))
      /\ e.reading = "payload" => e.stream # <<>>
  BY DEF WellFormed, WsTyped, ReadsInTurn
<1>2. e.stream # <<>> => Head(e.stream) = e.stream[1] /\ Head(e.stream) \in Frames(Pay)
                         /\ 1 \in DOMAIN e.stream
  BY <1>1, Tailed
<1>3. \A i \in DOMAIN e.stream : e.stream[i].payload = Status => e.stream[i].opcode = "CLOSE"
  BY DEF Paired
<1>4. CASE CanReadFrame(e) /\ f = ReadFrame(e)
  <2> DEFINE h == Head(e.stream)
             x == [type |-> "frame", opcode |-> h.opcode]
  <2>1. f.inbox = Append(e.inbox, x) /\ f.opcode = e.opcode /\ f.stream = e.stream
         /\ f.conn = e.conn
    BY <1>1, <1>4 DEF Fields, ReadFrame
  <2>2. h = e.stream[1] /\ h \in Frames(Pay)
    BY <1>2, <1>4 DEF CanReadFrame
  <2>4. e.conn = "up"
    BY <1>4 DEF Paired, CanReadFrame
  <2>3. x \in WsEvents(Pay) /\ ~ IsStatus(x) /\ (h.opcode = "CLOSE" => IsCloseHeader(x))
    BY <2>2 DEF WsEvents, Frames, IsStatus, IsCloseHeader
  <2> HIDE DEF x
  <2> QED
    BY <1>1, <1>3, <2>1, <2>2, <2>3, <2>4, PairedReport
<1>5. CASE CanReadPayload(e) /\ f = ReadPayload(e)
  <2> DEFINE h == Head(e.stream)
             x == [type |-> "chunk", payload |-> h.payload]
  <2>1. /\ f.inbox = Append(e.inbox, x) /\ f.opcode = e.opcode /\ f.stream = Tail(e.stream)
        /\ f.reading = "none" /\ f.conn = e.conn
    BY <1>1, <1>5 DEF Fields, ReadPayload
  <2>2. h = e.stream[1] /\ h \in Frames(Pay) /\ 1 \in DOMAIN e.stream /\ e.stream # <<>>
    BY <1>1, <1>2, <1>5 DEF CanReadPayload
  <2>3. x \in WsEvents(Pay) /\ (IsStatus(x) => h.payload = Status)
    BY <2>2 DEF WsEvents, Frames, IsStatus
  <2> HIDE DEF x
  <2>4. IsStatus(x) => e.opcode = "CLOSE" \/ CloseWaits(e.inbox)
    BY <1>3, <1>5, <2>2, <2>3 DEF Paired, CanReadPayload
  <2>5. \A i \in DOMAIN f.stream : i + 1 \in DOMAIN e.stream /\ f.stream[i] = e.stream[i + 1]
    BY <1>1, <2>1, <2>2, Tailed
  <2>6. \A i \in DOMAIN f.stream : f.stream[i].payload = Status => f.stream[i].opcode = "CLOSE"
    BY <1>3, <2>5
  <2> QED
    BY <1>1, <2>1, <2>3, <2>4, <2>6, PairedReport
<1>6. CASE f = Flush(e)
  <2> DEFINE x == [type |-> "done"]
  <2>1. /\ f.inbox = Append(e.inbox, x) /\ f.opcode = e.opcode /\ f.stream = e.stream
        /\ f.reading = e.reading /\ f.conn = e.conn
    BY <1>1, <1>6 DEF Fields, Flush
  <2>2. x \in WsEvents(Pay) /\ ~ IsStatus(x)
    BY DEF WsEvents, IsStatus
  <2> HIDE DEF x
  <2> QED
    <3>1. f.conn # "up" => f.reading = "none"
      BY <2>1 DEF Paired
    <3> QED
      BY <1>1, <1>3, <2>1, <2>2, <3>1, PairedReport
<1> QED
  BY <1>4, <1>5, <1>6 DEF Transfers

\* An event is taken; the header of a close frame leaves its opcode.
LEMMA PairedTaken ==
  ASSUME NEW Pay, NEW e, NEW f, Paired(e), e.inbox \in Seq(WsEvents(Pay)), e.inbox # <<>>,
         f.inbox = Tail(e.inbox), f.stream = e.stream, f.reading = e.reading, f.conn = e.conn,
         IF IsCloseHeader(Head(e.inbox)) THEN f.opcode = "CLOSE"
         ELSE e.opcode = "CLOSE" => f.opcode = "CLOSE"
  PROVE  Paired(f)
<1> DEFINE s == e.inbox
           t == f.inbox
<1>1. /\ Head(s) = s[1] /\ Len(s) \in Nat \ {0} /\ DOMAIN s = 1..Len(s)
      /\ DOMAIN t = 1..(Len(s) - 1)
      /\ \A i \in DOMAIN t : i + 1 \in DOMAIN s /\ t[i] = s[i + 1]
  BY Tailed
<1>2. CloseWaits(s) => CloseWaits(t) \/ IsCloseHeader(Head(s))
  BY EventTaken DEF TakenFrom
<1>3. ASSUME NEW i \in DOMAIN t, IsStatus(t[i]), f.opcode # "CLOSE"
      PROVE  \E j \in DOMAIN t : j < i /\ IsCloseHeader(t[j])
  <2> HIDE DEF s, t, IsStatus, IsCloseHeader
  <2>1. i + 1 \in DOMAIN s /\ IsStatus(s[i + 1]) /\ ~ IsCloseHeader(s[1]) /\ e.opcode # "CLOSE"
    BY <1>1, <1>3 DEF s, t
  <2>2. PICK j \in DOMAIN s : j < i + 1 /\ IsCloseHeader(s[j])
    BY <2>1 DEF Paired, s
  <2>3. j # 1
    BY <2>1, <2>2
  <2>4. j - 1 \in DOMAIN t /\ j - 1 < i
    BY <1>1, <1>3, <2>2, <2>3
  <2>5. j - 1 + 1 = j
    BY <1>1
  <2>6. t[j - 1] = s[j]
    BY <1>1, <2>4, <2>5
  <2> QED
    BY <2>2, <2>4, <2>6
<1> HIDE DEF s, t
<1> QED
  BY <1>2, <1>3 DEF Paired, s, t

\* Server.c and the services: nothing that they send is mistaken for a frame.
LEMMA PairedSends ==
  ASSUME NEW e, IsEndpoint(e), Paired(e)
  PROVE  /\ \A chunk : Paired(SendChunk(e, chunk))
         /\ Paired(SendClose(e)) /\ Paired(ExpectWsFrame(e)) /\ Paired(UpgradeToWebSocket(e))
<1>1. /\ \A chunk : SameInput(e, SendChunk(e, chunk))
      /\ SameInput(e, SendClose(e))
  BY DEF IsEndpoint, Fields, SameInput, SendChunk, SendClose, SendWsChunk
<1>2. /\ SameInput(e, ExpectWsFrame(e))
      /\ SameInput(e, UpgradeToWebSocket(e))
  BY DEF IsEndpoint, Fields, SameInput, UpgradeToWebSocket, ExpectWsFrame
<1> QED
  BY <1>1, <1>2, PairedSame

\* A chunk that is handed to a service is not the contents of a close frame.
LEMMA PairedChunk ==
  ASSUME NEW Pay, NEW e, NEW done, WellFormed(e, Pay, done), Paired(e), NextIs(e, "chunk")
  PROVE  /\ IsEndpoint(Taken(e)) /\ Paired(Taken(e))
         /\ IsChunk(e) => Head(e.inbox).payload \in Pay
<1>1. /\ e = [y \in Fields |-> e[y]] /\ e.inbox \in Seq(WsEvents(Pay)) /\ e.inbox # <<>>
      /\ Head(e.inbox).type = "chunk"
  BY DEF WellFormed, WsTyped, NextIs
<1>2. Head(e.inbox) \in WsEvents(Pay) /\ Head(e.inbox) = e.inbox[1] /\ 1 \in DOMAIN e.inbox
      /\ \A j \in DOMAIN e.inbox : ~ (j < 1)
  BY <1>1, Tailed
<1>3. /\ IsEndpoint(Taken(e)) /\ Taken(e).inbox = Tail(e.inbox) /\ Taken(e).stream = e.stream
      /\ Taken(e).reading = e.reading /\ Taken(e).opcode = e.opcode /\ Taken(e).conn = e.conn
  BY <1>1 DEF IsEndpoint, Fields, Taken
<1>4. ~ IsCloseHeader(Head(e.inbox))
  BY <1>1 DEF IsCloseHeader
<1>5. Paired(Taken(e))
  BY <1>1, <1>3, <1>4, PairedTaken
<1>6. ASSUME IsChunk(e) PROVE Head(e.inbox).payload \in Pay
  <2>1. e.opcode # "CLOSE"
    BY <1>6 DEF IsChunk
  <2>2. ~ IsStatus(e.inbox[1])
    BY <1>2, <2>1 DEF Paired
  <2>3. Head(e.inbox).payload # Status
    BY <1>1, <1>2, <2>2 DEF IsStatus
  <2> QED
    BY <1>1, <1>2, <2>3 DEF WsEvents
<1> QED
  BY <1>3, <1>5, <1>6

\* Server.c handles an event.
LEMMA PairedHandled ==
  ASSUME NEW Pay, NEW e, NEW done \in BOOLEAN, WellFormed(e, Pay, done), Paired(e),
         IsServerEvent(e)
  PROVE  Paired(Handled(e))
<1> DEFINE g == Taken(e)
           h == Head(e.inbox)
<1>1. e = [y \in Fields |-> e[y]] /\ e.inbox \in Seq(WsEvents(Pay)) /\ e.inbox # <<>>
  BY DEF WellFormed, WsTyped, IsServerEvent, IsClose, NextIs
<1>2. /\ IsEndpoint(g) /\ g.inbox = Tail(e.inbox) /\ g.stream = e.stream
      /\ g.reading = e.reading /\ g.opcode = e.opcode /\ g.conn = e.conn
  BY <1>1 DEF IsEndpoint, Fields, Taken
<1> HIDE DEF g
<1>3. CASE NextIs(e, "frame")
  <2> DEFINE f == ReceiveWsFrame(e)
  <2>1. Handled(e) = f
    BY <1>3 DEF Handled, NextIs
  <2>2. f.inbox = Tail(e.inbox) /\ f.stream = e.stream /\ f.reading = e.reading
        /\ f.opcode = h.opcode /\ f.conn = e.conn
    BY <1>2 DEF IsEndpoint, Fields, ReceiveWsFrame, g
  <2>3. h \in WsEvents(Pay) /\ h.type = "frame" /\ Waits(e.inbox, h.type)
    BY <1>1, <1>3, EventTaken DEF TakenFrom, NextIs
  <2>4. e.opcode # "CLOSE"
    BY <2>3 DEF WellFormed, CloseComesLast
  <2>5. IsCloseHeader(h) => h.opcode = "CLOSE"
    BY DEF IsCloseHeader
  <2> HIDE DEF f
  <2> QED
    BY <1>1, <2>1, <2>2, <2>4, <2>5, PairedTaken
<1>4. CASE ~ NextIs(e, "frame")
  <2>1. h.type # "frame"
    BY <1>1, <1>4 DEF NextIs, IsServerEvent, IsClose
  <2>2. ~ IsCloseHeader(h)
    BY <2>1 DEF IsCloseHeader
  <2>3. Paired(g)
    BY <1>1, <1>2, <2>2, PairedTaken
  <2>4. CASE NextIs(e, "done")
    <3>1. Handled(e) = Ended(g) \/ Handled(e) = g
      BY <1>4, <2>4 DEF Handled, DoneChunk, NextIs, g
    <3>2. e.inbox # <<>> /\ h.type = "done"
      BY <2>4 DEF NextIs
    <3>3. WellFormed(g, Pay, done)
      BY <1>1, TakenOK DEF Took, g
    <3>4. Paired(Ended(g))
      BY <2>3, <3>3, PairedEnded
    <3> QED
      BY <2>3, <3>1, <3>4
  <2>5. CASE NextIs(e, "disconnected")
    <3> DEFINE f == Disconnected(e)
    <3>1. Handled(e) = f
      BY <1>4, <2>5 DEF Handled, NextIs
    <3>2. f.inbox = <<>> /\ f.stream = g.stream /\ f.opcode = g.opcode /\ f.reading = g.reading
          /\ f.conn = g.conn
      BY <1>2 DEF IsEndpoint, Fields, Disconnected, g
    <3>3. h.type = "disconnected" /\ Waits(e.inbox, h.type)
      BY <1>1, <2>5, EventTaken DEF TakenFrom, NextIs
    <3>4. e.conn = "ended"
      BY <3>3 DEF WellFormed, EndsOnce
    <3> HIDE DEF f
    <3>5. f.reading = "none" /\ DOMAIN f.inbox = {} /\ g.stream = f.stream
      BY <1>2, <3>2, <3>4 DEF Paired
    <3> QED
      BY <2>3, <3>1, <3>5 DEF Paired
  <2>6. CASE NextIs(e, "chunk")
    <3> DEFINE c == SendClose(g)
    <3>1. Handled(e) = ExpectWsFrame(c) \/ Handled(e) = c
      BY <2>6 DEF Handled, ReceiveClose, NextIs, g
    <3>2. IsEndpoint(c) /\ Paired(c)
      BY <1>2, <2>3, PairedSends, SentByServer
    <3> HIDE DEF c
    <3> QED
      BY <3>1, <3>2, PairedSends
  <2> QED
    BY <1>4, <2>4, <2>5, <2>6 DEF IsServerEvent, IsClose
<1> QED
  BY <1>3, <1>4

(***************************************************************************)
(* The response of Discovery.c                                             *)
(***************************************************************************)

\* The states before an acknowledgement.
Early == {"INIT", "HANDSHAKE", "RECEIVE", "RECEIVE_ACK"}

TokenSent(sent) == \E i \in DOMAIN sent : sent[i].type = "token"
Responded(sent) == \E i \in DOMAIN sent : sent[i].type = "response"

\* A result tells of an account that is among those that are registered, and of every
\* one that was known when the token was acknowledged.
IsResultOf(result, number, accounts, old) ==
  /\ result \in D!Result /\ result.number = number
  /\ result.found => number \in accounts
  /\ number \in old => result.found

\* The results of the numbers before the offset were looked up.
BatchOK(b) ==
  /\ b = [numbers |-> numbers, offset |-> b.offset, results |-> b.results]
  /\ b.offset \in 0..Len(numbers)
  /\ b.results = [i \in DOMAIN numbers |-> b.results[i]]
  /\ \A i \in DOMAIN numbers :
       IF i <= b.offset THEN IsResultOf(b.results[i], numbers[i], registered, known)
                        ELSE b.results[i] = D!NoResult

\* A response has the results of all the numbers, in their order.
ResponseFits(triples, nums, accounts, old) ==
  /\ [k \in DOMAIN triples |-> triples[k].number] = nums
  /\ \A k \in DOMAIN triples :
       /\ triples[k].found => triples[k].number \in accounts
       /\ triples[k].number \in old => triples[k].found

\* There is one response at most, after the token, and it fits.
Complete(sent, nums, accounts, old) ==
  \A i \in DOMAIN sent : sent[i].type = "response" =>
    /\ \E j \in 1..(i - 1) : sent[j].type = "token"
    /\ \A j \in DOMAIN sent : sent[j].type = "response" => j = i
    /\ ResponseFits(sent[i].triples, nums, accounts, old)

\* One task of cdsiBatch() at most is queued, after the token and before the response; it
\* looks the numbers of the list up, which does not change any more.
LookupInv ==
  /\ Paired(cdsiEp)
  /\ cdsiEp.sent \in Seq(D!Chunks)
  /\ cdsiChunks <= MaxChunks + 1
  /\ numbers \in Seq(Numbers)
  /\ registered \subseteq Numbers /\ known \subseteq registered
  /\ state \in Early \/ batches # {} => ~ Responded(cdsiEp.sent)
  /\ state = "RECEIVE_ACK" \/ batches # {} => TokenSent(cdsiEp.sent)
  /\ \A b, c \in batches : b = c
  /\ \A b \in batches : BatchOK(b)
  /\ Complete(cdsiEp.sent, numbers, registered, known)

\* Initially no list was read and nothing was sent.
LEMMA LookupInit == ASSUME D!Init PROVE LookupInv
<1>1. /\ cdsiEp.sent = <<>> /\ numbers = <<>> /\ batches = {} /\ registered = {}
      /\ known = {} /\ state = "INIT" /\ cdsiChunks = 0
  BY DiscoveryOperators DEF D!Init, Endpoint
<1>2. <<>> \in Seq(D!Chunks) /\ <<>> \in Seq(Numbers)
  BY EmptySeq
<1>3. DOMAIN cdsiEp.sent = {}
  BY <1>1
<1>4. ~ Responded(cdsiEp.sent) /\ Complete(cdsiEp.sent, numbers, registered, known)
  BY <1>3 DEF Responded, Complete
<1>5. Paired(cdsiEp)
  BY DiscoveryOperators DEF D!Init, Endpoint, Paired
<1> QED
  BY <1>1, <1>2, <1>4, <1>5, BoundIsNat DEF LookupInv

\* What is sent after s is no response.
NoResponseAfter(s, t) ==
  \/ t = s
  \/ \E x \in D!Chunks : x.type # "response" /\ t = Append(s, x)

\* A chunk that is no response does not make a complete response incomplete, and neither
\* do further accounts.
LEMMA CompleteKept ==
  ASSUME NEW s \in Seq(D!Chunks), NEW t, NoResponseAfter(s, t)
  PROVE  /\ t \in Seq(D!Chunks)
         /\ TokenSent(s) => TokenSent(t)
         /\ Responded(t) => Responded(s)
         /\ \A nums, accounts, more, old :
              accounts \subseteq more /\ Complete(s, nums, accounts, old)
                => Complete(t, nums, more, old)
<1>1. /\ t \in Seq(D!Chunks)
      /\ Len(s) \in Nat /\ Len(t) \in Nat /\ DOMAIN s = 1..Len(s) /\ DOMAIN t = 1..Len(t)
      /\ Len(s) <= Len(t)
      /\ \A i \in DOMAIN s : i \in DOMAIN t /\ t[i] = s[i]
      /\ \A i \in DOMAIN t : t[i].type = "response" => i \in DOMAIN s
  <2>1. Len(s) \in Nat /\ DOMAIN s = 1..Len(s)
    BY LenProperties
  <2>2. CASE t = s
    BY <2>1, <2>2
  <2>3. ASSUME NEW x \in D!Chunks, x.type # "response", t = Append(s, x)
        PROVE  <1>1!:
    BY <2>1, <2>3, OneAppended
  <2> QED
    BY <2>2, <2>3 DEF NoResponseAfter
<1>2. TokenSent(s) => TokenSent(t)
  BY <1>1 DEF TokenSent
<1>3. Responded(t) => Responded(s)
  BY <1>1 DEF Responded
<1>4. ASSUME NEW nums, NEW accounts, NEW more, NEW old,
             accounts \subseteq more, Complete(s, nums, accounts, old)
      PROVE  Complete(t, nums, more, old)
  <2> SUFFICES ASSUME NEW i \in DOMAIN t, t[i].type = "response"
               PROVE  /\ \E j \in 1..(i - 1) : t[j].type = "token"
                      /\ \A j \in DOMAIN t : t[j].type = "response" => j = i
                      /\ ResponseFits(t[i].triples, nums, more, old)
    BY DEF Complete
  <2>1. i \in DOMAIN s /\ s[i] = t[i] /\ s[i].type = "response"
    BY <1>1
  <2>2. /\ \E j \in 1..(i - 1) : s[j].type = "token"
        /\ \A j \in DOMAIN s : s[j].type = "response" => j = i
        /\ ResponseFits(s[i].triples, nums, accounts, old)
    BY <1>4, <2>1 DEF Complete
  <2>3. \E j \in 1..(i - 1) : t[j].type = "token"
    <3>1. \A j \in 1..(i - 1) : j \in DOMAIN s
      BY <1>1, <2>1
    <3> QED
      BY <1>1, <2>2, <3>1
  <2>4. \A j \in DOMAIN t : t[j].type = "response" => j = i
    BY <1>1, <2>2
  <2>5. ResponseFits(t[i].triples, nums, more, old)
    BY <1>4, <2>1, <2>2 DEF ResponseFits
  <2> QED
    BY <2>3, <2>4, <2>5
<1> QED
  BY <1>1, <1>2, <1>3, <1>4

\* The first response, after the token
LEMMA CompleteResponded ==
  ASSUME NEW s \in Seq(D!Chunks), TokenSent(s), ~ Responded(s),
         NEW x \in D!Chunks, x.type = "response", NEW nums, NEW accounts, NEW old,
         ResponseFits(x.triples, nums, accounts, old)
  PROVE  Append(s, x) \in Seq(D!Chunks) /\ Complete(Append(s, x), nums, accounts, old)
<1> DEFINE t == Append(s, x)
           n == Len(s) + 1
<1>1. /\ t \in Seq(D!Chunks) /\ Len(s) \in Nat /\ DOMAIN s = 1..Len(s)
      /\ DOMAIN t = 1..n /\ t[n] = x
      /\ \A i \in DOMAIN s : t[i] = s[i]
  BY OneAppended
<1> HIDE DEF t
<1>2. \A i \in DOMAIN t : t[i].type = "response" => i = n
  BY <1>1 DEF Responded
<1>3. \E j \in 1..(n - 1) : t[j].type = "token"
  BY <1>1 DEF TokenSent
<1> HIDE DEF n
<1>4. Complete(t, nums, accounts, old)
  BY <1>1, <1>2, <1>3 DEF Complete
<1> QED
  BY <1>1, <1>4 DEF t

\* Before a response nothing is incomplete.
LEMMA CompleteBefore ==
  ASSUME NEW s, ~ Responded(s)
  PROVE  \A nums, accounts, old : Complete(s, nums, accounts, old)
BY DEF Responded, Complete

\* A step that neither responds nor looks numbers up; the list comes before the response.
LEMMA LookupKept ==
  ASSUME LookupInv, Paired(cdsiEp'),
         NoResponseAfter(cdsiEp.sent, cdsiEp'.sent),
         cdsiChunks' <= MaxChunks + 1,
         UNCHANGED <<batches, known>>,
         registered \subseteq registered', registered' \subseteq Numbers,
         \/ numbers' = numbers
         \/ numbers' \in Seq(Numbers) /\ batches = {} /\ state \in Early,
         state' \in Early => state \in Early,
         state' = "RECEIVE_ACK" => state = "RECEIVE_ACK" \/ TokenSent(cdsiEp'.sent)
  PROVE  LookupInv'
<1>1. /\ cdsiEp'.sent \in Seq(D!Chunks)
      /\ TokenSent(cdsiEp.sent) => TokenSent(cdsiEp'.sent)
      /\ Responded(cdsiEp'.sent) => Responded(cdsiEp.sent)
      /\ \A nums, accounts, more, old :
           accounts \subseteq more /\ Complete(cdsiEp.sent, nums, accounts, old)
             => Complete(cdsiEp'.sent, nums, more, old)
  BY CompleteKept DEF LookupInv
<1>2. Complete(cdsiEp'.sent, numbers', registered', known')
  <2>1. CASE numbers' = numbers
    BY <1>1, <2>1 DEF LookupInv
  <2>2. CASE state \in Early
    <3>1. ~ Responded(cdsiEp'.sent)
      BY <1>1, <2>2 DEF LookupInv
    <3> QED
      BY <3>1, CompleteBefore
  <2> QED
    BY <2>1, <2>2
<1>3. \A b \in batches' : BatchOK(b)'
  <2> SUFFICES ASSUME NEW b \in batches PROVE BatchOK(b)'
    OBVIOUS
  <2>1. BatchOK(b) /\ numbers' = numbers /\ known' = known
    BY DEF LookupInv
  <2> QED
    BY <2>1 DEF BatchOK, IsResultOf
<1>4. numbers' \in Seq(Numbers)
  BY DEF LookupInv
<1> QED
  BY <1>1, <1>2, <1>3, <1>4 DEF LookupInv

\* What the endpoint of Discovery.c sends, by the handlers of Server.c.
LEMMA CloseIsNoResponse ==
  ASSUME NEW e, NEW f, MaySendClose(e, f)
  PROVE  NoResponseAfter(e.sent, f.sent)
<1>1. Closing \in D!Chunks /\ Closing.type # "response"
  BY DEF Closing, D!Chunks
<1> QED
  BY <1>1 DEF MaySendClose, NoResponseAfter

\* The connection of Discovery.c is an endpoint.
LEMMA DiscoveryEndpoint == ASSUME DiscoveryInv PROVE IsEndpoint(cdsiEp)
  BY DEF DiscoveryInv, WellFormed, WsTyped, IsEndpoint

\* The client, the network, Server.c, and other clients
LEMMA LookupEnvironment ==
  ASSUME DiscoveryInv, LookupInv,
         \/ \E payload \in D!Payloads : D!ClientChunk(payload)
         \/ D!ClientClose \/ D!Drop \/ D!Connection \/ D!Server
         \/ \E n \in Numbers : D!Register(n)
  PROVE  LookupInv'
<1>1. /\ UNCHANGED <<state, numbers, batches, known>>
      /\ registered \subseteq registered' /\ registered' \subseteq Numbers
      /\ cdsiChunks' <= MaxChunks + 1
  BY BoundIsNat
  DEF D!ClientChunk, D!ClientClose, D!Drop, D!Connection, D!Server, D!Register, LookupInv,
      DiscoveryInv
<1>2. IsEndpoint(cdsiEp)
  BY DiscoveryEndpoint
<1> DEFINE Pay == D!Payloads
<1>3. WellFormed(cdsiEp, Pay, CdsiDone) /\ CdsiDone \in BOOLEAN /\ Paired(cdsiEp)
  BY DEF DiscoveryInv, CdsiDone, LookupInv
<1>4. MaySendClose(cdsiEp, cdsiEp') /\ Paired(cdsiEp')
  <2>1. CASE D!Server
    <3>1. IsServerEvent(cdsiEp) /\ cdsiEp' = Handled(cdsiEp)
      BY <2>1, DiscoveryHandlers DEF D!Server
    <3> QED
      BY <1>2, <1>3, <3>1, SentByItself, PairedHandled
  <2>2. CASE D!Connection
    <3>1. cdsiEp' \in Transfers(cdsiEp)
      BY <2>2, DiscoveryHandlers DEF D!Connection
    <3> QED
      BY <1>2, <1>3, <3>1, SentByOthers, PairedTransfer DEF MaySendClose
  <2>3. CASE D!Drop
    <3>1. cdsiEp' = Ended(cdsiEp)
      BY <2>3, DiscoveryOperators DEF D!Drop
    <3> QED
      BY <1>2, <1>3, <3>1, SentByOthers, PairedEnded DEF MaySendClose
  <2>4. CASE D!ClientClose
    <3>1. cdsiEp' = ClientSends(cdsiEp, CloseFrame)
      BY <2>4, DiscoveryOperators DEF D!ClientClose
    <3>2. CloseFrame \in Frames(Pay) /\ CloseFrame.opcode = "CLOSE"
      BY DEF CloseFrame, Status, Frames, Opcodes
    <3> QED
      BY <1>2, <1>3, <3>1, <3>2, SentByOthers, PairedClient DEF MaySendClose
  <2>5. ASSUME NEW payload \in D!Payloads, D!ClientChunk(payload)
        PROVE  MaySendClose(cdsiEp, cdsiEp') /\ Paired(cdsiEp')
    <3>1. cdsiEp' = ClientSends(cdsiEp, Frame(payload))
      BY <2>5, DiscoveryOperators DEF D!ClientChunk
    <3>2. Frame(payload) \in Frames(Pay) /\ Frame(payload).payload # Status
      BY DEF Frame, Frames, Opcodes, Status, CloseFrame, D!Payloads
    <3> QED
      BY <1>2, <1>3, <3>1, <3>2, SentByOthers, PairedClient DEF MaySendClose
  <2>6. ASSUME NEW n \in Numbers, D!Register(n)
        PROVE  MaySendClose(cdsiEp, cdsiEp') /\ Paired(cdsiEp')
    BY <1>3, <2>6 DEF D!Register, MaySendClose
  <2> QED
    BY <2>1, <2>2, <2>3, <2>4, <2>5, <2>6
<1> QED
  BY <1>1, <1>4, CloseIsNoResponse, LookupKept

\* getDiscovery() and attest()
LEMMA LookupStart ==
  ASSUME DiscoveryInv, LookupInv, D!GetDiscovery \/ D!Attest
  PROVE  LookupInv'
<1>1. IsEndpoint(cdsiEp) /\ Paired(cdsiEp)
  BY DiscoveryEndpoint DEF LookupInv
<1>2. CASE D!GetDiscovery
  <2>1. /\ cdsiEp' = UpgradeToWebSocket(cdsiEp)
        /\ UNCHANGED <<state, numbers, batches, registered, cdsiChunks, known>>
    BY <1>2, DiscoveryOperators DEF D!GetDiscovery
  <2> DEFINE x == [type |-> "101"]
  <2>2. x \in D!Chunks /\ x.type # "response"
    BY DEF D!Chunks
  <2>3. cdsiEp'.sent = Append(cdsiEp.sent, x) /\ Paired(cdsiEp')
    BY <1>1, <2>1, SentByServer, PairedSends
  <2> HIDE DEF x
  <2>4. NoResponseAfter(cdsiEp.sent, cdsiEp'.sent)
    BY <2>2, <2>3 DEF NoResponseAfter
  <2> QED
    BY <2>1, <2>3, <2>4, LookupKept DEF LookupInv
<1>3. CASE D!Attest
  <2> DEFINE x == [type |-> "CDSI"]
  <2>1. /\ attests /\ UNCHANGED <<numbers, batches, registered, cdsiChunks, known>>
        /\ IF CanSendChunk(cdsiEp)
           THEN cdsiEp' = SendChunk(cdsiEp, x) /\ state' = "HANDSHAKE"
           ELSE UNCHANGED <<cdsiEp, state>>
    BY <1>3, DiscoveryOperators DEF D!Attest
  <2>2. x \in D!Chunks /\ x.type # "response"
    BY DEF D!Chunks
  <2>3. CASE CanSendChunk(cdsiEp)
    <3>1. state = "INIT"
      BY <2>1, <2>3 DEF CanSendChunk, DiscoveryInv, Stages
    <3>2. cdsiEp'.sent = Append(cdsiEp.sent, x) /\ Paired(cdsiEp')
      BY <1>1, <2>1, <2>3, SentByServer, PairedSends
    <3> HIDE DEF x
    <3>3. NoResponseAfter(cdsiEp.sent, cdsiEp'.sent)
      BY <2>2, <3>2 DEF NoResponseAfter
    <3>4. (state' \in Early => state \in Early) /\ state' # "RECEIVE_ACK"
      BY <2>1, <2>3, <3>1 DEF Early
    <3> QED
      BY <2>1, <3>2, <3>3, <3>4, LookupKept DEF LookupInv
  <2>4. CASE ~ CanSendChunk(cdsiEp)
    <3>1. NoResponseAfter(cdsiEp.sent, cdsiEp'.sent)
      BY <2>1, <2>4 DEF NoResponseAfter
    <3> QED
      BY <1>1, <2>1, <2>4, <3>1, LookupKept DEF LookupInv
  <2> QED
    BY <2>3, <2>4
<1> QED
  BY <1>2, <1>3

\* parseClientRequest() returns a list of numbers.
LEMMA ListOfNumbers ==
  ASSUME NEW payload \in D!Payloads, payload.type = "list"
  PROVE  D!ParseClientRequest(payload) \in Seq(Numbers)
<1>1. payload.list \in Lists
  BY DEF D!Payloads
<1>2. payload.list.prev \in Seq(Numbers) /\ payload.list.new \in Seq(Numbers)
  BY <1>1, ListsAssumption
<1> QED
  BY <1>2, ConcatProperties DEF D!ParseClientRequest

\* cdsiReceiveChunk(): the task of cdsiBatch() is queued for the list.
LEMMA LookupChunk ==
  ASSUME DiscoveryInv, LookupInv, D!CdsiReceiveChunk
  PROVE  LookupInv'
<1> DEFINE e == Taken(cdsiEp)
           payload == Head(cdsiEp.inbox).payload
<1>1. /\ IsChunk(cdsiEp)
      /\ \/ D!ReceiveIllegal(e) \/ D!ReceiveHandshake(e, payload)
         \/ D!ReceiveList(e, payload) \/ D!ReceiveAck(e, payload)
      /\ UNCHANGED <<attests, registered, cdsiChunks>>
  BY DiscoveryOperators DEF D!CdsiReceiveChunk
<1>2. IsEndpoint(e) /\ e.sent = cdsiEp.sent
  BY DiscoveryEndpoint, SentByOthers
<1>3. Paired(e) /\ payload \in D!Payloads
  <2>1. WellFormed(cdsiEp, D!Payloads, CdsiDone) /\ NextIs(cdsiEp, "chunk") /\ Paired(cdsiEp)
    BY <1>1 DEF IsChunk, DiscoveryInv, LookupInv
  <2> HIDE DEF e, payload
  <2> QED
    BY <1>1, <2>1, PairedChunk DEF e, payload
<1>4. registered \subseteq Numbers /\ cdsiChunks' <= MaxChunks + 1 /\ registered' = registered
  BY <1>1 DEF LookupInv
<1> HIDE DEF e, payload
<1>5. ASSUME D!CloseAndDone(e)
      PROVE  /\ NoResponseAfter(cdsiEp.sent, cdsiEp'.sent) /\ Paired(cdsiEp')
             /\ state' = "DONE" \/ state' = state
  <2> DEFINE h == SendClose(e)
  <2>1. (cdsiEp' = ExpectWsFrame(h) \/ cdsiEp' = h) /\ (state' = "DONE" \/ state' = state)
    BY <1>5, DiscoveryOperators DEF D!CloseAndDone
  <2>2. IsEndpoint(h) /\ MaySendClose(e, h) /\ Paired(h)
    BY <1>2, <1>3, SentByServer, PairedSends
  <2> HIDE DEF h
  <2>3. MaySendClose(cdsiEp, cdsiEp') /\ Paired(cdsiEp')
    BY <1>2, <2>1, <2>2, SentByOthers, PairedSends DEF MaySendClose
  <2> QED
    BY <2>1, <2>3, CloseIsNoResponse
<1>6. ASSUME NEW x \in D!Chunks, NEW next, D!SendAndNext(e, x, next)
      PROVE  cdsiEp'.sent = Append(cdsiEp.sent, x) /\ state' = next /\ Paired(cdsiEp')
  <2> DEFINE h == SendChunk(e, x)
  <2>1. cdsiEp' = ExpectWsFrame(h) /\ state' = next
    BY <1>6, DiscoveryOperators DEF D!SendAndNext
  <2>2. IsEndpoint(h) /\ h.sent = Append(cdsiEp.sent, x) /\ Paired(h)
    BY <1>2, <1>3, SentByServer, PairedSends
  <2> HIDE DEF h
  <2> QED
    BY <2>1, <2>2, SentByOthers, PairedSends
<1>7. \A s : s \in {"INIT", "HANDSHAKE", "RECEIVE", "RECEIVE_ACK"} => s \in Early
  BY DEF Early
<1>8. CASE D!ReceiveIllegal(e)
  <2>1. D!CloseAndDone(e) /\ UNCHANGED <<numbers, batches, known>>
    BY <1>8 DEF D!ReceiveIllegal
  <2>2. /\ NoResponseAfter(cdsiEp.sent, cdsiEp'.sent) /\ Paired(cdsiEp')
        /\ state' = "DONE" \/ state' = state
    BY <1>5, <2>1
  <2>3. (state' \in Early => state \in Early) /\ (state' = "RECEIVE_ACK" => state = "RECEIVE_ACK")
    BY <2>2 DEF Early
  <2> QED
    BY <1>4, <2>1, <2>2, <2>3, LookupKept
<1>9. CASE D!ReceiveHandshake(e, payload)
  <2> DEFINE ready == [type |-> "Ready"]
  <2>1. ready \in D!Chunks /\ ready.type # "response"
    BY DEF D!Chunks
  <2>2. /\ state = "HANDSHAKE" /\ UNCHANGED <<numbers, batches, known>>
        /\ D!CloseAndDone(e) \/ D!SendAndNext(e, ready, "RECEIVE") \/ D!Fail(e)
    BY <1>9 DEF D!ReceiveHandshake
  <2> HIDE DEF ready
  <2>3. /\ NoResponseAfter(cdsiEp.sent, cdsiEp'.sent) /\ Paired(cdsiEp')
        /\ state' \in {"DONE", "HANDSHAKE", "RECEIVE"}
    <3>1. CASE D!CloseAndDone(e)
      BY <1>5, <2>2, <3>1
    <3>2. CASE D!SendAndNext(e, ready, "RECEIVE")
      BY <1>6, <2>1, <3>2 DEF NoResponseAfter
    <3>3. CASE D!Fail(e)
      BY <1>2, <1>3, <2>2, <3>3 DEF D!Fail, NoResponseAfter
    <3> QED
      BY <2>2, <3>1, <3>2, <3>3
  <2> QED
    BY <1>4, <1>7, <2>2, <2>3, LookupKept
<1>10. CASE D!ReceiveList(e, payload)
  <2> DEFINE token == [type |-> "token"]
  <2>1. token \in D!Chunks /\ token.type = "token"
    BY DEF D!Chunks
  <2>2. /\ state = "RECEIVE" /\ UNCHANGED <<batches, known>>
        /\ D!CloseAndDone(e) \/ D!SendAndNext(e, token, "RECEIVE_ACK")
    BY <1>10 DEF D!ReceiveList
  <2>3. numbers' \in Seq(Numbers) /\ batches = {} /\ state \in Early
    <3>1. numbers' = numbers \/ numbers' = <<>> \/ numbers' = D!ParseClientRequest(payload)
      BY <1>10 DEF D!ReceiveList
    <3>2. numbers' # numbers /\ numbers' # <<>> => payload.type = "list"
      <4>1. payload.type \in {"Client", "ack", "malformed", "list"}
        BY <1>3 DEF D!Payloads
      <4> QED
        BY <1>10, <4>1 DEF D!ReceiveList, D!IsMalformed
    <3>3. payload \in D!Payloads
      BY <1>3
    <3>4. <<>> \in Seq(Numbers) /\ numbers \in Seq(Numbers)
      BY EmptySeq DEF LookupInv
    <3> QED
      BY <1>7, <2>2, <3>1, <3>2, <3>3, <3>4, ListOfNumbers DEF DiscoveryInv, Stages
  <2> HIDE DEF token
  <2>4. /\ NoResponseAfter(cdsiEp.sent, cdsiEp'.sent) /\ Paired(cdsiEp')
        /\ state' = "RECEIVE_ACK" => TokenSent(cdsiEp'.sent)
    <3>1. CASE D!CloseAndDone(e)
      BY <1>5, <2>2, <3>1
    <3>2. CASE D!SendAndNext(e, token, "RECEIVE_ACK")
      <4>1. cdsiEp'.sent = Append(cdsiEp.sent, token) /\ Paired(cdsiEp')
        BY <1>6, <2>1, <3>2
      <4>2. Append(cdsiEp.sent, token)[Len(cdsiEp.sent) + 1] = token
            /\ Len(cdsiEp.sent) + 1 \in DOMAIN Append(cdsiEp.sent, token)
        BY <2>1, OneAppended DEF LookupInv
      <4>3. TokenSent(cdsiEp'.sent)
        BY <2>1, <4>1, <4>2 DEF TokenSent
      <4> QED
        BY <2>1, <4>1, <4>3 DEF NoResponseAfter
    <3> QED
      BY <2>2, <3>1, <3>2
  <2> QED
    BY <1>4, <2>2, <2>3, <2>4, LookupKept
<1>11. CASE D!ReceiveAck(e, payload)
  <2> DEFINE b == [numbers |-> numbers, offset |-> 0,
                   results |-> [i \in DOMAIN numbers |-> D!NoResult]]
  <2>1. /\ state = "RECEIVE_ACK" /\ numbers' = numbers
        /\ \/ batches' = batches \cup {b} /\ known' = registered /\ payload.type = "ack"
           \/ UNCHANGED <<batches, known>>
        /\ \/ D!CloseAndDone(e) /\ D!IsMalformed(payload)
           \/ cdsiEp' = ExpectWsFrame(e) /\ state' = "DONE"
    BY <1>11, DiscoveryOperators DEF D!ReceiveAck
  <2>2. /\ NoResponseAfter(cdsiEp.sent, cdsiEp'.sent) /\ Paired(cdsiEp')
        /\ state' = "DONE" \/ state' = "RECEIVE_ACK"
    <3>1. CASE D!CloseAndDone(e)
      BY <1>5, <2>1, <3>1
    <3>2. CASE cdsiEp' = ExpectWsFrame(e) /\ state' = "DONE"
      BY <1>2, <1>3, <3>2, SentByOthers, PairedSends DEF NoResponseAfter
    <3> QED
      BY <2>1, <3>1, <3>2
  <2>3. CASE UNCHANGED <<batches, known>>
    BY <1>4, <1>7, <2>1, <2>2, <2>3, LookupKept
  <2>4. CASE batches' = batches \cup {b} /\ known' = registered /\ payload.type = "ack"
    <3>1. /\ batches = {} /\ ~ Responded(cdsiEp.sent) /\ TokenSent(cdsiEp.sent)
          /\ numbers \in Seq(Numbers)
      BY <1>7, <2>1 DEF DiscoveryInv, Stages, LookupInv
    <3>2. /\ cdsiEp'.sent \in Seq(D!Chunks) /\ TokenSent(cdsiEp'.sent)
          /\ ~ Responded(cdsiEp'.sent)
      BY <2>2, <3>1, CompleteKept DEF LookupInv
    <3>3. DOMAIN numbers = 1..Len(numbers) /\ Len(numbers) \in Nat
      BY <3>1, LenProperties
    <3>4. ASSUME NEW c \in batches' PROVE BatchOK(c)' /\ \A d \in batches' : d = c
      <4>1. c = b /\ batches' = {b}
        BY <2>4, <3>1, <3>4
      <4>2. c = [numbers |-> numbers, offset |-> c.offset, results |-> c.results]
            /\ c.offset = 0 /\ c.results = [i \in DOMAIN numbers |-> c.results[i]]
            /\ \A i \in DOMAIN numbers : c.results[i] = D!NoResult
        BY <4>1
      <4>3. \A i \in DOMAIN numbers : ~ (i <= c.offset)
        BY <3>3, <4>2
      <4>4. \A d \in batches' : d = c
        BY <4>1
      <4> HIDE DEF b
      <4> QED
        BY <2>1, <3>3, <4>2, <4>3, <4>4 DEF BatchOK
    <3> HIDE DEF b
    <3>5. Complete(cdsiEp'.sent, numbers', registered', known')
      BY <3>2, CompleteBefore
    <3> QED
      BY <1>4, <2>1, <2>2, <2>4, <3>1, <3>2, <3>4, <3>5 DEF LookupInv
  <2> QED
    BY <2>1, <2>3, <2>4
<1> QED
  BY <1>1, <1>8, <1>9, <1>10, <1>11

\* cdsiBatch(): the next numbers are looked up among the accounts there are now.
LEMMA NextResults ==
  ASSUME LookupInv, NEW b \in batches
  PROVE  /\ D!BatchEnd(b) \in 0..Len(numbers) /\ b.offset <= D!BatchEnd(b)
         /\ D!LookedUp(b) = [i \in DOMAIN numbers |-> D!LookedUp(b)[i]]
         /\ \A i \in DOMAIN numbers :
              IF i <= D!BatchEnd(b)
              THEN IsResultOf(D!LookedUp(b)[i], numbers[i], registered, known)
              ELSE D!LookedUp(b)[i] = D!NoResult
<1> DEFINE r == D!LookedUp(b)
           end == D!BatchEnd(b)
<1>1. /\ b.numbers = numbers /\ b.offset \in 0..Len(numbers)
      /\ \A i \in DOMAIN numbers :
           IF i <= b.offset THEN IsResultOf(b.results[i], numbers[i], registered, known)
                            ELSE b.results[i] = D!NoResult
  <2>1. BatchOK(b)
    BY DEF LookupInv
  <2> QED
    BY <2>1 DEF BatchOK
<1>2. /\ Len(numbers) \in Nat /\ DOMAIN numbers = 1..Len(numbers)
      /\ \A i \in DOMAIN numbers : numbers[i] \in Numbers
      /\ known \subseteq registered
  BY LenProperties, ElementOfSeq DEF LookupInv
<1>3. end \in 0..Len(numbers) /\ b.offset <= end
  BY <1>1, <1>2, SizesAssumption DEF D!BatchEnd, D!Least
<1>4. r = [i \in DOMAIN numbers |->
             IF b.offset < i /\ i <= end
             THEN [number |-> numbers[i], found |-> numbers[i] \in registered]
             ELSE b.results[i]]
  BY <1>1 DEF D!LookedUp
<1> HIDE DEF r, end
<1>5. ASSUME NEW i \in DOMAIN numbers
      PROVE  IF i <= end THEN IsResultOf(r[i], numbers[i], registered, known)
                         ELSE r[i] = D!NoResult
  <2>1. CASE b.offset < i /\ i <= end
    <3>1. r[i] = [number |-> numbers[i], found |-> numbers[i] \in registered]
      BY <1>4, <2>1
    <3>2. r[i] \in D!Result
      <4>1. (numbers[i] \in registered) \in BOOLEAN /\ numbers[i] \in Numbers
        BY <1>2
      <4> QED
        BY <3>1, <4>1 DEF D!Result
    <3>3. r[i].number = numbers[i] /\ (r[i].found <=> numbers[i] \in registered)
      <4> DEFINE v == numbers[i] \in registered
      <4>1. r[i] = [number |-> numbers[i], found |-> v]
        BY <3>1
      <4>2. v <=> numbers[i] \in registered
        OBVIOUS
      <4> HIDE DEF v
      <4>3. r[i].number = numbers[i] /\ r[i].found = v
        BY <4>1
      <4> QED
        BY <4>2, <4>3, Zenon
    <3>4. IsResultOf(r[i], numbers[i], registered, known)
      BY <1>2, <3>2, <3>3 DEF IsResultOf
    <3> QED
      BY <2>1, <3>4
  <2>2. CASE ~ (b.offset < i /\ i <= end)
    <3>1. r[i] = b.results[i]
      BY <1>4, <2>2
    <3>2. i <= end <=> i <= b.offset
      BY <1>1, <1>2, <1>3, <2>2
    <3> QED
      BY <1>1, <3>1, <3>2
  <2> QED
    BY <2>1, <2>2
<1>6. r = [i \in DOMAIN numbers |-> r[i]]
  BY <1>4
<1> QED
  BY <1>3, <1>5, <1>6 DEF r, end

\* The results of the last batch are the response.
LEMMA LastResults ==
  ASSUME LookupInv, NEW b \in batches, D!IsLast(b)
  PROVE  LET x == [type |-> "response", triples |-> D!Triples(D!LookedUp(b))] IN
         /\ x \in D!Chunks /\ x.type = "response"
         /\ ResponseFits(x.triples, numbers, registered, known)
<1> DEFINE r == D!LookedUp(b)
           S == D!Result \cup {D!NoResult}
<1>1. Len(numbers) \in Nat /\ DOMAIN numbers = 1..Len(numbers) /\ numbers \in Seq(Numbers)
  BY LenProperties DEF LookupInv
<1>2. D!BatchEnd(b) = Len(numbers)
  <2>1. b.numbers = numbers
    <3>1. BatchOK(b)
      BY DEF LookupInv
    <3> QED
      BY <3>1 DEF BatchOK
  <2> QED
    BY <1>1, <2>1, NextResults DEF D!IsLast
<1>3. /\ r = [i \in DOMAIN numbers |-> r[i]]
      /\ \A i \in DOMAIN numbers : IsResultOf(r[i], numbers[i], registered, known)
  BY <1>1, <1>2, NextResults
<1> HIDE DEF r
<1>4. r \in [1..Len(numbers) -> S]
  BY <1>1, <1>3 DEF IsResultOf
<1>5. r \in Seq(S)
  BY <1>1, <1>4, SeqDef
<1> DEFINE triples == D!Triples(r)
<1>6. triples = r
  BY <1>5, BlocksAreAll
<1> HIDE DEF triples
<1>7. ResponseFits(triples, numbers, registered, known)
  <2>1. DOMAIN r = DOMAIN numbers
    BY <1>3
  <2>2. numbers = [i \in DOMAIN numbers |-> numbers[i]]
    BY <1>1, LenProperties
  <2>3. [k \in DOMAIN r |-> r[k].number] = numbers
    BY <1>3, <2>1, <2>2 DEF IsResultOf
  <2> QED
    BY <1>3, <1>6, <2>1, <2>3 DEF ResponseFits, IsResultOf
<1> DEFINE x == [type |-> "response", triples |-> triples]
<1>8. x \in D!Chunks /\ x.type = "response" /\ x.triples = triples
  BY <1>5, <1>6 DEF D!Chunks
<1> QED
  BY <1>7, <1>8 DEF triples, r

\* cdsiBatch()
LEMMA LookupBatch ==
  ASSUME DiscoveryInv, LookupInv, NEW b \in batches, D!CdsiBatch(b)
  PROVE  LookupInv'
<1>1. UNCHANGED <<state, numbers, registered, cdsiChunks, known>>
  BY DEF D!CdsiBatch
<1>2. /\ state = "DONE" /\ ~ Responded(cdsiEp.sent) /\ TokenSent(cdsiEp.sent)
      /\ \A c \in batches : c = b
      /\ cdsiEp.sent \in Seq(D!Chunks) /\ IsEndpoint(cdsiEp) /\ Paired(cdsiEp)
  BY DiscoveryEndpoint DEF LookupInv, DiscoveryInv, Stages
<1>3. state' \notin Early /\ state' # "RECEIVE_ACK"
  BY <1>1, <1>2 DEF Early
<1>4. CASE D!IsLast(b)
  <2> DEFINE x == [type |-> "response", triples |-> D!Triples(D!LookedUp(b))]
             g == SendChunk(cdsiEp, x)
  <2>1. /\ batches' = batches \ {b}
        /\ cdsiEp' = SendClose(g) \/ cdsiEp' = cdsiEp
    BY <1>4, DiscoveryOperators DEF D!CdsiBatch
  <2>2. batches' = {}
    BY <1>2, <2>1
  <2>3. x \in D!Chunks /\ x.type = "response" /\ ResponseFits(x.triples, numbers, registered, known)
    BY <1>4, LastResults
  <2> HIDE DEF x
  <2>4. CASE cdsiEp' = cdsiEp
    BY <1>1, <1>3, <2>2, <2>4 DEF LookupInv
  <2>5. CASE cdsiEp' = SendClose(g)
    <3>1. IsEndpoint(g) /\ g.sent = Append(cdsiEp.sent, x) /\ Paired(g)
      BY <1>2, SentByServer, PairedSends
    <3>2. g.sent \in Seq(D!Chunks) /\ Complete(g.sent, numbers, registered, known)
      BY <1>2, <2>3, <3>1, CompleteResponded
    <3> HIDE DEF g
    <3>3. MaySendClose(g, cdsiEp') /\ Paired(cdsiEp')
      BY <2>5, <3>1, SentByServer, PairedSends
    <3>4. NoResponseAfter(g.sent, cdsiEp'.sent)
      BY <3>3, CloseIsNoResponse
    <3>5. cdsiEp'.sent \in Seq(D!Chunks) /\ Complete(cdsiEp'.sent, numbers, registered, known)
      BY <3>2, <3>4, CompleteKept
    <3> QED
      BY <1>1, <1>3, <2>2, <3>3, <3>5 DEF LookupInv
  <2> QED
    BY <2>1, <2>4, <2>5
<1>5. CASE ~ D!IsLast(b)
  <2> DEFINE c == D!NextBatch(b)
  <2>1. batches' = (batches \ {b}) \cup {c} /\ cdsiEp' = cdsiEp
    BY <1>5 DEF D!CdsiBatch
  <2>2. batches' = {c}
    BY <1>2, <2>1
  <2>3. BatchOK(b)
    BY DEF LookupInv
  <2>4. c = [numbers |-> numbers, offset |-> D!BatchEnd(b), results |-> D!LookedUp(b)]
    <3>1. PICK o, r : b = [numbers |-> numbers, offset |-> o, results |-> r]
      BY <2>3 DEF BatchOK
    <3> DEFINE end == D!BatchEnd(b)
               results == D!LookedUp(b)
    <3>2. c = [b EXCEPT !.results = results, !.offset = end]
      BY DEF D!NextBatch
    <3> HIDE DEF end, results, c
    <3>3. c = [numbers |-> numbers, offset |-> end, results |-> results]
      BY <3>1, <3>2
    <3> QED
      BY <3>3 DEF end, results
  <2> HIDE DEF c
  <2>5. ASSUME NEW d \in batches' PROVE BatchOK(d)' /\ \A o \in batches' : o = d
    <3>1. /\ d = [numbers |-> numbers, offset |-> d.offset, results |-> d.results]
          /\ d.offset = D!BatchEnd(b) /\ d.results = D!LookedUp(b)
          /\ \A o \in batches' : o = d
      BY <2>2, <2>4, <2>5
    <3>2. /\ d.offset \in 0..Len(numbers)
          /\ d.results = [i \in DOMAIN numbers |-> d.results[i]]
          /\ \A i \in DOMAIN numbers :
               IF i <= d.offset THEN IsResultOf(d.results[i], numbers[i], registered, known)
                                ELSE d.results[i] = D!NoResult
      BY <3>1, NextResults
    <3> QED
      BY <1>1, <3>1, <3>2 DEF BatchOK, IsResultOf
  <2> QED
    BY <1>1, <1>2, <1>3, <2>1, <2>5 DEF LookupInv
<1> QED
  BY <1>4, <1>5

\* Every step of Discovery.c and of what surrounds it
LEMMA LookupStep ==
  ASSUME DiscoveryInv, LookupInv, D!Next
  PROVE  LookupInv'
<1>1. CASE \/ \E payload \in D!Payloads : D!ClientChunk(payload)
           \/ D!ClientClose \/ D!Drop \/ D!Connection \/ D!Server
           \/ \E n \in Numbers : D!Register(n)
  BY <1>1, LookupEnvironment
<1>2. CASE D!GetDiscovery \/ D!Attest
  BY <1>2, LookupStart
<1>3. CASE D!CdsiReceiveChunk
  BY <1>3, LookupChunk
<1>4. CASE \E b \in batches : D!CdsiBatch(b)
  BY <1>4, LookupBatch
<1> QED
  BY <1>1, <1>2, <1>3, <1>4 DEF D!Next, D!Tasks

(***************************************************************************)
(* What is sent to the new devices                                         *)
(***************************************************************************)

\* Addresses are told to devices, messages are queued for addresses, and a message that
\* is queued was put.
ProvisioningTypes ==
  /\ \A d \in Devices : deviceEp[d].sent \in Seq(P!Chunks)
  /\ provisioningDone \subseteq addresses /\ addresses \subseteq Devices
  /\ callouts \subseteq [to : addresses, message : Messages]
  /\ put \in [Messages -> {0, 200, 404}]
  /\ \A c \in callouts : put[c.message] = 200

\* What is sent initially is nothing.
LEMMA ProvisioningTypesInit == ASSUME P!Init PROVE ProvisioningTypes
<1>1. /\ \A d \in Devices : deviceEp[d].sent = <<>>
      /\ provisioningDone = {} /\ addresses = {} /\ callouts = {}
      /\ put = [m \in Messages |-> 0]
  BY ProvisioningOperators DEF P!Init, Endpoint
<1>2. <<>> \in Seq(P!Chunks)
  BY EmptySeq
<1> QED
  BY <1>1, <1>2 DEF ProvisioningTypes

\* A further chunk is one of those that are sent to devices, as is a close frame.
LEMMA SentToDevice ==
  ASSUME NEW s \in Seq(P!Chunks), NEW t,
         t = s \/ t = Append(s, Closing) \/ \E x \in P!Chunks : t = Append(s, x)
  PROVE  t \in Seq(P!Chunks)
<1>1. Closing \in P!Chunks
  BY DEF Closing, P!Chunks
<1> QED
  BY <1>1, AppendProperties

\* A device to which a chunk is sent, or none
LEMMA SentToOne ==
  ASSUME ProvisioningInv, ProvisioningTypes, NEW d \in Devices, NEW f,
         deviceEp' = [deviceEp EXCEPT ![d] = f], f.sent \in Seq(P!Chunks)
  PROVE  \A x \in Devices : deviceEp'[x].sent \in Seq(P!Chunks)
  BY DEF ProvisioningInv, ProvisioningTypes

\* What a step finds of the endpoint of the device that takes it.
LEMMA DeviceEndpoint ==
  ASSUME ProvisioningInv, ProvisioningTypes, NEW d \in Devices
  PROVE  IsEndpoint(deviceEp[d]) /\ deviceEp[d].sent \in Seq(P!Chunks)
  BY DEF ProvisioningInv, ProvisioningTypes, DeviceOK, WellFormed, WsTyped, IsEndpoint

\* The device, its connection and Server.c send a close frame, if at all.
LEMMA TypesEnvironment ==
  ASSUME ProvisioningInv, ProvisioningTypes, NEW d \in Devices,
         \/ \E payload \in P!Payloads : P!ClientChunk(d, payload)
         \/ P!ClientClose(d) \/ P!Drop(d) \/ P!Connection(d) \/ P!Server(d)
  PROVE  ProvisioningTypes'
<1> DEFINE e == deviceEp[d]
<1>1. IsEndpoint(e) /\ e.sent \in Seq(P!Chunks)
  BY DeviceEndpoint
<1>2. UNCHANGED <<provisioningDone, addresses, callouts, put>>
  BY DEF P!ClientChunk, P!ClientClose, P!Drop, P!Connection, P!Server
<1>3. \E f : deviceEp' = [deviceEp EXCEPT ![d] = f] /\ MaySendClose(e, f)
  <2>1. CASE P!Server(d)
    <3>1. deviceEp' = [deviceEp EXCEPT ![d] = Handled(e)]
      BY <2>1, ProvisioningHandlers DEF P!Server, P!Becomes
    <3> QED
      BY <1>1, <3>1, SentByItself
  <2>2. CASE P!Connection(d)
    <3>1. PICK f \in Transfers(e) : deviceEp' = [deviceEp EXCEPT ![d] = f]
      BY <2>2, ProvisioningHandlers DEF P!Connection, P!Becomes
    <3> QED
      BY <1>1, <3>1, SentByOthers DEF MaySendClose
  <2>3. CASE P!Drop(d)
    <3>1. deviceEp' = [deviceEp EXCEPT ![d] = Ended(e)]
      BY <2>3, ProvisioningOperators DEF P!Drop, P!Becomes
    <3> QED
      BY <1>1, <3>1, SentByOthers DEF MaySendClose
  <2>4. ASSUME NEW frame, deviceEp' = [deviceEp EXCEPT ![d] = ClientSends(e, frame)]
        PROVE  \E f : deviceEp' = [deviceEp EXCEPT ![d] = f] /\ MaySendClose(e, f)
    <3>1. ClientSends(e, frame).sent = e.sent
      BY <1>1, SentByOthers
    <3> QED
      BY <2>4, <3>1 DEF MaySendClose
  <2>5. CASE P!ClientClose(d)
    <3>1. deviceEp' = [deviceEp EXCEPT ![d] = ClientSends(e, CloseFrame)]
      BY <2>5, ProvisioningOperators DEF P!ClientClose, P!Becomes
    <3> QED
      BY <2>4, <3>1
  <2>6. ASSUME NEW payload \in P!Payloads, P!ClientChunk(d, payload)
        PROVE  \E f : deviceEp' = [deviceEp EXCEPT ![d] = f] /\ MaySendClose(e, f)
    <3>1. deviceEp' = [deviceEp EXCEPT ![d] = ClientSends(e, Frame(payload))]
      BY <2>6, ProvisioningOperators DEF P!ClientChunk, P!Becomes
    <3> QED
      BY <2>4, <3>1
  <2> QED
    BY <2>1, <2>2, <2>3, <2>5, <2>6
<1>4. \A x \in Devices : deviceEp'[x].sent \in Seq(P!Chunks)
  BY <1>1, <1>3, SentToDevice, SentToOne DEF MaySendClose
<1> QED
  BY <1>2, <1>4 DEF ProvisioningTypes

\* getWebsocketProvisioning()
LEMMA TypesUpgrade ==
  ASSUME ProvisioningInv, ProvisioningTypes, NEW d \in Devices,
         P!Refuse(d) \/ P!GetWebsocketProvisioning(d)
  PROVE  ProvisioningTypes'
<1> DEFINE e == deviceEp[d]
<1>1. IsEndpoint(e) /\ e.sent \in Seq(P!Chunks)
  BY DeviceEndpoint
<1>2. CASE P!Refuse(d)
  <2> DEFINE x == [type |-> "400"]
             g == [e EXCEPT !.sent = Append(@, x)]
  <2>1. /\ deviceEp' = [deviceEp EXCEPT ![d] = Ended(g)]
        /\ UNCHANGED <<provisioningDone, addresses, callouts, put>>
    BY <1>2, ProvisioningOperators DEF P!Refuse, P!Becomes
  <2>2. x \in P!Chunks
    BY DEF P!Chunks
  <2> HIDE DEF x
  <2>3. IsEndpoint(g) /\ g.sent = Append(e.sent, x)
    BY <1>1 DEF IsEndpoint, Fields
  <2> HIDE DEF g
  <2>4. Ended(g).sent \in Seq(P!Chunks)
    BY <1>1, <2>2, <2>3, SentByOthers, SentToDevice
  <2>5. \A y \in Devices : deviceEp'[y].sent \in Seq(P!Chunks)
    BY <2>1, <2>4, SentToOne
  <2> QED
    BY <2>1, <2>5 DEF ProvisioningTypes
<1>3. CASE P!GetWebsocketProvisioning(d)
  <2> DEFINE x == [type |-> "101"]
             y == [type |-> "address"]
             g == UpgradeToWebSocket(e)
             f == SendChunk(g, y)
  <2>1. /\ deviceEp' = [deviceEp EXCEPT ![d] = f] /\ addresses' = addresses \cup {d}
        /\ UNCHANGED <<provisioningDone, callouts, put>>
    BY <1>3, ProvisioningOperators DEF P!GetWebsocketProvisioning, P!Becomes
  <2>2. x \in P!Chunks /\ y \in P!Chunks
    BY DEF P!Chunks
  <2>3. g.sent = Append(e.sent, x) /\ IsEndpoint(g)
    BY <1>1, SentByServer DEF IsEndpoint, Fields, UpgradeToWebSocket, ExpectWsFrame
  <2> HIDE DEF g, x, y
  <2>4. g.sent \in Seq(P!Chunks)
    BY <1>1, <2>2, <2>3, SentToDevice
  <2>5. f.sent \in Seq(P!Chunks)
    BY <2>2, <2>3, <2>4, SentByServer, SentToDevice
  <2>6. \A z \in Devices : deviceEp'[z].sent \in Seq(P!Chunks)
    BY <2>1, <2>5, SentToOne
  <2> QED
    BY <2>1, <2>6 DEF ProvisioningTypes
<1> QED
  BY <1>2, <1>3

\* putProvisioning(): a message is put once.
LEMMA TypesPut ==
  ASSUME ProvisioningTypes, NEW a \in Devices, NEW m \in Messages, P!PutProvisioning(a, m)
  PROVE  ProvisioningTypes'
<1> DEFINE c == [to |-> a, message |-> m]
<1>1. /\ put[m] = 0 /\ UNCHANGED <<deviceEp, provisioningDone, addresses>>
      /\ \/ /\ a \in addresses /\ callouts' = callouts \cup {c}
            /\ put' = [put EXCEPT ![m] = 200]
         \/ callouts' = callouts /\ put' = [put EXCEPT ![m] = 404]
  BY DEF P!PutProvisioning, P!HasEndpoint
<1>2. put' \in [Messages -> {0, 200, 404}]
  BY <1>1 DEF ProvisioningTypes
<1>3. callouts' \subseteq [to : addresses, message : Messages]
  BY <1>1 DEF ProvisioningTypes
<1>4. ASSUME NEW b \in callouts' PROVE put'[b.message] = 200
  <2>1. CASE b \in callouts
    <3>1. put[b.message] = 200 /\ b.message \in Messages
      BY <2>1 DEF ProvisioningTypes
    <3>2. b.message # m
      BY <1>1, <3>1
    <3> QED
      BY <1>1, <3>1, <3>2 DEF ProvisioningTypes
  <2>2. CASE b \notin callouts
    BY <1>1, <1>4, <2>2 DEF ProvisioningTypes
  <2> QED
    BY <2>1, <2>2
<1> QED
  BY <1>1, <1>2, <1>3, <1>4 DEF ProvisioningTypes

\* provisioningMessage()
LEMMA TypesMessage ==
  ASSUME ProvisioningInv, ProvisioningTypes, NEW c \in callouts, P!ProvisioningMessage(c)
  PROVE  ProvisioningTypes'
<1> DEFINE d == c.to
           e == deviceEp[d]
           x == [type |-> "message", message |-> c.message]
           f == SendChunk(e, x)
<1>1. d \in addresses /\ d \in Devices /\ c.message \in Messages
  BY DEF ProvisioningTypes
<1>2. /\ callouts' \subseteq callouts /\ UNCHANGED <<addresses, put>>
      /\ \/ UNCHANGED <<deviceEp, provisioningDone>>
         \/ /\ deviceEp' = [deviceEp EXCEPT ![d] = f]
            /\ provisioningDone' = provisioningDone \cup {d}
  BY ProvisioningOperators DEF P!ProvisioningMessage, P!Becomes
<1>3. x \in P!Chunks
  BY <1>1 DEF P!Chunks
<1>4. IsEndpoint(e) /\ e.sent \in Seq(P!Chunks)
  BY <1>1, DeviceEndpoint
<1> HIDE DEF x
<1>5. f.sent \in Seq(P!Chunks)
  BY <1>3, <1>4, SentByServer, SentToDevice
<1>6. \A z \in Devices : deviceEp'[z].sent \in Seq(P!Chunks)
  <2>1. CASE UNCHANGED <<deviceEp, provisioningDone>>
    BY <2>1 DEF ProvisioningTypes
  <2>2. CASE deviceEp' = [deviceEp EXCEPT ![d] = f]
    BY <1>1, <1>5, <2>2, SentToOne
  <2> QED
    BY <1>2, <2>1, <2>2
<1> QED
  BY <1>1, <1>2, <1>6 DEF ProvisioningTypes

\* receiveWsRequest() and chatReceiveResponse()
LEMMA TypesChunk ==
  ASSUME ProvisioningInv, ProvisioningTypes, NEW d \in Devices,
         P!ReceiveWsRequest(d) \/ P!ChatReceiveResponse(d)
  PROVE  ProvisioningTypes'
<1> DEFINE e == deviceEp[d]
           g == Taken(e)
           x == [type |-> "answer"]
           h == SendChunk(g, x)
<1>1. UNCHANGED <<provisioningDone, addresses, callouts, put>>
  BY DEF P!ReceiveWsRequest, P!ChatReceiveResponse
<1>2. \E f \in {ExpectWsFrame(h), g, ReceiveClose(e), ExpectWsFrame(g)} :
        deviceEp' = [deviceEp EXCEPT ![d] = f]
  <2>1. CASE P!ReceiveWsRequest(d)
    BY <2>1, ProvisioningOperators DEF P!ReceiveWsRequest, P!Becomes
  <2>2. CASE P!ChatReceiveResponse(d)
    BY <2>2, ProvisioningOperators, ProvisioningHandlers DEF P!ChatReceiveResponse, P!Becomes
  <2> QED
    BY <2>1, <2>2
<1>3. x \in P!Chunks
  BY DEF P!Chunks
<1>4. IsEndpoint(e) /\ e.sent \in Seq(P!Chunks)
  BY DeviceEndpoint
<1>5. IsEndpoint(g) /\ g.sent = e.sent
  BY <1>4, SentByOthers
<1> HIDE DEF g, x
<1>6. IsEndpoint(h) /\ h.sent = Append(e.sent, x)
  BY <1>5, SentByServer
<1> HIDE DEF h
<1>7. \A f \in {ExpectWsFrame(h), g, ReceiveClose(e), ExpectWsFrame(g)} :
        f.sent \in Seq(P!Chunks)
  <2>1. ExpectWsFrame(h).sent = h.sent /\ ExpectWsFrame(g).sent = g.sent
    BY <1>5, <1>6, SentByOthers
  <2>2. MaySendClose(e, ReceiveClose(e))
    BY <1>4, SentByItself
  <2> QED
    BY <1>3, <1>4, <1>5, <1>6, <2>1, <2>2, SentToDevice DEF MaySendClose
<1>8. \A z \in Devices : deviceEp'[z].sent \in Seq(P!Chunks)
  BY <1>2, <1>7, SentToOne
<1> QED
  BY <1>1, <1>8 DEF ProvisioningTypes

\* Every step of a provisioning
LEMMA ProvisioningTypesStep ==
  ASSUME ProvisioningInv, ProvisioningTypes, P!Next
  PROVE  ProvisioningTypes'
<1>1. ASSUME NEW d \in Devices, P!Client(d) \/ P!Connection(d) \/ P!Tasks(d)
      PROVE  ProvisioningTypes'
  <2>1. CASE \/ \E payload \in P!Payloads : P!ClientChunk(d, payload)
             \/ P!ClientClose(d) \/ P!Drop(d) \/ P!Connection(d) \/ P!Server(d)
    BY <2>1, TypesEnvironment
  <2>2. CASE P!Refuse(d) \/ P!GetWebsocketProvisioning(d)
    BY <2>2, TypesUpgrade
  <2>3. CASE P!ReceiveWsRequest(d) \/ P!ChatReceiveResponse(d)
    BY <2>3, TypesChunk
  <2>4. CASE \E c \in callouts : c.to = d /\ P!ProvisioningMessage(c)
    BY <2>4, TypesMessage
  <2> QED
    BY <1>1, <2>1, <2>2, <2>3, <2>4 DEF P!Client, P!Tasks
<1>2. CASE \E d \in Devices, m \in Messages : P!PutProvisioning(d, m)
  BY <1>2, TypesPut
<1> QED
  BY <1>1, <1>2 DEF P!Next

(***************************************************************************)
(* Theorems                                                                *)
(***************************************************************************)

ServicesInv == DiscoveryInv /\ ProvisioningInv

\* A step of one service leaves the connections of the others alone.
LEMMA ServicesStep ==
  ASSUME ServicesInv, [ServicesNext]_allVars
  PROVE  ServicesInv' /\ (state = "DONE" => state' = "DONE")
<1>1. ASSUME UNCHANGED cdsiVars PROVE DiscoveryInv' /\ state' = state
  <2>1. UNCHANGED <<cdsiEp, state, attests, batches, cdsiChunks>>
    BY <1>1 DEF cdsiVars
  <2> QED
    BY <2>1 DEF ServicesInv, DiscoveryInv, Stages, CdsiDone
<1>2. ASSUME UNCHANGED deviceVars PROVE ProvisioningInv'
  <2>1. UNCHANGED <<deviceEp, provisioningDone, addresses, callouts, deviceChunks>>
    BY <1>2 DEF deviceVars
  <2> QED
    BY <2>1 DEF ServicesInv, ProvisioningInv
<1>3. CASE Next /\ UNCHANGED <<service, cdsiVars, deviceVars>>
  BY <1>1, <1>2, <1>3 DEF ServicesInv
<1>4. CASE D!Next /\ UNCHANGED <<service, vars, deviceVars>>
  BY <1>2, <1>4, DiscoveryStep DEF ServicesInv
<1>5. CASE P!Next /\ UNCHANGED <<service, vars, cdsiVars>>
  BY <1>1, <1>5, ProvisioningStep DEF ServicesInv
<1>6. CASE UNCHANGED allVars
  BY <1>1, <1>2, <1>6 DEF ServicesInv, allVars
<1> QED
  BY <1>3, <1>4, <1>5, <1>6 DEF ServicesNext

\* The connections of both services stay well-formed.
LEMMA ServicesInvHolds == ServicesSpec => []ServicesInv
<1>1. ServicesInit => ServicesInv
  BY DiscoveryInit, ProvisioningInit DEF ServicesInit, ServicesInv
<1>2. ServicesInv /\ [ServicesNext]_allVars => ServicesInv'
  BY ServicesStep
<1> QED
  BY <1>1, <1>2, PTL DEF ServicesSpec

\* An endpoint that is well-formed is closed at the end.
LEMMA ClosedLast ==
  ASSUME NEW Pay, NEW e, NEW done, WellFormed(e, Pay, done)
  PROVE  ClosedAtTheEnd(e)
<1>1. CloseSentLast(e.sent) /\ e.sent \in Seq({e.sent[i] : i \in DOMAIN e.sent})
  BY DEF WellFormed, Closed, WsTyped, IsSeq
<1>2. DOMAIN e.sent = 1..Len(e.sent)
  BY <1>1, LenProperties
<1> QED
  BY <1>1, <1>2 DEF ClosedAtTheEnd, CloseSentLast

\* cdsiBatch(), cdsiReceiveChunk(), attest(), provisioningMessage(), chatReceiveResponse()
\* and _receiveWsChunk() send in any order: the close frame is sent once, and last.
THEOREM ClosedOnceAndLast == ServicesSpec => []NothingAfterClose
<1>1. ServicesInv => NothingAfterClose
  <2> SUFFICES ASSUME ServicesInv PROVE NothingAfterClose
    OBVIOUS
  <2>1. D!NothingAfterClose
    BY ClosedLast, DiscoveryOperators DEF ServicesInv, DiscoveryInv, D!NothingAfterClose
  <2>2. P!NothingAfterClose
    BY ClosedLast, ProvisioningOperators
    DEF ServicesInv, ProvisioningInv, DeviceOK, P!NothingAfterClose
  <2> QED
    BY <2>1, <2>2 DEF NothingAfterClose
<1> QED
  BY <1>1, ServicesInvHolds, PTL

\* cdsiReceiveChunk() never fails on a connection that is up, and neither do the handlers
\* of Websocket.c before the WebSocket closes: expectWsFrame() is called for each chunk.
THEOREM GoesOnReading == ServicesSpec => []KeepsReading
<1>1. ServicesInv => KeepsReading
  <2> SUFFICES ASSUME ServicesInv PROVE KeepsReading
    OBVIOUS
  <2>1. D!KeepsReading
    BY DiscoveryOperators DEF ServicesInv, DiscoveryInv, D!KeepsReading
  <2>2. P!KeepsReading
    BY ProvisioningOperators DEF ServicesInv, ProvisioningInv, DeviceOK, P!KeepsReading
  <2> QED
    BY <2>1, <2>2 DEF KeepsReading
<1> QED
  BY <1>1, ServicesInvHolds, PTL

\* chatReceiveResponse() closes the WebSocket of a new device after the address and a
\* message, however many responses come before.
THEOREM ToldBeforeClosed == ServicesSpec => []NotCutOff
<1>1. ServicesInv => NotCutOff
  BY DEF ServicesInv, ProvisioningInv, DeviceOK, Provisioned, NotCutOff, P!NotCutOff
<1> QED
  BY <1>1, ServicesInvHolds, PTL

\* STATE_DONE of Discovery.c is final, also when attest() is still queued.
THEOREM DoneForGood == ServicesSpec => D!DoneIsFinal
<1>1. ServicesInv /\ [ServicesNext]_allVars => [state = "DONE" => state' = "DONE"]_(D!vars)
  BY ServicesStep
<1> QED
  BY <1>1, ServicesInvHolds, PTL DEF ServicesSpec, D!DoneIsFinal

\* What holds of both services.
AllInv == ServicesInv /\ LookupInv /\ ProvisioningTypes

\* A step of one service leaves the others alone.
LEMMA AllStep == ASSUME AllInv, [ServicesNext]_allVars PROVE AllInv'
<1>1. ServicesInv' /\ DiscoveryInv /\ ProvisioningInv /\ LookupInv /\ ProvisioningTypes
  BY ServicesStep DEF AllInv, ServicesInv
<1>2. ASSUME UNCHANGED cdsiVars PROVE LookupInv'
  <2>1. UNCHANGED <<cdsiEp, state, numbers, batches, registered, cdsiChunks, known>>
    BY <1>2 DEF cdsiVars
  <2>2. ASSUME NEW b \in batches' PROVE BatchOK(b)'
    BY <1>1, <2>1, <2>2 DEF LookupInv, BatchOK
  <2> QED
    BY <1>1, <2>1, <2>2 DEF LookupInv
<1>3. ASSUME UNCHANGED deviceVars PROVE ProvisioningTypes'
  BY <1>1, <1>3 DEF deviceVars, ProvisioningTypes
<1>4. CASE Next /\ UNCHANGED <<service, cdsiVars, deviceVars>>
  BY <1>1, <1>2, <1>3, <1>4 DEF AllInv
<1>5. CASE D!Next /\ UNCHANGED <<service, vars, deviceVars>>
  BY <1>1, <1>3, <1>5, LookupStep DEF AllInv
<1>6. CASE P!Next /\ UNCHANGED <<service, vars, cdsiVars>>
  BY <1>1, <1>2, <1>6, ProvisioningTypesStep DEF AllInv
<1>7. CASE UNCHANGED allVars
  BY <1>1, <1>2, <1>3, <1>7 DEF AllInv, allVars
<1> QED
  BY <1>4, <1>5, <1>6, <1>7 DEF ServicesNext

\* The connections, the look-ups and the messages of both services stay in order.
LEMMA AllInvHolds == ServicesSpec => []AllInv
<1>1. ServicesInit => AllInv
  BY DiscoveryInit, ProvisioningInit, LookupInit, ProvisioningTypesInit
  DEF ServicesInit, ServicesInv, AllInv
<1>2. AllInv /\ [ServicesNext]_allVars => AllInv'
  BY AllStep
<1> QED
  BY <1>1, <1>2, PTL DEF ServicesSpec

\* The response of cdsiBatch() is sent at most once and after the token; it has a result
\* for each number of the list, in order, whatever the sizes of the batches and of the
\* blocks of sendClientResponse() are; an account that it tells of exists, and one that
\* existed when the token was acknowledged is told of.
THEOREM CompleteResponse == ServicesSpec => []ResponseIsComplete
<1>1. AllInv => ResponseIsComplete
  <2> SUFFICES ASSUME AllInv PROVE D!ResponseIsComplete
    BY DEF ResponseIsComplete
  <2>1. Complete(cdsiEp.sent, numbers, registered, known)
    BY DEF AllInv, LookupInv
  <2> QED
    BY <2>1 DEF D!ResponseIsComplete, Complete, ResponseFits
<1> QED
  BY <1>1, AllInvHolds, PTL

\* The services take the steps of RestServer in its variables.
LEMMA ServicesImplementRestServer == ServicesSpec => Spec
<1>1. ServicesInit => Init
  BY DEF ServicesInit
<1>2. [ServicesNext]_allVars => [Next]_vars
  BY DEF ServicesNext, allVars
<1> QED
  BY <1>1, <1>2, PTL DEF ServicesSpec, Spec

\* An endpoint that is well-formed has the type of endpoints.
LEMMA TypeOfEndpoint ==
  ASSUME NEW e, NEW Pay, NEW done, WellFormed(e, Pay, done), NEW Sendables,
         e.sent \in Seq(Sendables)
  PROVE  EndpointType(e, Pay \cup {Status}, Sendables)
<1>1. DOMAIN e = DOMAIN Endpoint
  BY DEF WellFormed, WsTyped, Fields, Endpoint
<1>2. Event(Pay \cup {Status}) = WsEvents(Pay) /\
      [opcode : Opcodes, payload : Pay \cup {Status}] = Frames(Pay)
  BY DEF Event, WsEvents, Frames
<1> QED
  BY <1>1, <1>2 DEF EndpointType, WellFormed, WsTyped

\* Discovery and Provisioning type endpoints as WebSocket does.
LEMMA EndpointTypes ==
  ASSUME NEW e, NEW A, NEW B
  PROVE  /\ D!EndpointType(e, A, B) = EndpointType(e, A, B)
         /\ P!EndpointType(e, A, B) = EndpointType(e, A, B)
<1>1. D!EndpointType(e, A, B) = EndpointType(e, A, B)
  BY DEF D!EndpointType, EndpointType, D!Endpoint, Endpoint, D!Event, Event, D!Opcodes, Opcodes
<1>2. P!EndpointType(e, A, B) = EndpointType(e, A, B)
  BY DEF P!EndpointType, EndpointType, P!Endpoint, Endpoint, P!Event, Event, P!Opcodes, Opcodes
<1> QED
  BY <1>1, <1>2

\* The type invariants of RestServer, of Discovery and of Provisioning.
THEOREM TypesCorrect == ServicesSpec => []TypesOK
<1>1. AllInv => D!TypeOK
  <2> SUFFICES ASSUME AllInv PROVE D!TypeOK
    OBVIOUS
  <2>1. DiscoveryInv /\ LookupInv
    BY DEF AllInv, ServicesInv
  <2>2. D!EndpointType(cdsiEp, D!Payloads \cup {D!CloseFrame.payload}, D!Chunks)
    BY <2>1, TypeOfEndpoint, EndpointTypes, DiscoveryOperators DEF DiscoveryInv, LookupInv, Status
  <2>3. ASSUME NEW b \in batches
        PROVE  /\ b.offset \in 0..Len(b.numbers)
               /\ \A i \in DOMAIN b.numbers :
                    IF i <= b.offset THEN b.results[i] \in D!Result
                                     ELSE b.results[i] = D!NoResult
    <3>1. BatchOK(b)
      BY <2>1 DEF LookupInv
    <3>2. b.numbers = numbers
      BY <3>1 DEF BatchOK
    <3> QED
      BY <3>1, <3>2 DEF BatchOK, IsResultOf
  <2>4. cdsiChunks \in 0..(MaxChunks + 1)
    BY <2>1, BoundIsNat DEF DiscoveryInv, LookupInv
  <2> QED
    BY <2>1, <2>2, <2>3, <2>4 DEF D!TypeOK, DiscoveryInv, LookupInv
<1>2. AllInv => P!TypeOK
  <2> SUFFICES ASSUME AllInv PROVE P!TypeOK
    OBVIOUS
  <2>1. ASSUME NEW d \in Devices
        PROVE  P!EndpointType(deviceEp[d], P!Payloads \cup {P!CloseFrame.payload}, P!Chunks)
    <3>1. /\ WellFormed(deviceEp[d], P!Payloads, DeviceDone(deviceChunks[d]))
          /\ deviceEp[d].sent \in Seq(P!Chunks)
      BY DEF AllInv, ServicesInv, ProvisioningInv, DeviceOK, ProvisioningTypes
    <3> QED
      BY <3>1, TypeOfEndpoint, EndpointTypes, ProvisioningOperators DEF Status
  <2> QED
    BY <2>1 DEF P!TypeOK, AllInv, ProvisioningTypes
<1>3. TypeOK /\ D!TypeOK /\ P!TypeOK => TypesOK
  BY DEF TypesOK
<1> QED
  BY <1>1, <1>2, <1>3, AllInvHolds, ServicesImplementRestServer, TypeCorrect, PTL
===============================================================================
