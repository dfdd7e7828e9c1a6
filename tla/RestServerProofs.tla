--------------------------- MODULE RestServerProofs ---------------------------
(***************************************************************************)
(* Proofs about RestServer: for any requests, in any number, a request has *)
(* one response at most (two where getCertificateAuth() goes on after its  *)
(* 404), and _receiveEntity() finds the request that announced the entity. *)
(*                                                                         *)
(* Neither is inductive.  A request is, at any time, in one place: a frame *)
(* on its way, an event that waits, a queued task, or answered; and before *)
(* the upgrade the connection has one thing to do at a time: to read, to   *)
(* report an event, to run a task, or to send a response.                  *)
(***************************************************************************)
EXTENDS RestServer, FiniteSetTheorems, TLAPS

(***************************************************************************)
(* Types                                                                   *)
(***************************************************************************)

WsPayload == [type : {"request"}, id : Nat] \cup [type : {"status"}]

WsFrames == [opcode : Opcodes, payload : WsPayload]

Events ==
  [type : {"request"}, id : Nat] \cup [type : {"entity", "done", "disconnected"}]
  \cup [type : {"frame"}, opcode : Opcodes] \cup [type : {"chunk"}, payload : WsPayload]

Sendable == Chunk \cup {Closing}

Endpoints == [
  alive : BOOLEAN, conn : {"up", "ended"}, websocket : BOOLEAN, closing : BOOLEAN,
  opcode : Opcodes, inbox : Seq(Events),
  reading : {"none", "request", "entity", "frame", "payload"},
  stream : Seq(WsFrames), output : BOOLEAN, sent : Seq(Sendable)]

Task == [fn : {"authCall", "handler", "respond"}, id : Nat, req : Request]

Typed(e, q, ts, a) ==
  /\ e \in Endpoints
  /\ a \in Seq(Requests) /\ Len(a) <= MaxRequests
  /\ q \in 0..Len(a)
  /\ ts \subseteq Task

(***************************************************************************)
(* The inductive invariant, of an endpoint e, its request q, its tasks ts  *)
(* and the requests a that were made                                       *)
(***************************************************************************)

\* No event of these types waits.
None(e, types) == \A i \in DOMAIN e.inbox : e.inbox[i].type \notin types

\* The event, and the frame, of request id.
IsEvent(v, id) ==
  \/ v.type = "request" /\ v.id = id
  \/ v.type = "chunk" /\ v.payload.type = "request" /\ v.payload.id = id

IsFrame(f, id) == f.payload.type = "request" /\ f.payload.id = id

IsResponse(c, id) == c # Closing /\ c.id = id

NotWaiting(e, id) == \A i \in DOMAIN e.inbox : ~ IsEvent(e.inbox[i], id)
NotComing(e, id) == \A i \in DOMAIN e.stream : ~ IsFrame(e.stream[i], id)
NotAnswered(e, id) == \A i \in DOMAIN e.sent : ~ IsResponse(e.sent[i], id)
NotQueued(ts, id) == \A t \in ts : t.id # id

\* Contents and opcode of a frame agree.
Match(payload, opcode) == payload.type = IF opcode = "CLOSE" THEN "status" ELSE "request"

\* Frames and the events for them: _receiveWsChunk() looks at the opcode that
\* _receiveWsFrame() noted, and it is that of the same frame.
FramesPaired(e) ==
  /\ \A i \in DOMAIN e.stream : Match(e.stream[i].payload, e.stream[i].opcode)
  /\ \A i \in DOMAIN e.inbox : e.inbox[i].type = "frame" =>
       /\ e.reading # "frame"
       /\ \A j \in DOMAIN e.inbox : e.inbox[j].type = "frame" => j = i
       /\ \A j \in DOMAIN e.inbox : e.inbox[j].type = "chunk" =>
            i < j /\ Match(e.inbox[j].payload, e.inbox[i].opcode)
       /\ e.reading = "payload" => e.inbox[i].opcode = e.stream[1].opcode
  /\ e.alive /\ None(e, {"frame"}) =>
       /\ \A j \in DOMAIN e.inbox : e.inbox[j].type = "chunk" =>
            Match(e.inbox[j].payload, e.opcode)
       /\ e.reading = "payload" => e.opcode = e.stream[1].opcode
  /\ e.reading = "payload" => e.stream # <<>>

\* What was read, and not handled yet, is not read past.
OneEvent(e) ==
  \A i \in DOMAIN e.inbox : e.inbox[i].type \in {"request", "entity", "chunk"} =>
    /\ e.reading = "none"
    /\ \A j \in DOMAIN e.inbox :
         e.inbox[j].type \in {"request", "entity", "chunk"} => j = i

\* Before the upgrade: one thing at a time.
Http(e, ts) ==
  /\ e.stream = <<>> /\ e.reading \notin {"frame", "payload"}
  /\ None(e, {"frame", "chunk"})
  /\ e.reading # "none" => ts = {} /\ ~ e.output /\ None(e, {"done"})
  /\ \A i \in DOMAIN e.inbox : e.inbox[i].type \in {"request", "entity", "done"} =>
       /\ ts = {} /\ ~ e.output
       /\ \A j \in DOMAIN e.inbox :
            e.inbox[j].type \in {"request", "entity", "done"} => j = i
  /\ e.output => ts = {}
  /\ \A t, u \in ts : t = u

\* After the upgrade nothing of the HTTP connection is left.
Upgraded(e, q) ==
  /\ q = 0
  /\ e.reading \notin {"request", "entity"} /\ None(e, {"request", "entity"})

\* While an entity is read, or waits, its request is the last one.
EntityOf(e, q, a) ==
  e.reading = "entity" \/ ~ None(e, {"entity"}) => q = Len(a) /\ q # 0 /\ NotAnswered(e, q)

\* Every request is in one place.
InOnePlace(e, ts, a) ==
  /\ \A i \in DOMAIN e.inbox : \A id \in Nat : IsEvent(e.inbox[i], id) =>
       id \in 1..Len(a) /\ NotAnswered(e, id) /\ NotComing(e, id) /\ NotQueued(ts, id)
  /\ \A i \in DOMAIN e.stream : \A id \in Nat : IsFrame(e.stream[i], id) =>
       /\ id \in 1..Len(a) /\ NotAnswered(e, id) /\ NotQueued(ts, id)
       /\ \A j \in DOMAIN e.stream : IsFrame(e.stream[j], id) => j = i
  /\ \A t \in ts : t.id \in 1..Len(a) /\ NotAnswered(e, t.id)
  /\ \A t, u \in ts : t.id = u.id => t = u

\* The events of HTTP requests are for the last one.
LastRequest(e, a) ==
  \A i \in DOMAIN e.inbox : e.inbox[i].type = "request" => e.inbox[i].id = Len(a)

\* A queued call is that of its request, and one that has to be authenticated.
TasksOfRequests(ts, a) ==
  \A t \in ts : /\ t.req.handler = a[t.id].handler /\ t.req.param = a[t.id].param
                /\ HasAuth(t.req)

\* The responses to a request: one, or two in a row.
Answers(e, a) ==
  \A i, j \in DOMAIN e.sent : e.sent[i] # Closing /\ e.sent[j] # Closing =>
    /\ e.sent[i].id \in 1..Len(a)
    /\ e.sent[i].id = e.sent[j].id =>
         \/ i = j
         \/ AnsweredTwice(a[e.sent[i].id]) /\ i <= j + 1 /\ j <= i + 1

Good(e, q, ts, a) ==
  /\ Typed(e, q, ts, a)
  /\ FramesPaired(e) /\ OneEvent(e)
  /\ ~ e.websocket => Http(e, ts)
  /\ e.websocket => Upgraded(e, q)
  /\ EntityOf(e, q, a)
  /\ InOnePlace(e, ts, a) /\ LastRequest(e, a) /\ TasksOfRequests(ts, a)
  /\ Answers(e, a)

Inv == Good(ep, request, tasks, asked) /\ login \in BOOLEAN

(***************************************************************************)
(* The connection                                                          *)
(***************************************************************************)

\* The parts of an endpoint.
LEMMA Parts ==
  ASSUME NEW e \in Endpoints
  PROVE  /\ e.inbox \in Seq(Events) /\ e.stream \in Seq(WsFrames)
         /\ e.sent \in Seq(Sendable) /\ e.opcode \in Opcodes
         /\ e.alive \in BOOLEAN /\ e.websocket \in BOOLEAN /\ e.closing \in BOOLEAN
         /\ e.output \in BOOLEAN /\ e.conn \in {"up", "ended"}
         /\ e.reading \in {"none", "request", "entity", "frame", "payload"}
  BY DEF Endpoints

\* The events, and the frames, that are put together in WebSocket and RestServer.
LEMMA EventTypes ==
  /\ [type |-> "done"] \in Events /\ [type |-> "entity"] \in Events
  /\ [type |-> "disconnected"] \in Events
  /\ \A n \in Nat : [type |-> "request", id |-> n] \in Events
  /\ \A o \in Opcodes : [type |-> "frame", opcode |-> o] \in Events
  /\ \A p \in WsPayload : [type |-> "chunk", payload |-> p] \in Events
  BY DEF Events

\* What Append does to a queue of events, of frames, or of responses.
LEMMA Appended ==
  ASSUME NEW S, NEW s \in Seq(S), NEW x \in S
  PROVE  /\ Append(s, x) \in Seq(S) /\ Len(s) \in Nat
         /\ DOMAIN s = 1..Len(s) /\ DOMAIN Append(s, x) = 1..(Len(s) + 1)
         /\ Len(Append(s, x)) = Len(s) + 1
         /\ \A i \in DOMAIN s : Append(s, x)[i] = s[i]
         /\ Append(s, x)[Len(s) + 1] = x
  OBVIOUS

\* What Tail does to one.
LEMMA TailOf ==
  ASSUME NEW S, NEW s \in Seq(S), s # <<>>
  PROVE  /\ Tail(s) \in Seq(S) /\ Len(s) \in Nat \ {0}
         /\ DOMAIN s = 1..Len(s) /\ DOMAIN Tail(s) = 1..(Len(s) - 1)
         /\ \A i \in DOMAIN Tail(s) : Tail(s)[i] = s[i + 1] /\ i + 1 \in DOMAIN s
         /\ 1 \in DOMAIN s /\ s[1] = Head(s) /\ s[1] \in S
  OBVIOUS

\* Requests stay where they are if none is added to the events.
LEMMA PlacesKept ==
  ASSUME NEW e, NEW f, NEW ts, NEW a, InOnePlace(e, ts, a),
         f.sent = e.sent, f.stream = e.stream,
         \A id \in Nat : NotWaiting(e, id) => NotWaiting(f, id)
  PROVE  InOnePlace(f, ts, a)
<1>1. \A id : (NotAnswered(f, id) <=> NotAnswered(e, id)) /\ (NotComing(f, id) <=> NotComing(e, id))
  BY DEF NotAnswered, NotComing
<1>2. \A i \in DOMAIN f.inbox : \A id \in Nat : IsEvent(f.inbox[i], id) =>
        \E k \in DOMAIN e.inbox : IsEvent(e.inbox[k], id)
  BY DEF NotWaiting
<1>3. \A i \in DOMAIN f.inbox : \A id \in Nat : IsEvent(f.inbox[i], id) =>
        id \in 1..Len(a) /\ NotAnswered(f, id) /\ NotComing(f, id) /\ NotQueued(ts, id)
  BY <1>1, <1>2 DEF InOnePlace
<1> QED
  BY <1>1, <1>3 DEF InOnePlace

\* The connection reads an entity: HttpEntity.
LEMMA EntityRead ==
  ASSUME NEW e, NEW q, NEW ts, NEW a, Good(e, q, ts, a), e.reading = "entity"
  PROVE  Good([e EXCEPT !.reading = "none", !.inbox = Append(@, [type |-> "entity"])],
              q, ts, a)
<1> DEFINE v == [type |-> "entity"]
           f == [e EXCEPT !.reading = "none", !.inbox = Append(@, v)]
<1>1. e \in Endpoints /\ e.inbox \in Seq(Events) /\ v \in Events
  BY Parts, EventTypes DEF Good, Typed
<1>2. v.type = "entity" /\ \A id : ~ IsEvent(v, id)
  BY DEF IsEvent
<1> HIDE DEF v
<1>3. f \in Endpoints /\ f.reading = "none" /\ f.inbox = Append(e.inbox, v)
  <2>1. Append(e.inbox, v) \in Seq(Events)
    BY <1>1, Appended
  <2> QED
    BY <1>1, <2>1 DEF Endpoints
<1>4. /\ f.stream = e.stream /\ f.sent = e.sent /\ f.websocket = e.websocket
      /\ f.alive = e.alive /\ f.opcode = e.opcode /\ f.output = e.output
  BY <1>1 DEF Endpoints
<1> HIDE DEF f
<1>5. /\ DOMAIN e.inbox = 1..Len(e.inbox) /\ DOMAIN f.inbox = 1..(Len(e.inbox) + 1)
      /\ Len(e.inbox) \in Nat
      /\ \A i \in DOMAIN e.inbox : f.inbox[i] = e.inbox[i]
      /\ f.inbox[Len(e.inbox) + 1] = v
  BY <1>1, <1>3, Appended
<1>6. ~ e.websocket
  BY DEF Good, Upgraded
<1>7. None(e, {"request", "entity", "chunk", "frame", "done"})
  BY <1>6 DEF Good, Http, None, OneEvent
<1>8. FramesPaired(f)
  BY <1>2, <1>3, <1>4, <1>5, <1>7 DEF Good, FramesPaired, None
<1>9. OneEvent(f)
  BY <1>2, <1>3, <1>5, <1>7 DEF None, OneEvent
<1>10. Http(f, ts)
  BY <1>2, <1>3, <1>4, <1>5, <1>6, <1>7 DEF Good, Http, None
<1>11. EntityOf(f, q, a)
  BY <1>4 DEF Good, EntityOf, NotAnswered
<1>12. InOnePlace(f, ts, a)
  <2>1. \A id : NotWaiting(e, id) => NotWaiting(f, id)
    BY <1>2, <1>5 DEF NotWaiting
  <2> QED
    BY <1>4, <2>1, PlacesKept DEF Good
<1>13. LastRequest(f, a) /\ Answers(f, a)
  BY <1>2, <1>4, <1>5 DEF Good, LastRequest, Answers
<1> QED
  BY <1>3, <1>4, <1>6, <1>8, <1>9, <1>10, <1>11, <1>12, <1>13 DEF Good, Typed, f, v

\* The connection reads a request: HttpRequest.
LEMMA RequestRead ==
  ASSUME NEW e, NEW q, NEW ts, NEW a, Good(e, q, ts, a), e.reading = "request",
         NEW req \in Requests, Len(a) < MaxRequests
  PROVE  Good([e EXCEPT !.reading = "none",
                 !.inbox = Append(@, [type |-> "request", id |-> Len(Append(a, req))])],
              q, ts, Append(a, req))
<1> DEFINE b == Append(a, req)
           v == [type |-> "request", id |-> Len(b)]
           f == [e EXCEPT !.reading = "none", !.inbox = Append(@, v)]
<1>0. a \in Seq(Requests) /\ q \in 0..Len(a) /\ ts \subseteq Task /\ MaxRequests \in Nat
  BY BoundAssumption DEF Good, Typed
<1>1. /\ b \in Seq(Requests) /\ Len(b) = Len(a) + 1 /\ Len(a) \in Nat
      /\ \A id \in 1..Len(a) : b[id] = a[id]
  BY <1>0
<1> HIDE DEF b
<1>2. e \in Endpoints /\ e.inbox \in Seq(Events) /\ v \in Events
  BY <1>1, Parts, EventTypes DEF Good, Typed
<1>3. v.type = "request" /\ v.id = Len(b) /\ \A id : IsEvent(v, id) => id = Len(b)
  BY DEF IsEvent
<1> HIDE DEF v
<1>4. f \in Endpoints /\ f.reading = "none" /\ f.inbox = Append(e.inbox, v)
  <2>1. Append(e.inbox, v) \in Seq(Events)
    BY <1>2, Appended
  <2> QED
    BY <1>2, <2>1 DEF Endpoints
<1>5. /\ f.stream = e.stream /\ f.sent = e.sent /\ f.websocket = e.websocket
      /\ f.alive = e.alive /\ f.opcode = e.opcode /\ f.output = e.output
  BY <1>2 DEF Endpoints
<1> HIDE DEF f
<1>6. /\ DOMAIN e.inbox = 1..Len(e.inbox) /\ DOMAIN f.inbox = 1..(Len(e.inbox) + 1)
      /\ Len(e.inbox) \in Nat
      /\ \A i \in DOMAIN e.inbox : f.inbox[i] = e.inbox[i]
      /\ f.inbox[Len(e.inbox) + 1] = v
  BY <1>2, <1>4, Appended
<1>7. ~ e.websocket /\ ts = {} /\ e.stream = <<>>
  BY DEF Good, Upgraded, Http
<1>8. None(e, {"request", "entity", "chunk", "frame", "done"})
  BY <1>7 DEF Good, Http, None, OneEvent
<1>9. FramesPaired(f)
  BY <1>3, <1>4, <1>5, <1>6, <1>8 DEF Good, FramesPaired, None
<1>10. OneEvent(f)
  BY <1>3, <1>4, <1>6, <1>8 DEF None, OneEvent
<1>11. Http(f, ts)
  BY <1>3, <1>4, <1>5, <1>6, <1>7, <1>8 DEF Good, Http, None
<1>12. EntityOf(f, q, b)
  BY <1>3, <1>4, <1>6, <1>8 DEF EntityOf, None
<1>13. Answers(f, b)
  <2>1. \A i, j \in DOMAIN e.sent : e.sent[i] # Closing /\ e.sent[j] # Closing =>
          e.sent[i].id \in 1..Len(a)
    BY DEF Good, Answers
  <2> QED
    BY <1>1, <1>5, <2>1 DEF Good, Answers
<1>14. NotAnswered(f, Len(b))
  BY <1>1, <1>5 DEF Good, Answers, NotAnswered, IsResponse
<1>15. \A i \in DOMAIN e.inbox : \A id \in Nat : ~ IsEvent(e.inbox[i], id)
  BY <1>8 DEF None, IsEvent
<1>16. InOnePlace(f, ts, b)
  BY <1>1, <1>3, <1>5, <1>6, <1>7, <1>14, <1>15 DEF InOnePlace, NotComing, NotQueued
<1>17. LastRequest(f, b) /\ TasksOfRequests(ts, b)
  BY <1>3, <1>6, <1>7, <1>8 DEF LastRequest, TasksOfRequests, None
<1>18. Typed(f, q, ts, b)
  BY <1>0, <1>1, <1>4 DEF Typed
<1> QED
  BY <1>5, <1>7, <1>9, <1>10, <1>11, <1>12, <1>13, <1>16, <1>17, <1>18 DEF Good, f, v, b

\* A request over the WebSocket is on its way: WsRequest.
LEMMA RequestSent ==
  ASSUME NEW e, NEW q, NEW ts, NEW a, Good(e, q, ts, a), e.websocket,
         NEW req \in Requests, Len(a) < MaxRequests
  PROVE  Good(ClientSends(e, Frame([type |-> "request", id |-> Len(Append(a, req))])),
              q, ts, Append(a, req))
<1> DEFINE b == Append(a, req)
           x == Frame([type |-> "request", id |-> Len(b)])
           f == ClientSends(e, x)
<1>0. a \in Seq(Requests) /\ q \in 0..Len(a) /\ ts \subseteq Task /\ MaxRequests \in Nat
  BY BoundAssumption DEF Good, Typed
<1>1. /\ b \in Seq(Requests) /\ Len(b) = Len(a) + 1 /\ Len(a) \in Nat
      /\ \A id \in 1..Len(a) : b[id] = a[id]
  BY <1>0
<1> HIDE DEF b
<1>2. e \in Endpoints /\ e.stream \in Seq(WsFrames) /\ x \in WsFrames
  BY <1>1, Parts DEF Good, Typed, Frame, WsFrames, WsPayload, Opcodes
<1>3. Match(x.payload, x.opcode) /\ \A id : IsFrame(x, id) <=> id = Len(b)
  BY DEF IsFrame, Frame, Match
<1> HIDE DEF x
<1>4. f \in Endpoints /\ f.stream = Append(e.stream, x)
  <2>1. Append(e.stream, x) \in Seq(WsFrames)
    BY <1>2, Appended
  <2> QED
    BY <1>2, <2>1 DEF Endpoints, ClientSends
<1>5. /\ f.inbox = e.inbox /\ f.sent = e.sent /\ f.websocket = e.websocket
      /\ f.alive = e.alive /\ f.opcode = e.opcode /\ f.output = e.output /\ f.reading = e.reading
  BY <1>2 DEF Endpoints, ClientSends
<1> HIDE DEF f
<1>6. /\ DOMAIN e.stream = 1..Len(e.stream) /\ DOMAIN f.stream = 1..(Len(e.stream) + 1)
      /\ Len(e.stream) \in Nat
      /\ \A i \in DOMAIN e.stream : f.stream[i] = e.stream[i]
      /\ f.stream[Len(e.stream) + 1] = x
  BY <1>2, <1>4, Appended
<1>7. FramesPaired(f)
  <2>1. f.stream # <<>>
    BY <1>6
  <2>2. e.reading = "payload" => f.stream[1] = e.stream[1]
    BY <1>2, <1>6 DEF Good, FramesPaired
  <2>3. None(f, {"frame"}) <=> None(e, {"frame"})
    BY <1>5 DEF None
  <2>4. \A i \in DOMAIN f.stream : Match(f.stream[i].payload, f.stream[i].opcode)
    BY <1>3, <1>6 DEF Good, FramesPaired
  <2> QED
    BY <1>5, <2>1, <2>2, <2>3, <2>4 DEF Good, FramesPaired
<1>8. OneEvent(f) /\ Upgraded(f, q)
  BY <1>5 DEF Good, OneEvent, Upgraded, None
<1>9. Answers(f, b)
  <2>1. \A i, j \in DOMAIN e.sent : e.sent[i] # Closing /\ e.sent[j] # Closing =>
          e.sent[i].id \in 1..Len(a)
    BY DEF Good, Answers
  <2> QED
    BY <1>1, <1>5, <2>1 DEF Good, Answers
<1>10. EntityOf(f, q, b)
  BY <1>8 DEF Upgraded, EntityOf, None
<1>11. NotAnswered(e, Len(b))
  BY <1>1 DEF Good, Answers, NotAnswered, IsResponse
<1>12. InOnePlace(f, ts, b)
  <2>1. \A id : NotAnswered(f, id) <=> NotAnswered(e, id)
    BY <1>5 DEF NotAnswered
  <2>2. \A id \in 1..Len(a) : NotComing(e, id) => NotComing(f, id)
    BY <1>1, <1>3, <1>6 DEF NotComing
  <2>3. \A i \in DOMAIN f.inbox : \A id \in Nat : IsEvent(f.inbox[i], id) =>
          id \in 1..Len(b) /\ NotAnswered(f, id) /\ NotComing(f, id) /\ NotQueued(ts, id)
    BY <1>1, <1>5, <2>1, <2>2 DEF Good, InOnePlace
  <2>4. NotQueued(ts, Len(b))
    BY <1>1 DEF Good, InOnePlace, NotQueued
  <2>5. \A i \in DOMAIN e.stream : ~ IsFrame(e.stream[i], Len(b))
    BY <1>1 DEF Good, InOnePlace
  <2>6. \A i \in DOMAIN f.stream : \A id \in Nat : IsFrame(f.stream[i], id) =>
         /\ id \in 1..Len(b) /\ NotAnswered(f, id) /\ NotQueued(ts, id)
         /\ \A j \in DOMAIN f.stream : IsFrame(f.stream[j], id) => j = i
    <3> SUFFICES ASSUME NEW i \in DOMAIN f.stream, NEW id \in Nat, IsFrame(f.stream[i], id)
                 PROVE  /\ id \in 1..Len(b) /\ NotAnswered(f, id) /\ NotQueued(ts, id)
                        /\ \A j \in DOMAIN f.stream : IsFrame(f.stream[j], id) => j = i
      OBVIOUS
    <3>1. CASE i \in DOMAIN e.stream
      <4>1. /\ id \in 1..Len(a) /\ NotAnswered(e, id) /\ NotQueued(ts, id)
            /\ \A j \in DOMAIN e.stream : IsFrame(e.stream[j], id) => j = i
        BY <1>6, <3>1 DEF Good, InOnePlace
      <4> QED
        BY <1>1, <1>3, <1>6, <2>1, <4>1
    <3>2. CASE i = Len(e.stream) + 1
      BY <1>1, <1>3, <1>6, <1>11, <2>1, <2>4, <2>5, <3>2
    <3> QED
      BY <1>6, <3>1, <3>2
  <2> QED
    BY <1>1, <2>1, <2>3, <2>6 DEF Good, InOnePlace
<1>13. LastRequest(f, b)
  BY <1>8 DEF LastRequest, Upgraded, None
<1>14. TasksOfRequests(ts, b)
  BY <1>1 DEF Good, InOnePlace, TasksOfRequests
<1>15. Typed(f, q, ts, b)
  BY <1>0, <1>1, <1>4 DEF Typed
<1> QED
  BY <1>5, <1>7, <1>8, <1>9, <1>10, <1>12, <1>13, <1>14, <1>15 DEF Good, f, x, b

\* The client closes the WebSocket: ClientClose.
LEMMA CloseComes ==
  ASSUME NEW e, NEW q, NEW ts, NEW a, Good(e, q, ts, a), e.websocket
  PROVE  Good(ClientSends(e, CloseFrame), q, ts, a)
<1> DEFINE x == CloseFrame
           f == ClientSends(e, x)
<1>2. e \in Endpoints /\ e.stream \in Seq(WsFrames) /\ x \in WsFrames
  BY Parts DEF Good, Typed, CloseFrame, WsFrames, WsPayload, Opcodes
<1>3. Match(x.payload, x.opcode) /\ \A id : ~ IsFrame(x, id)
  BY DEF IsFrame, CloseFrame, Match
<1> HIDE DEF x
<1>4. f \in Endpoints /\ f.stream = Append(e.stream, x)
  <2>1. Append(e.stream, x) \in Seq(WsFrames)
    BY <1>2, Appended
  <2> QED
    BY <1>2, <2>1 DEF Endpoints, ClientSends
<1>5. /\ f.inbox = e.inbox /\ f.sent = e.sent /\ f.websocket = e.websocket
      /\ f.alive = e.alive /\ f.opcode = e.opcode /\ f.output = e.output /\ f.reading = e.reading
  BY <1>2 DEF Endpoints, ClientSends
<1> HIDE DEF f
<1>6. /\ DOMAIN e.stream = 1..Len(e.stream) /\ DOMAIN f.stream = 1..(Len(e.stream) + 1)
      /\ Len(e.stream) \in Nat
      /\ \A i \in DOMAIN e.stream : f.stream[i] = e.stream[i]
      /\ f.stream[Len(e.stream) + 1] = x
  BY <1>2, <1>4, Appended
<1>7. FramesPaired(f)
  <2>1. f.stream # <<>>
    BY <1>6
  <2>2. e.reading = "payload" => f.stream[1] = e.stream[1]
    BY <1>2, <1>6 DEF Good, FramesPaired
  <2>3. None(f, {"frame"}) <=> None(e, {"frame"})
    BY <1>5 DEF None
  <2>4. \A i \in DOMAIN f.stream : Match(f.stream[i].payload, f.stream[i].opcode)
    BY <1>3, <1>6 DEF Good, FramesPaired
  <2> QED
    BY <1>5, <2>1, <2>2, <2>3, <2>4 DEF Good, FramesPaired
<1>8. OneEvent(f) /\ Upgraded(f, q)
  BY <1>5 DEF Good, OneEvent, Upgraded, None
<1>9. EntityOf(f, q, a)
  BY <1>8 DEF Upgraded, EntityOf, None
<1>10. InOnePlace(f, ts, a)
  <2>1. \A id : NotAnswered(f, id) <=> NotAnswered(e, id)
    BY <1>5 DEF NotAnswered
  <2>2. \A id \in Nat : NotComing(e, id) => NotComing(f, id)
    BY <1>3, <1>6 DEF NotComing
  <2>3. \A i \in DOMAIN f.inbox : \A id \in Nat : IsEvent(f.inbox[i], id) =>
          id \in 1..Len(a) /\ NotAnswered(f, id) /\ NotComing(f, id) /\ NotQueued(ts, id)
    BY <1>5, <2>1, <2>2 DEF Good, InOnePlace
  <2>4. \A i \in DOMAIN f.stream : \A id \in Nat : IsFrame(f.stream[i], id) =>
         i \in DOMAIN e.stream /\ IsFrame(e.stream[i], id)
    BY <1>3, <1>6
  <2> QED
    BY <2>1, <2>3, <2>4 DEF Good, InOnePlace
<1>11. LastRequest(f, a) /\ Answers(f, a)
  BY <1>5 DEF Good, LastRequest, Answers
<1>12. Typed(f, q, ts, a)
  BY <1>4 DEF Good, Typed
<1> QED
  BY <1>5, <1>7, <1>8, <1>9, <1>10, <1>11, <1>12 DEF Good, f, x

\* The connection ends: terminate(), the network or the client.
LEMMA EndedGood ==
  ASSUME NEW e, NEW q, NEW ts, NEW a, Good(e, q, ts, a)
  PROVE  Good(Ended(e), q, ts, a)
<1> DEFINE v == [type |-> "disconnected"]
           f == Ended(e)
<1>1. e \in Endpoints /\ e.inbox \in Seq(Events) /\ v \in Events
  BY Parts, EventTypes DEF Good, Typed
<1>2. v.type = "disconnected" /\ \A id : ~ IsEvent(v, id)
  BY DEF IsEvent
<1>3. f \in Endpoints /\ f.reading = "none" /\ f.inbox = Append(e.inbox, v)
  <2>1. Append(e.inbox, v) \in Seq(Events) /\ <<>> \in Seq(WsFrames)
    BY <1>1, Appended
  <2> QED
    BY <1>1, <2>1 DEF Endpoints, Ended
<1>4. /\ f.stream = <<>> /\ f.sent = e.sent /\ f.websocket = e.websocket
      /\ f.alive = e.alive /\ f.opcode = e.opcode /\ f.output = FALSE
  BY <1>1 DEF Endpoints, Ended
<1> HIDE DEF v, f
<1>5. /\ DOMAIN e.inbox = 1..Len(e.inbox) /\ DOMAIN f.inbox = 1..(Len(e.inbox) + 1)
      /\ Len(e.inbox) \in Nat
      /\ \A i \in DOMAIN e.inbox : f.inbox[i] = e.inbox[i]
      /\ f.inbox[Len(e.inbox) + 1] = v
  BY <1>1, <1>3, Appended
<1>6. \A i \in DOMAIN f.inbox : f.inbox[i].type # "disconnected" =>
        i \in DOMAIN e.inbox /\ f.inbox[i] = e.inbox[i]
  BY <1>2, <1>5
<1>7. \A types : "disconnected" \notin types => (None(f, types) <=> None(e, types))
  BY <1>2, <1>5 DEF None
<1>8. None(f, {"frame"}) <=> None(e, {"frame"})
  BY <1>7
<1>9. FramesPaired(f)
  BY <1>3, <1>4, <1>6, <1>8 DEF Good, FramesPaired
<1>10. OneEvent(f)
  BY <1>3, <1>6 DEF Good, OneEvent
<1>11. ~ f.websocket => Http(f, ts)
  <2>1. None(f, {"frame", "chunk"}) <=> None(e, {"frame", "chunk"})
    BY <1>7
  <2> QED
    BY <1>3, <1>4, <1>6, <2>1 DEF Good, Http
<1>12. f.websocket => Upgraded(f, q)
  <2>1. None(f, {"request", "entity"}) <=> None(e, {"request", "entity"})
    BY <1>7
  <2> QED
    BY <1>3, <1>4, <2>1 DEF Good, Upgraded
<1>13. EntityOf(f, q, a)
  <2>1. None(f, {"entity"}) <=> None(e, {"entity"})
    BY <1>7
  <2> QED
    BY <1>3, <1>4, <2>1 DEF Good, EntityOf, NotAnswered
<1>14. InOnePlace(f, ts, a)
  <2>1. \A id : NotAnswered(f, id) <=> NotAnswered(e, id)
    BY <1>4 DEF NotAnswered
  <2>2. \A i \in DOMAIN f.inbox : \A id \in Nat : IsEvent(f.inbox[i], id) =>
         i \in DOMAIN e.inbox /\ IsEvent(e.inbox[i], id)
    BY <1>2, <1>5
  <2>3. \A id : NotComing(f, id)
    BY <1>4 DEF NotComing
  <2>4. \A i \in DOMAIN f.inbox : \A id \in Nat : IsEvent(f.inbox[i], id) =>
          id \in 1..Len(a) /\ NotAnswered(f, id) /\ NotComing(f, id) /\ NotQueued(ts, id)
    BY <2>1, <2>2, <2>3 DEF Good, InOnePlace
  <2>5. DOMAIN f.stream = {}
    BY <1>4
  <2>6. /\ \A t \in ts : t.id \in 1..Len(a) /\ NotAnswered(f, t.id)
        /\ \A t, u \in ts : t.id = u.id => t = u
    BY <2>1 DEF Good, InOnePlace
  <2> QED
    BY <2>4, <2>5, <2>6 DEF InOnePlace
<1>15. LastRequest(f, a) /\ Answers(f, a)
  BY <1>4, <1>6 DEF Good, LastRequest, Answers
<1>16. Typed(f, q, ts, a)
  BY <1>3 DEF Good, Typed
<1> QED
  BY <1>9, <1>10, <1>11, <1>12, <1>13, <1>14, <1>15, <1>16 DEF Good, f

\* The header of a frame is read.
LEMMA FrameRead ==
  ASSUME NEW e, NEW q, NEW ts, NEW a, Good(e, q, ts, a), CanReadFrame(e)
  PROVE  Good(ReadFrame(e), q, ts, a)
<1> DEFINE v == [type |-> "frame", opcode |-> Head(e.stream).opcode]
           f == ReadFrame(e)
<1>0. e \in Endpoints /\ e.inbox \in Seq(Events) /\ e.stream \in Seq(WsFrames)
  BY Parts DEF Good, Typed
<1>1. /\ v \in Events /\ e.stream # <<>> /\ 1 \in DOMAIN e.stream
      /\ e.stream[1] = Head(e.stream)
  <2>1. /\ e.stream # <<>> /\ 1 \in DOMAIN e.stream /\ e.stream[1] = Head(e.stream)
        /\ e.stream[1] \in WsFrames
    BY <1>0, TailOf DEF CanReadFrame
  <2>2. Head(e.stream).opcode \in Opcodes
    BY <2>1 DEF WsFrames
  <2> QED
    BY <2>1, <2>2, EventTypes
<1>2. v.type = "frame" /\ v.opcode = e.stream[1].opcode /\ \A id : ~ IsEvent(v, id)
  BY <1>1 DEF IsEvent
<1>3. f \in Endpoints /\ f.reading = "payload" /\ f.inbox = Append(e.inbox, v)
  <2>1. Append(e.inbox, v) \in Seq(Events)
    BY <1>0, <1>1, Appended
  <2> QED
    BY <1>0, <2>1 DEF Endpoints, ReadFrame
<1>4. /\ f.stream = e.stream /\ f.sent = e.sent /\ f.websocket = e.websocket
      /\ f.alive = e.alive /\ f.opcode = e.opcode /\ f.output = e.output
  BY <1>0 DEF Endpoints, ReadFrame
<1> HIDE DEF v, f
<1>5. /\ DOMAIN e.inbox = 1..Len(e.inbox) /\ DOMAIN f.inbox = 1..(Len(e.inbox) + 1)
      /\ Len(e.inbox) \in Nat
      /\ \A i \in DOMAIN e.inbox : f.inbox[i] = e.inbox[i]
      /\ f.inbox[Len(e.inbox) + 1] = v
  BY <1>0, <1>1, <1>3, Appended
<1>6. e.websocket /\ e.reading = "frame"
  BY DEF CanReadFrame, Good, Http
<1>7. None(e, {"request", "entity", "chunk", "frame"})
  BY <1>6 DEF Good, None, OneEvent, FramesPaired
<1>8. FramesPaired(f)
  BY <1>1, <1>2, <1>3, <1>4, <1>5, <1>7 DEF Good, FramesPaired, None
<1>9. OneEvent(f) /\ Upgraded(f, q)
  BY <1>2, <1>3, <1>5, <1>6, <1>7 DEF Good, None, OneEvent, Upgraded
<1>10. EntityOf(f, q, a)
  BY <1>9 DEF EntityOf, Upgraded, None
<1>11. InOnePlace(f, ts, a)
  <2>1. \A id : NotWaiting(e, id) => NotWaiting(f, id)
    BY <1>2, <1>5 DEF NotWaiting
  <2> QED
    BY <1>4, <2>1, PlacesKept DEF Good
<1>12. LastRequest(f, a) /\ Answers(f, a)
  BY <1>2, <1>4, <1>5 DEF Good, LastRequest, Answers
<1>13. Typed(f, q, ts, a)
  BY <1>3 DEF Good, Typed
<1> QED
  BY <1>4, <1>6, <1>8, <1>9, <1>10, <1>11, <1>12, <1>13 DEF Good, f

\* The contents of a frame are read: what was on its way now waits.
LEMMA PayloadRead ==
  ASSUME NEW e, NEW q, NEW ts, NEW a, Good(e, q, ts, a), CanReadPayload(e)
  PROVE  Good(ReadPayload(e), q, ts, a)
<1> DEFINE v == [type |-> "chunk", payload |-> Head(e.stream).payload]
           f == ReadPayload(e)
<1>0. e \in Endpoints /\ e.inbox \in Seq(Events) /\ e.stream \in Seq(WsFrames)
  BY Parts DEF Good, Typed
<1>1. /\ DOMAIN e.stream = 1..Len(e.stream) /\ Len(e.stream) \in Nat \ {0}
      /\ DOMAIN Tail(e.stream) = 1..(Len(e.stream) - 1)
      /\ \A i \in DOMAIN Tail(e.stream) :
           Tail(e.stream)[i] = e.stream[i + 1] /\ i + 1 \in DOMAIN e.stream
      /\ e.stream[1] = Head(e.stream) /\ e.stream[1] \in WsFrames
      /\ Tail(e.stream) \in Seq(WsFrames) /\ 1 \in DOMAIN e.stream
  BY <1>0, TailOf DEF Good, FramesPaired, CanReadPayload
<1>2. v \in Events
  <2>1. Head(e.stream).payload \in WsPayload
    BY <1>1 DEF WsFrames
  <2> QED
    BY <2>1, EventTypes
<1>3. /\ v.type = "chunk" /\ v.payload = e.stream[1].payload
      /\ \A id : IsEvent(v, id) <=> IsFrame(e.stream[1], id)
  BY <1>1 DEF IsEvent, IsFrame
<1>4. f \in Endpoints /\ f.reading = "none" /\ f.inbox = Append(e.inbox, v)
  <2>1. Append(e.inbox, v) \in Seq(Events)
    BY <1>0, <1>2, Appended
  <2> QED
    BY <1>0, <1>1, <2>1 DEF Endpoints, ReadPayload
<1>5. /\ f.stream = Tail(e.stream) /\ f.sent = e.sent /\ f.websocket = e.websocket
      /\ f.alive = e.alive /\ f.opcode = e.opcode /\ f.output = e.output
  BY <1>0 DEF Endpoints, ReadPayload
<1> HIDE DEF v, f
<1>6. /\ DOMAIN e.inbox = 1..Len(e.inbox) /\ DOMAIN f.inbox = 1..(Len(e.inbox) + 1)
      /\ Len(e.inbox) \in Nat
      /\ \A i \in DOMAIN e.inbox : f.inbox[i] = e.inbox[i]
      /\ f.inbox[Len(e.inbox) + 1] = v
  BY <1>0, <1>2, <1>4, Appended
<1>7. e.websocket /\ e.reading = "payload"
  BY DEF CanReadPayload, Good, Http
<1>8. None(e, {"request", "entity", "chunk"})
  BY <1>7 DEF Good, None, OneEvent
<1>9. FramesPaired(f)
  <2>1. Match(v.payload, e.stream[1].opcode)
    BY <1>1, <1>3 DEF Good, FramesPaired
  <2>2. \A i \in DOMAIN f.stream : Match(f.stream[i].payload, f.stream[i].opcode)
    BY <1>1, <1>5 DEF Good, FramesPaired
  <2>3. None(f, {"frame"}) <=> None(e, {"frame"})
    BY <1>3, <1>6 DEF None
  <2>4. \A i \in DOMAIN f.inbox :
          /\ f.inbox[i].type = "chunk" <=> i = Len(e.inbox) + 1
          /\ f.inbox[i].type = "frame" <=> i \in DOMAIN e.inbox /\ e.inbox[i].type = "frame"
    BY <1>3, <1>6, <1>8 DEF None
  <2>5. \A i \in DOMAIN e.inbox : e.inbox[i].type = "frame" =>
          /\ e.inbox[i].opcode = e.stream[1].opcode
          /\ \A j \in DOMAIN e.inbox : e.inbox[j].type = "frame" => j = i
    BY <1>7 DEF Good, FramesPaired
  <2>6. e.alive /\ None(e, {"frame"}) => e.opcode = e.stream[1].opcode
    BY <1>7 DEF Good, FramesPaired
  <2> QED
    BY <1>4, <1>5, <1>6, <2>1, <2>2, <2>3, <2>4, <2>5, <2>6 DEF FramesPaired
<1>10. OneEvent(f) /\ Upgraded(f, q)
  BY <1>3, <1>4, <1>6, <1>7, <1>8 DEF Good, None, OneEvent, Upgraded
<1>11. EntityOf(f, q, a)
  BY <1>10 DEF EntityOf, Upgraded, None
<1>12. InOnePlace(f, ts, a)
  <2>1. \A id : NotAnswered(f, id) <=> NotAnswered(e, id)
    BY <1>5 DEF NotAnswered
  <2>2. \A i \in DOMAIN f.inbox : \A id \in Nat : IsEvent(f.inbox[i], id) =>
         IsFrame(e.stream[1], id)
    BY <1>3, <1>6, <1>8 DEF None, IsEvent
  <2>3. \A id \in Nat : IsFrame(e.stream[1], id) =>
          /\ id \in 1..Len(a) /\ NotAnswered(e, id) /\ NotQueued(ts, id)
          /\ \A j \in DOMAIN e.stream : IsFrame(e.stream[j], id) => j = 1
    BY <1>1 DEF Good, InOnePlace
  <2>4. \A id \in Nat : IsFrame(e.stream[1], id) => NotComing(f, id)
    BY <1>1, <1>5, <2>3 DEF NotComing
  <2>5. \A i \in DOMAIN f.stream : \A id \in Nat : IsFrame(f.stream[i], id) =>
         /\ id \in 1..Len(a) /\ NotAnswered(f, id) /\ NotQueued(ts, id)
         /\ \A j \in DOMAIN f.stream : IsFrame(f.stream[j], id) => j = i
    <3> SUFFICES ASSUME NEW i \in DOMAIN f.stream, NEW id \in Nat, IsFrame(f.stream[i], id)
                 PROVE  /\ id \in 1..Len(a) /\ NotAnswered(f, id) /\ NotQueued(ts, id)
                        /\ \A j \in DOMAIN f.stream : IsFrame(f.stream[j], id) => j = i
      OBVIOUS
    <3>1. i + 1 \in DOMAIN e.stream /\ IsFrame(e.stream[i + 1], id)
      BY <1>1, <1>5
    <3>2. /\ id \in 1..Len(a) /\ NotAnswered(e, id) /\ NotQueued(ts, id)
          /\ \A j \in DOMAIN e.stream : IsFrame(e.stream[j], id) => j = i + 1
      BY <3>1 DEF Good, InOnePlace
    <3> QED
      <4>1. ASSUME NEW j \in DOMAIN f.stream, IsFrame(f.stream[j], id)
            PROVE  j = i
        <5>1. j + 1 \in DOMAIN e.stream /\ IsFrame(e.stream[j + 1], id)
          BY <1>1, <1>5, <4>1
        <5>2. j + 1 = i + 1 /\ i \in Nat /\ j \in Nat
          BY <1>1, <1>5, <3>2, <5>1
        <5> QED
          BY <5>2
      <4> QED
        BY <2>1, <3>2, <4>1
  <2> QED
    BY <2>1, <2>2, <2>3, <2>4, <2>5 DEF Good, InOnePlace
<1>13. LastRequest(f, a) /\ Answers(f, a)
  BY <1>3, <1>5, <1>6 DEF Good, LastRequest, Answers
<1>14. Typed(f, q, ts, a)
  BY <1>4 DEF Good, Typed
<1> QED
  BY <1>5, <1>7, <1>9, <1>10, <1>11, <1>12, <1>13, <1>14 DEF Good, f

\* What was given to the connection is sent.
LEMMA FlushGood ==
  ASSUME NEW e, NEW q, NEW ts, NEW a, Good(e, q, ts, a), CanFlush(e)
  PROVE  Good(Flush(e), q, ts, a)
<1> DEFINE v == [type |-> "done"]
           f == Flush(e)
<1>1. e \in Endpoints /\ e.inbox \in Seq(Events) /\ v \in Events
  BY Parts, EventTypes DEF Good, Typed
<1>2. v.type = "done" /\ \A id : ~ IsEvent(v, id)
  BY DEF IsEvent
<1>3. f \in Endpoints /\ f.reading = e.reading /\ f.inbox = Append(e.inbox, v)
  <2>1. Append(e.inbox, v) \in Seq(Events)
    BY <1>1, Appended
  <2> QED
    BY <1>1, <2>1 DEF Endpoints, Flush
<1>4. /\ f.stream = e.stream /\ f.sent = e.sent /\ f.websocket = e.websocket
      /\ f.alive = e.alive /\ f.opcode = e.opcode /\ f.output = FALSE
  BY <1>1 DEF Endpoints, Flush
<1> HIDE DEF v, f
<1>5. /\ DOMAIN e.inbox = 1..Len(e.inbox) /\ DOMAIN f.inbox = 1..(Len(e.inbox) + 1)
      /\ Len(e.inbox) \in Nat
      /\ \A i \in DOMAIN e.inbox : f.inbox[i] = e.inbox[i]
      /\ f.inbox[Len(e.inbox) + 1] = v
  BY <1>1, <1>3, Appended
<1>6. \A i \in DOMAIN f.inbox : f.inbox[i].type # "done" =>
        i \in DOMAIN e.inbox /\ f.inbox[i] = e.inbox[i]
  BY <1>2, <1>5
<1>7. \A types : "done" \notin types => (None(f, types) <=> None(e, types))
  BY <1>2, <1>5 DEF None
<1>8. None(f, {"frame"}) <=> None(e, {"frame"})
  BY <1>7
<1>9. FramesPaired(f)
  BY <1>3, <1>4, <1>6, <1>8 DEF Good, FramesPaired
<1>10. OneEvent(f)
  BY <1>3, <1>6 DEF Good, OneEvent
<1>11. ~ f.websocket => Http(f, ts)
  <2> SUFFICES ASSUME ~ e.websocket
               PROVE  Http(f, ts)
    BY <1>4
  <2>1. None(f, {"frame", "chunk"}) <=> None(e, {"frame", "chunk"})
    BY <1>7
  <2>2. ts = {} /\ e.reading = "none" /\ None(e, {"request", "entity", "done"})
    BY DEF Good, Http, CanFlush, None
  <2> QED
    BY <1>2, <1>3, <1>4, <1>5, <2>1, <2>2 DEF Good, Http, None
<1>12. f.websocket => Upgraded(f, q)
  <2>1. None(f, {"request", "entity"}) <=> None(e, {"request", "entity"})
    BY <1>7
  <2> QED
    BY <1>3, <1>4, <2>1 DEF Good, Upgraded
<1>13. EntityOf(f, q, a)
  <2>1. None(f, {"entity"}) <=> None(e, {"entity"})
    BY <1>7
  <2> QED
    BY <1>3, <1>4, <2>1 DEF Good, EntityOf, NotAnswered
<1>14. InOnePlace(f, ts, a)
  <2>1. \A id : NotWaiting(e, id) => NotWaiting(f, id)
    BY <1>2, <1>5 DEF NotWaiting
  <2> QED
    BY <1>4, <2>1, PlacesKept DEF Good
<1>15. LastRequest(f, a) /\ Answers(f, a)
  BY <1>4, <1>6 DEF Good, LastRequest, Answers
<1>16. Typed(f, q, ts, a)
  BY <1>3 DEF Good, Typed
<1> QED
  BY <1>9, <1>10, <1>11, <1>12, <1>13, <1>14, <1>15, <1>16 DEF Good, f

(***************************************************************************)
(* The tasks of the endpoint that handle events                            *)
(***************************************************************************)

\* An event that is not the header of a frame was taken.
LEMMA TakenGood ==
  ASSUME NEW e, NEW q, NEW ts, NEW a, Good(e, q, ts, a), e.inbox # <<>>,
         Head(e.inbox).type # "frame"
  PROVE  Good(Taken(e), q, ts, a)
<1> DEFINE f == Taken(e)
<1>0. e \in Endpoints /\ e.inbox \in Seq(Events)
  BY Parts DEF Good, Typed
<1>1. /\ Tail(e.inbox) \in Seq(Events) /\ Len(e.inbox) \in Nat \ {0}
      /\ DOMAIN e.inbox = 1..Len(e.inbox)
      /\ DOMAIN Tail(e.inbox) = 1..(Len(e.inbox) - 1)
      /\ \A i \in DOMAIN Tail(e.inbox) :
           Tail(e.inbox)[i] = e.inbox[i + 1] /\ i + 1 \in DOMAIN e.inbox
      /\ 1 \in DOMAIN e.inbox /\ e.inbox[1] = Head(e.inbox)
  BY <1>0, TailOf
<1>2. f \in Endpoints /\ f.inbox = Tail(e.inbox)
  BY <1>0, <1>1 DEF Endpoints, Taken
<1>3. /\ f.stream = e.stream /\ f.sent = e.sent /\ f.websocket = e.websocket
      /\ f.alive = e.alive /\ f.opcode = e.opcode /\ f.output = e.output /\ f.reading = e.reading
  BY <1>0 DEF Endpoints, Taken
<1> HIDE DEF f
<1>4. \A types : None(e, types) => None(f, types)
  BY <1>1, <1>2 DEF None
<1>5. FramesPaired(f)
  <2>1. None(f, {"frame"}) => None(e, {"frame"})
    <3> SUFFICES ASSUME None(f, {"frame"}), NEW i \in DOMAIN e.inbox, e.inbox[i].type = "frame"
                 PROVE  FALSE
      BY DEF None
    <3>1. i # 1 /\ i - 1 \in DOMAIN f.inbox /\ f.inbox[i - 1] = e.inbox[i]
      BY <1>1, <1>2
    <3> QED
      BY <3>1 DEF None
  <2>2. \A i \in DOMAIN f.inbox : f.inbox[i].type = "frame" =>
          /\ e.reading # "frame"
          /\ e.reading = "payload" => f.inbox[i].opcode = e.stream[1].opcode
    BY <1>1, <1>2 DEF Good, FramesPaired
  <2>3. \A i, j \in DOMAIN f.inbox : f.inbox[i].type = "frame" /\ f.inbox[j].type = "frame" =>
          j = i
    <3> SUFFICES ASSUME NEW i \in DOMAIN f.inbox, NEW j \in DOMAIN f.inbox,
                        f.inbox[i].type = "frame", f.inbox[j].type = "frame"
                 PROVE  j = i
      OBVIOUS
    <3>1. i + 1 = j + 1 /\ i \in Nat /\ j \in Nat
      BY <1>1, <1>2 DEF Good, FramesPaired
    <3> QED
      BY <3>1
  <2>4. \A i, j \in DOMAIN f.inbox : f.inbox[i].type = "frame" /\ f.inbox[j].type = "chunk" =>
          i < j /\ Match(f.inbox[j].payload, f.inbox[i].opcode)
    <3> SUFFICES ASSUME NEW i \in DOMAIN f.inbox, NEW j \in DOMAIN f.inbox,
                        f.inbox[i].type = "frame", f.inbox[j].type = "chunk"
                 PROVE  i < j /\ Match(f.inbox[j].payload, f.inbox[i].opcode)
      OBVIOUS
    <3>1. /\ i + 1 < j + 1 /\ i \in Nat /\ j \in Nat
          /\ Match(f.inbox[j].payload, f.inbox[i].opcode)
      BY <1>1, <1>2 DEF Good, FramesPaired
    <3> QED
      BY <3>1
  <2>5. e.alive /\ None(f, {"frame"}) =>
          \A j \in DOMAIN f.inbox : f.inbox[j].type = "chunk" => Match(f.inbox[j].payload, f.opcode)
    BY <1>1, <1>2, <1>3, <2>1 DEF Good, FramesPaired
  <2> QED
    BY <1>3, <2>1, <2>2, <2>3, <2>4, <2>5 DEF Good, FramesPaired
<1>6. OneEvent(f)
  <2> SUFFICES ASSUME NEW i \in DOMAIN f.inbox, NEW j \in DOMAIN f.inbox,
                      f.inbox[i].type \in {"request", "entity", "chunk"},
                      f.inbox[j].type \in {"request", "entity", "chunk"}
               PROVE  f.reading = "none" /\ j = i
    BY DEF OneEvent
  <2>1. e.reading = "none" /\ i + 1 = j + 1 /\ i \in Nat /\ j \in Nat
    BY <1>1, <1>2 DEF Good, OneEvent
  <2> QED
    BY <1>3, <2>1
<1>7. ~ f.websocket => Http(f, ts)
  <2> SUFFICES ASSUME ~ e.websocket
               PROVE  Http(f, ts)
    BY <1>3
  <2>1. None(f, {"frame", "chunk"}) /\ (None(e, {"done"}) => None(f, {"done"}))
    BY <1>4 DEF Good, Http
  <2>2. \A i, j \in DOMAIN f.inbox :
          (/\ f.inbox[i].type \in {"request", "entity", "done"}
           /\ f.inbox[j].type \in {"request", "entity", "done"})
          => ts = {} /\ ~ e.output /\ j = i
    <3> SUFFICES ASSUME NEW i \in DOMAIN f.inbox, NEW j \in DOMAIN f.inbox,
                        f.inbox[i].type \in {"request", "entity", "done"},
                        f.inbox[j].type \in {"request", "entity", "done"}
                 PROVE  ts = {} /\ ~ e.output /\ j = i
      OBVIOUS
    <3>1. ts = {} /\ ~ e.output /\ i + 1 = j + 1 /\ i \in Nat /\ j \in Nat
      BY <1>1, <1>2 DEF Good, Http
    <3> QED
      BY <3>1
  <2> QED
    BY <1>3, <2>1, <2>2 DEF Good, Http
<1>8. f.websocket => Upgraded(f, q)
  BY <1>3, <1>4 DEF Good, Upgraded
<1>9. EntityOf(f, q, a)
  <2>1. None(e, {"entity"}) => None(f, {"entity"})
    BY <1>4
  <2> QED
    BY <1>3, <2>1 DEF Good, EntityOf, NotAnswered
<1>10. InOnePlace(f, ts, a)
  <2>1. \A id : NotWaiting(e, id) => NotWaiting(f, id)
    BY <1>1, <1>2 DEF NotWaiting
  <2> QED
    BY <1>3, <2>1, PlacesKept DEF Good
<1>11. LastRequest(f, a) /\ Answers(f, a)
  BY <1>1, <1>2, <1>3 DEF Good, LastRequest, Answers
<1>12. Typed(f, q, ts, a)
  BY <1>2 DEF Good, Typed
<1> QED
  BY <1>5, <1>6, <1>7, <1>8, <1>9, <1>10, <1>11, <1>12 DEF Good, f

\* What was the only one of its kind is not there any more.
LEMMA TakenLast ==
  ASSUME NEW e, NEW types, e \in Endpoints, e.inbox # <<>>,
         Head(e.inbox).type \in types,
         \A i, j \in DOMAIN e.inbox :
           e.inbox[i].type \in types /\ e.inbox[j].type \in types => i = j
  PROVE  None(Taken(e), types)
<1>1. e.inbox \in Seq(Events) /\ Taken(e).inbox = Tail(e.inbox)
  BY Parts DEF Taken, Endpoints
<1>2. /\ DOMAIN Tail(e.inbox) = 1..(Len(e.inbox) - 1) /\ Len(e.inbox) \in Nat
      /\ \A i \in DOMAIN Tail(e.inbox) :
           Tail(e.inbox)[i] = e.inbox[i + 1] /\ i + 1 \in DOMAIN e.inbox
      /\ 1 \in DOMAIN e.inbox /\ e.inbox[1] = Head(e.inbox)
  BY <1>1, TailOf
<1> SUFFICES ASSUME NEW i \in DOMAIN Taken(e).inbox, Taken(e).inbox[i].type \in types
             PROVE  FALSE
  BY DEF None
<1>3. i \in Nat /\ i # 0 /\ i + 1 \in DOMAIN e.inbox /\ e.inbox[i + 1].type \in types
  BY <1>1, <1>2
<1>4. i + 1 = 1
  BY <1>2, <1>3
<1> QED
  BY <1>3, <1>4

\* _receiveWsFrame(): the opcode is noted.
LEMMA WsFrameReceived ==
  ASSUME NEW e, NEW q, NEW ts, NEW a, Good(e, q, ts, a), NextIs(e, "frame")
  PROVE  Good(ReceiveWsFrame(e), q, ts, a)
<1> DEFINE f == ReceiveWsFrame(e)
<1>0. /\ e \in Endpoints /\ e.inbox \in Seq(Events) /\ e.inbox # <<>>
      /\ Head(e.inbox).type = "frame"
  BY Parts DEF Good, Typed, NextIs
<1>1. /\ Tail(e.inbox) \in Seq(Events) /\ Len(e.inbox) \in Nat \ {0}
      /\ DOMAIN e.inbox = 1..Len(e.inbox)
      /\ DOMAIN Tail(e.inbox) = 1..(Len(e.inbox) - 1)
      /\ \A i \in DOMAIN Tail(e.inbox) :
           Tail(e.inbox)[i] = e.inbox[i + 1] /\ i + 1 \in DOMAIN e.inbox
      /\ 1 \in DOMAIN e.inbox /\ e.inbox[1] = Head(e.inbox) /\ e.inbox[1] \in Events
  BY <1>0, TailOf
<1>2. e.inbox[1].opcode \in Opcodes
  BY <1>0, <1>1 DEF Events
<1>3. f \in Endpoints /\ f.inbox = Tail(e.inbox) /\ f.opcode = e.inbox[1].opcode
  BY <1>0, <1>1, <1>2 DEF Endpoints, Taken, ReceiveWsFrame
<1>4. /\ f.stream = e.stream /\ f.sent = e.sent /\ f.websocket = e.websocket
      /\ f.alive = e.alive /\ f.output = e.output /\ f.reading = e.reading
  BY <1>0 DEF Endpoints, Taken, ReceiveWsFrame
<1> HIDE DEF f
<1>5. e.websocket
  BY <1>0, <1>1 DEF Good, Http, None
<1>6. \A types : None(e, types) => None(f, types)
  BY <1>1, <1>3 DEF None
<1>7. FramesPaired(f)
  <2>1. None(f, {"frame"})
    <3> SUFFICES ASSUME NEW i \in DOMAIN f.inbox, f.inbox[i].type = "frame"
                 PROVE  FALSE
      BY DEF None
    <3>1. i + 1 = 1 /\ i \in Nat /\ i # 0
      BY <1>0, <1>1, <1>3 DEF Good, FramesPaired
    <3> QED
      BY <3>1
  <2>2. \A j \in DOMAIN f.inbox : f.inbox[j].type = "chunk" => Match(f.inbox[j].payload, f.opcode)
    BY <1>0, <1>1, <1>3 DEF Good, FramesPaired
  <2>3. e.reading = "payload" => f.opcode = e.stream[1].opcode
    BY <1>0, <1>1, <1>3 DEF Good, FramesPaired
  <2> QED
    BY <1>4, <2>1, <2>2, <2>3 DEF Good, FramesPaired, None
<1>8. OneEvent(f)
  <2> SUFFICES ASSUME NEW i \in DOMAIN f.inbox, NEW j \in DOMAIN f.inbox,
                      f.inbox[i].type \in {"request", "entity", "chunk"},
                      f.inbox[j].type \in {"request", "entity", "chunk"}
               PROVE  f.reading = "none" /\ j = i
    BY DEF OneEvent
  <2>1. e.reading = "none" /\ i + 1 = j + 1 /\ i \in Nat /\ j \in Nat
    BY <1>1, <1>3 DEF Good, OneEvent
  <2> QED
    BY <1>4, <2>1
<1>9. Upgraded(f, q)
  BY <1>4, <1>5, <1>6 DEF Good, Upgraded
<1>10. EntityOf(f, q, a)
  BY <1>9 DEF EntityOf, Upgraded, None
<1>11. InOnePlace(f, ts, a)
  <2>1. \A id : NotWaiting(e, id) => NotWaiting(f, id)
    BY <1>1, <1>3 DEF NotWaiting
  <2> QED
    BY <1>4, <2>1, PlacesKept DEF Good
<1>12. LastRequest(f, a) /\ Answers(f, a)
  BY <1>1, <1>3, <1>4 DEF Good, LastRequest, Answers
<1>13. Typed(f, q, ts, a)
  BY <1>3 DEF Good, Typed
<1> QED
  BY <1>4, <1>5, <1>7, <1>8, <1>9, <1>11, <1>10, <1>12, <1>13 DEF Good, f

\* expectWsFrame(): when what was read is handled.
LEMMA FrameAwaited ==
  ASSUME NEW e, NEW q, NEW ts, NEW a, Good(e, q, ts, a), e.websocket,
         None(e, {"request", "entity", "chunk", "frame"})
  PROVE  Good(ExpectWsFrame(e), q, ts, a)
<1>1. CASE e.conn # "up"
  BY <1>1 DEF ExpectWsFrame
<1>2. CASE e.conn = "up"
  <2> DEFINE f == [e EXCEPT !.reading = "frame"]
  <2>0. e \in Endpoints
    BY DEF Good, Typed
  <2>1. /\ f \in Endpoints /\ f.reading = "frame" /\ f.inbox = e.inbox
        /\ f.stream = e.stream /\ f.sent = e.sent /\ f.websocket = e.websocket
        /\ f.alive = e.alive /\ f.opcode = e.opcode /\ f.output = e.output
    BY <2>0 DEF Endpoints
  <2> HIDE DEF f
  <2>2. FramesPaired(f) /\ OneEvent(f)
    BY <2>1 DEF Good, FramesPaired, OneEvent, None
  <2>3. Upgraded(f, q)
    BY <2>1 DEF Good, Upgraded, None
  <2>4. EntityOf(f, q, a)
    BY <2>3 DEF EntityOf, Upgraded, None
  <2>5. InOnePlace(f, ts, a)
    BY <2>1, PlacesKept DEF Good, NotWaiting
  <2>6. LastRequest(f, a) /\ Answers(f, a) /\ Typed(f, q, ts, a)
    BY <2>1 DEF Good, LastRequest, Answers, Typed
  <2> QED
    BY <1>2, <2>1, <2>2, <2>3, <2>4, <2>5, <2>6 DEF Good, ExpectWsFrame, f
<1> QED
  BY <1>1, <1>2

\* doneRequest(): the connection reads the next request.
LEMMA RequestAwaited ==
  ASSUME NEW e, NEW q, NEW ts, NEW a, Good(e, q, ts, a), ~ e.websocket,
         None(e, {"request", "entity", "done"}), ts = {}, ~ e.output
  PROVE  Good([e EXCEPT !.reading = "request"], q, ts, a)
<1> DEFINE f == [e EXCEPT !.reading = "request"]
<1>0. e \in Endpoints
  BY DEF Good, Typed
<1>1. /\ f \in Endpoints /\ f.reading = "request" /\ f.inbox = e.inbox
      /\ f.stream = e.stream /\ f.sent = e.sent /\ f.websocket = e.websocket
      /\ f.alive = e.alive /\ f.opcode = e.opcode /\ f.output = e.output
  BY <1>0 DEF Endpoints
<1> HIDE DEF f
<1>2. FramesPaired(f) /\ OneEvent(f)
  BY <1>1 DEF Good, FramesPaired, OneEvent, None, Http
<1>3. Http(f, ts)
  BY <1>1 DEF Good, Http, None
<1>4. EntityOf(f, q, a)
  BY <1>1 DEF EntityOf, None
<1>5. InOnePlace(f, ts, a)
  BY <1>1, PlacesKept DEF Good, NotWaiting
<1>6. LastRequest(f, a) /\ Answers(f, a) /\ Typed(f, q, ts, a)
  BY <1>1 DEF Good, LastRequest, Answers, Typed
<1> QED
  BY <1>1, <1>2, <1>3, <1>4, <1>5, <1>6 DEF Good, f

\* _disconnected(): the events of an object that is gone do not matter.
LEMMA DisconnectedGood ==
  ASSUME NEW e, NEW q, NEW ts, NEW a, Good(e, q, ts, a), NextIs(e, "disconnected")
  PROVE  Good(Disconnected(e), q, ts, a)
<1> DEFINE g == Taken(e)
           f == Disconnected(e)
<1>0. Good(g, q, ts, a)
  BY TakenGood DEF NextIs
<1>1. g \in Endpoints
  BY <1>0 DEF Good, Typed
<1>2. f = [g EXCEPT !.alive = FALSE, !.inbox = <<>>]
  BY DEF Disconnected
<1> HIDE DEF g
<1>3. /\ f \in Endpoints /\ f.inbox = <<>> /\ ~ f.alive
      /\ f.stream = g.stream /\ f.sent = g.sent /\ f.websocket = g.websocket
      /\ f.output = g.output /\ f.reading = g.reading
  <2>1. <<>> \in Seq(Events)
    OBVIOUS
  <2> QED
    BY <1>1, <1>2, <2>1 DEF Endpoints
<1> HIDE DEF f
<1>4. DOMAIN f.inbox = {}
  BY <1>3
<1>5. FramesPaired(f) /\ OneEvent(f)
  BY <1>0, <1>3, <1>4 DEF Good, FramesPaired, OneEvent
<1>6. \A types : None(f, types)
  BY <1>4 DEF None
<1>7. ~ f.websocket => Http(f, ts)
  BY <1>0, <1>3, <1>4, <1>6 DEF Good, Http
<1>8. f.websocket => Upgraded(f, q)
  BY <1>0, <1>3, <1>6 DEF Good, Upgraded
<1>9. EntityOf(f, q, a)
  BY <1>0, <1>3, <1>6 DEF Good, EntityOf, NotAnswered
<1>10. InOnePlace(f, ts, a)
  <2>1. \A id : NotWaiting(f, id)
    BY <1>4 DEF NotWaiting
  <2> QED
    BY <1>0, <1>3, <2>1, PlacesKept DEF Good
<1>11. LastRequest(f, a) /\ Answers(f, a) /\ Typed(f, q, ts, a)
  BY <1>0, <1>3, <1>4 DEF Good, LastRequest, Answers, Typed
<1> QED
  BY <1>0, <1>5, <1>7, <1>8, <1>9, <1>10, <1>11 DEF Good, f

\* A chunk is given to the connection that is not a response: the close frame.
LEMMA CloseSent ==
  ASSUME NEW e, NEW q, NEW ts, NEW a, Good(e, q, ts, a), e.websocket
  PROVE  Good(SendClose(e), q, ts, a) /\ SendClose(e).websocket
         /\ SendClose(e).inbox = e.inbox
<1> DEFINE f == SendClose(e)
<1>0. e \in Endpoints /\ e.sent \in Seq(Sendable) /\ Closing \in Sendable
  BY Parts DEF Good, Typed, Sendable
<1>1. /\ Append(e.sent, Closing) \in Seq(Sendable) /\ Len(e.sent) \in Nat
      /\ DOMAIN e.sent = 1..Len(e.sent)
      /\ DOMAIN Append(e.sent, Closing) = 1..(Len(e.sent) + 1)
      /\ \A i \in DOMAIN e.sent : Append(e.sent, Closing)[i] = e.sent[i]
      /\ Append(e.sent, Closing)[Len(e.sent) + 1] = Closing
  BY <1>0, Appended
<1>2. /\ f \in Endpoints /\ f.sent \in {e.sent, Append(e.sent, Closing)}
      /\ f.inbox = e.inbox /\ f.stream = e.stream /\ f.websocket = e.websocket
      /\ f.alive = e.alive /\ f.opcode = e.opcode /\ f.reading = e.reading
  BY <1>0, <1>1 DEF Endpoints, SendClose, SendWsChunk
<1> HIDE DEF f
<1>3. \A i \in DOMAIN f.sent : f.sent[i] # Closing => i \in DOMAIN e.sent /\ f.sent[i] = e.sent[i]
  BY <1>1, <1>2
<1>4. \A id : NotAnswered(e, id) => NotAnswered(f, id)
  BY <1>3 DEF NotAnswered, IsResponse
<1>5. FramesPaired(f) /\ OneEvent(f) /\ Upgraded(f, q)
  BY <1>2 DEF Good, FramesPaired, OneEvent, Upgraded, None
<1>6. EntityOf(f, q, a)
  BY <1>5 DEF EntityOf, Upgraded, None
<1>7. InOnePlace(f, ts, a)
  <2>1. \A id : NotComing(f, id) <=> NotComing(e, id)
    BY <1>2 DEF NotComing
  <2> QED
    BY <1>2, <1>4, <2>1 DEF Good, InOnePlace
<1>8. Answers(f, a)
  BY <1>3 DEF Good, Answers
<1>9. LastRequest(f, a) /\ Typed(f, q, ts, a)
  BY <1>2 DEF Good, LastRequest, Typed
<1> QED
  BY <1>2, <1>5, <1>6, <1>7, <1>8, <1>9 DEF Good, f

\* What Server.c does by itself.
LEMMA HandledGood ==
  ASSUME NEW e, NEW q, NEW ts, NEW a, Good(e, q, ts, a), IsServerEvent(e),
         NextIs(e, "done") => e.websocket
  PROVE  Good(Handled(e), q, ts, a)
<1>0. e \in Endpoints /\ e.inbox \in Seq(Events)
  BY Parts DEF Good, Typed
<1>1. CASE NextIs(e, "frame")
  <2>1. Handled(e) = ReceiveWsFrame(e)
    BY <1>1 DEF Handled, NextIs
  <2> QED
    BY <1>1, <2>1, WsFrameReceived
<1>2. CASE NextIs(e, "done")
  <2>1. Handled(e) = DoneChunk(e)
    BY <1>2 DEF Handled, NextIs
  <2>2. Good(Taken(e), q, ts, a)
    BY <1>2, TakenGood DEF NextIs
  <2> QED
    BY <2>1, <2>2, EndedGood DEF DoneChunk
<1>3. CASE NextIs(e, "disconnected")
  <2>1. Handled(e) = Disconnected(e)
    BY <1>3 DEF Handled, NextIs
  <2> QED
    BY <1>3, <2>1, DisconnectedGood
<1>4. CASE IsClose(e)
  <2>1. e.inbox # <<>> /\ Head(e.inbox).type = "chunk"
    BY <1>4 DEF IsClose, NextIs
  <2>2. Handled(e) = ReceiveClose(e)
    BY <2>1 DEF Handled, NextIs
  <2>3. 1 \in DOMAIN e.inbox /\ e.inbox[1].type = "chunk"
    BY <1>0, <2>1, TailOf
  <2>4. e.websocket
    BY <2>3 DEF Good, Http, None
  <2>5. None(Taken(e), {"request", "entity", "chunk"})
    <3>1. \A i, j \in DOMAIN e.inbox :
            (/\ e.inbox[i].type \in {"request", "entity", "chunk"}
             /\ e.inbox[j].type \in {"request", "entity", "chunk"}) => i = j
      BY DEF Good, OneEvent
    <3> QED
      BY <1>0, <2>1, <3>1, TakenLast
  <2>6. None(e, {"frame"})
    <3>1. \A i \in DOMAIN e.inbox : i \in Nat /\ i >= 1
      BY <1>0
    <3> QED
      BY <2>3, <3>1 DEF Good, FramesPaired, None
  <2>7. Taken(e).inbox = Tail(e.inbox) /\ Taken(e).websocket
    BY <1>0, <2>4 DEF Taken, Endpoints
  <2>8. None(Taken(e), {"request", "entity", "chunk", "frame"})
    <3>1. None(Taken(e), {"frame"})
      BY <1>0, <2>1, <2>6, <2>7, TailOf DEF None
    <3> QED
      BY <2>5, <3>1 DEF None
  <2>9. Good(Taken(e), q, ts, a)
    BY <2>1, TakenGood
  <2>10. /\ Good(SendClose(Taken(e)), q, ts, a) /\ SendClose(Taken(e)).websocket
         /\ SendClose(Taken(e)).inbox = Taken(e).inbox
    BY <2>7, <2>9, CloseSent
  <2>11. None(SendClose(Taken(e)), {"request", "entity", "chunk", "frame"})
    BY <2>8, <2>10 DEF None
  <2>12. Good(ExpectWsFrame(SendClose(Taken(e))), q, ts, a)
    BY <2>10, <2>11, FrameAwaited
  <2> QED
    BY <2>2, <2>10, <2>12 DEF ReceiveClose
<1> QED
  BY <1>1, <1>2, <1>3, <1>4 DEF IsServerEvent

(***************************************************************************)
(* The handlers, which work on the state o of the object                   *)
(***************************************************************************)

Objects ==
  [ep : Endpoints, request : Nat, login : BOOLEAN, tasks : SUBSET Task, failed : BOOLEAN]

GoodObject(o, a) == o \in Objects /\ Good(o.ep, o.request, o.tasks, a)

\* Request id may be responded to: it is in no other place, and a response to it was
\* not sent, but for a 404 that was sent last.
MayRespond(e, ts, a, id) ==
  /\ id \in 1..Len(a)
  /\ NotWaiting(e, id) /\ NotComing(e, id) /\ NotQueued(ts, id)
  /\ ~ e.websocket => ts = {} /\ e.reading = "none" /\ None(e, {"request", "entity", "done"})
  /\ \A i \in DOMAIN e.sent : IsResponse(e.sent[i], id) => i = Len(e.sent) /\ AnsweredTwice(a[id])

\* Request id is being handled.
InHand(e, ts, a, id) ==
  /\ MayRespond(e, ts, a, id)
  /\ NotAnswered(e, id)
  /\ ~ e.websocket => ~ e.output

\* Nothing that was read waits.
Quiet(e) == e.reading = "none" /\ None(e, {"request", "entity", "chunk", "frame"})

\* What handlers leave alone.
Kept(o, r) ==
  r.ep.inbox = o.ep.inbox /\ (o.ep.websocket => r.ep.websocket)

\* A response is sent, and the request of the object reset.
LEMMA ResponseSent ==
  ASSUME NEW e, NEW q, NEW ts, NEW a, Good(e, q, ts, a), NEW id,
         MayRespond(e, ts, a, id), NEW code \in Nat
  PROVE  LET c == [type |-> "response", id |-> id, code |-> code]
             f == SendWsChunk(e, c)
         IN  /\ Good(f, 0, ts, a)
             /\ NotAnswered(e, id) /\ AnsweredTwice(a[id]) => MayRespond(f, ts, a, id)
<1> DEFINE c == [type |-> "response", id |-> id, code |-> code]
           f == SendWsChunk(e, c)
<1>0. /\ e \in Endpoints /\ e.sent \in Seq(Sendable) /\ a \in Seq(Requests)
      /\ Len(a) <= MaxRequests /\ MaxRequests \in Nat /\ ts \subseteq Task
  BY Parts, BoundAssumption DEF Good, Typed
<1>1. c \in Sendable /\ c # Closing /\ c.id = id /\ id \in 1..Len(a) /\ Len(a) \in Nat
  <2>1. id \in 1..Len(a) /\ Len(a) \in Nat /\ id \in 1..MaxRequests
    BY <1>0 DEF MayRespond
  <2>2. c.type # Closing.type
    BY DEF Closing
  <2> QED
    BY <2>1, <2>2 DEF Sendable, Chunk
<1> HIDE DEF c
<1>2. /\ Append(e.sent, c) \in Seq(Sendable) /\ Len(e.sent) \in Nat
      /\ DOMAIN e.sent = 1..Len(e.sent) /\ DOMAIN Append(e.sent, c) = 1..(Len(e.sent) + 1)
      /\ Len(Append(e.sent, c)) = Len(e.sent) + 1
      /\ \A i \in DOMAIN e.sent : Append(e.sent, c)[i] = e.sent[i]
      /\ Append(e.sent, c)[Len(e.sent) + 1] = c
  BY <1>0, <1>1, Appended
<1>3. /\ f \in Endpoints /\ f.sent = Append(e.sent, c) /\ f.output = TRUE
      /\ f.inbox = e.inbox /\ f.stream = e.stream /\ f.websocket = e.websocket
      /\ f.alive = e.alive /\ f.opcode = e.opcode /\ f.reading = e.reading
  BY <1>0, <1>2 DEF Endpoints, SendWsChunk
<1> HIDE DEF f
<1>4. \A n : n # id /\ NotAnswered(e, n) => NotAnswered(f, n)
  BY <1>1, <1>2, <1>3 DEF NotAnswered, IsResponse
<1>5. \A types : None(f, types) <=> None(e, types)
  BY <1>3 DEF None
<1>6. FramesPaired(f) /\ OneEvent(f)
  BY <1>3 DEF Good, FramesPaired, OneEvent, None
<1>7. ~ f.websocket => Http(f, ts)
  <2> SUFFICES ASSUME ~ e.websocket
               PROVE  Http(f, ts)
    BY <1>3
  <2>1. ts = {} /\ f.reading = "none" /\ None(f, {"request", "entity", "done"})
    BY <1>3, <1>5 DEF MayRespond
  <2> QED
    BY <1>3, <1>5, <2>1 DEF Good, Http, None
<1>8. f.websocket => Upgraded(f, 0)
  BY <1>3, <1>5 DEF Good, Upgraded
<1>9. EntityOf(f, 0, a)
  BY <1>3, <1>5 DEF Good, Upgraded, MayRespond, EntityOf, None
<1>10. InOnePlace(f, ts, a)
  <2>1. \A n : NotComing(f, n) <=> NotComing(e, n)
    BY <1>3 DEF NotComing
  <2>2. \A i \in DOMAIN f.inbox : \A n \in Nat : IsEvent(f.inbox[i], n) =>
          n \in 1..Len(a) /\ NotAnswered(f, n) /\ NotComing(f, n) /\ NotQueued(ts, n)
    BY <1>3, <1>4, <2>1 DEF Good, InOnePlace, MayRespond, NotWaiting
  <2>3. \A i \in DOMAIN f.stream : \A n \in Nat : IsFrame(f.stream[i], n) =>
         /\ n \in 1..Len(a) /\ NotAnswered(f, n) /\ NotQueued(ts, n)
         /\ \A j \in DOMAIN f.stream : IsFrame(f.stream[j], n) => j = i
    BY <1>3, <1>4 DEF Good, InOnePlace, MayRespond, NotComing
  <2>4. \A t \in ts : t.id \in 1..Len(a) /\ NotAnswered(f, t.id)
    BY <1>4 DEF Good, InOnePlace, MayRespond, NotQueued
  <2> QED
    BY <2>2, <2>3, <2>4 DEF Good, InOnePlace
<1>11. Answers(f, a)
  <2> SUFFICES ASSUME NEW i \in DOMAIN f.sent, NEW j \in DOMAIN f.sent,
                      f.sent[i] # Closing, f.sent[j] # Closing
               PROVE  /\ f.sent[i].id \in 1..Len(a)
                      /\ f.sent[i].id = f.sent[j].id =>
                           \/ i = j
                           \/ AnsweredTwice(a[f.sent[i].id]) /\ i <= j + 1 /\ j <= i + 1
    BY DEF Answers
  <2>1. CASE i \in DOMAIN e.sent /\ j \in DOMAIN e.sent
    BY <1>2, <1>3, <2>1 DEF Good, Answers
  <2>2. CASE i = Len(e.sent) + 1 /\ j = Len(e.sent) + 1
    BY <1>1, <1>2, <1>3, <2>2
  <2>3. CASE i \in DOMAIN e.sent /\ j = Len(e.sent) + 1
    <3>1. f.sent[i] = e.sent[i] /\ f.sent[j] = c
      BY <1>2, <1>3, <2>3
    <3>2. e.sent[i].id \in 1..Len(a)
      BY <2>3, <3>1 DEF Good, Answers
    <3>3. e.sent[i].id = id => i = Len(e.sent) /\ AnsweredTwice(a[id])
      BY <2>3, <3>1 DEF MayRespond, IsResponse
    <3> QED
      BY <1>1, <1>2, <2>3, <3>1, <3>2, <3>3
  <2>4. CASE i = Len(e.sent) + 1 /\ j \in DOMAIN e.sent
    <3>1. f.sent[j] = e.sent[j] /\ f.sent[i] = c
      BY <1>2, <1>3, <2>4
    <3>2. e.sent[j].id = id => j = Len(e.sent) /\ AnsweredTwice(a[id])
      BY <2>4, <3>1 DEF MayRespond, IsResponse
    <3> QED
      BY <1>1, <1>2, <2>4, <3>1, <3>2
  <2> QED
    BY <1>2, <1>3, <2>1, <2>2, <2>3, <2>4
<1>12. LastRequest(f, a) /\ Typed(f, 0, ts, a)
  BY <1>0, <1>1, <1>3 DEF Good, LastRequest, Typed
<1>13. Good(f, 0, ts, a)
  BY <1>6, <1>7, <1>8, <1>9, <1>10, <1>11, <1>12 DEF Good
<1>14. ASSUME NotAnswered(e, id), AnsweredTwice(a[id])
       PROVE  MayRespond(f, ts, a, id)
  <2>1. \A i \in DOMAIN f.sent : IsResponse(f.sent[i], id) => i = Len(f.sent)
    BY <1>2, <1>3, <1>14 DEF NotAnswered
  <2>2. NotWaiting(f, id) /\ NotComing(f, id)
    BY <1>3 DEF MayRespond, NotWaiting, NotComing
  <2> QED
    BY <1>3, <1>5, <1>14, <2>1, <2>2 DEF MayRespond
<1> QED
  BY <1>13, <1>14 DEF f, c

\* Nothing changes but that the request is reset: a response that could not be sent.
LEMMA RequestReset ==
  ASSUME NEW e, NEW q, NEW ts, NEW a, Good(e, q, ts, a), NEW id, MayRespond(e, ts, a, id)
  PROVE  Good(e, 0, ts, a)
<1>1. EntityOf(e, 0, a)
  BY DEF Good, Upgraded, MayRespond, EntityOf, None
<1>2. Typed(e, 0, ts, a)
  BY DEF Good, Typed
<1> QED
  BY <1>1, <1>2 DEF Good, Upgraded

\* respond()
LEMMA RespondGood ==
  ASSUME NEW o, NEW a, GoodObject(o, a), NEW id, MayRespond(o.ep, o.tasks, a, id),
         NEW code \in Nat
  PROVE  LET r == Respond(o, id, code)
         IN  /\ GoodObject(r, a) /\ Kept(o, r)
             /\ ~ r.failed => r.request = 0 /\ r.ep.conn = "up" /\ r.ep.reading = o.ep.reading
             /\ NotAnswered(o.ep, id) /\ AnsweredTwice(a[id]) =>
                  MayRespond(r.ep, r.tasks, a, id)
<1> DEFINE r == Respond(o, id, code)
           c == [type |-> "response", id |-> id, code |-> code]
           f == SendWsChunk(o.ep, c)
<1> SUFFICES /\ GoodObject(r, a) /\ Kept(o, r)
             /\ ~ r.failed => r.request = 0 /\ r.ep.conn = "up" /\ r.ep.reading = o.ep.reading
             /\ NotAnswered(o.ep, id) /\ AnsweredTwice(a[id]) =>
                  MayRespond(r.ep, r.tasks, a, id)
  OBVIOUS
<1>0. o \in Objects /\ Good(o.ep, o.request, o.tasks, a)
  BY DEF GoodObject
<1>1. Good(o.ep, 0, o.tasks, a)
  BY <1>0, RequestReset
<1>2. /\ Good(f, 0, o.tasks, a)
      /\ NotAnswered(o.ep, id) /\ AnsweredTwice(a[id]) => MayRespond(f, o.tasks, a, id)
  BY <1>0, ResponseSent
<1>3. /\ f \in Endpoints /\ f.inbox = o.ep.inbox /\ f.websocket = o.ep.websocket
      /\ f.conn = o.ep.conn /\ f.reading = o.ep.reading
  <2>1. f \in Endpoints /\ o.ep \in Endpoints
    BY <1>0, <1>2 DEF Good, Typed, Objects
  <2> QED
    BY <2>1 DEF SendWsChunk, Endpoints
<1>4. /\ o.failed => r = o
      /\ ~ o.failed /\ CanSend(o.ep) => r = [o EXCEPT !.ep = f, !.request = 0]
      /\ ~ o.failed /\ ~ CanSend(o.ep) => r = [o EXCEPT !.request = 0, !.failed = TRUE]
  BY <1>0 DEF Respond, Objects
<1> HIDE DEF f, c, r
<1>5. CASE o.failed
  BY <1>0, <1>4, <1>5 DEF GoodObject, Kept
<1>6. CASE ~ o.failed /\ CanSend(o.ep)
  <2>1. r = [o EXCEPT !.ep = f, !.request = 0]
    BY <1>4, <1>6
  <2>2. /\ r \in Objects /\ r.ep = f /\ r.request = 0 /\ r.tasks = o.tasks
    BY <1>0, <1>3, <2>1 DEF Objects
  <2>3. o.ep.conn = "up"
    BY <1>6 DEF CanSend, CanSendChunk
  <2> QED
    BY <1>2, <1>3, <2>2, <2>3 DEF GoodObject, Kept
<1>7. CASE ~ o.failed /\ ~ CanSend(o.ep)
  <2>1. r = [o EXCEPT !.request = 0, !.failed = TRUE]
    BY <1>4, <1>7
  <2>2. r \in Objects /\ r.ep = o.ep /\ r.request = 0 /\ r.tasks = o.tasks /\ r.failed
    BY <1>0, <2>1 DEF Objects
  <2> QED
    BY <1>1, <2>2 DEF GoodObject, Kept
<1> QED
  BY <1>5, <1>6, <1>7

\* req is request id, perhaps with the entity that it does not have removed.
OfRequest(req, a, id) ==
  req \in Request /\ req.handler = a[id].handler /\ req.param = a[id].param

\* call_out(), for a request that has to be authenticated
LEMMA CallOutGood ==
  ASSUME NEW o, NEW a, GoodObject(o, a), NEW id, InHand(o.ep, o.tasks, a, id),
         NEW req, OfRequest(req, a, id), HasAuth(req),
         NEW fn \in {"authCall", "handler", "respond"}
  PROVE  GoodObject(CallOut(o, fn, id, req), a) /\ Kept(o, CallOut(o, fn, id, req))
<1> DEFINE r == CallOut(o, fn, id, req)
           t == [fn |-> fn, id |-> id, req |-> req]
           e == o.ep
           ts == o.tasks \cup {t}
<1>0. o \in Objects /\ Good(e, o.request, o.tasks, a) /\ e \in Endpoints
  BY DEF GoodObject, Objects
<1>1. /\ a \in Seq(Requests) /\ id \in 1..Len(a) /\ id \in Nat
      /\ t \in Task /\ t.id = id /\ t.req = req
  BY <1>0 DEF Good, Typed, InHand, MayRespond, Task, OfRequest
<1> HIDE DEF t
<1>2. ts \subseteq Task
  BY <1>0, <1>1 DEF Objects
<1>3. /\ r \in Objects /\ r.ep = e /\ r.request = o.request /\ r.tasks = ts
  <2>1. r = [o EXCEPT !.tasks = ts]
    BY <1>0 DEF CallOut, Objects, t
  <2> QED
    BY <1>0, <1>2, <2>1 DEF Objects
<1> HIDE DEF r, e
<1>4. ~ e.websocket => Http(e, ts)
  <2> SUFFICES ASSUME ~ e.websocket
               PROVE  Http(e, ts)
    OBVIOUS
  <2>1. /\ o.tasks = {} /\ e.reading = "none" /\ ~ e.output
        /\ None(e, {"request", "entity", "done"})
    BY DEF InHand, MayRespond, e
  <2>2. ts = {t}
    BY <2>1
  <2> HIDE DEF ts
  <2> QED
    BY <1>0, <2>1, <2>2 DEF Good, Http, None
<1>5. InOnePlace(e, ts, a)
  <2>1. \A n : n # id /\ NotQueued(o.tasks, n) => NotQueued(ts, n)
    BY <1>1 DEF NotQueued
  <2>2. NotWaiting(e, id) /\ NotComing(e, id) /\ NotQueued(o.tasks, id) /\ NotAnswered(e, id)
    BY DEF InHand, MayRespond, e
  <2>3. \A i \in DOMAIN e.inbox : \A n \in Nat : IsEvent(e.inbox[i], n) =>
          n \in 1..Len(a) /\ NotAnswered(e, n) /\ NotComing(e, n) /\ NotQueued(ts, n)
    BY <1>0, <2>1, <2>2 DEF Good, InOnePlace, NotWaiting
  <2>4. \A i \in DOMAIN e.stream : \A n \in Nat : IsFrame(e.stream[i], n) =>
         /\ n \in 1..Len(a) /\ NotAnswered(e, n) /\ NotQueued(ts, n)
         /\ \A j \in DOMAIN e.stream : IsFrame(e.stream[j], n) => j = i
    BY <1>0, <2>1, <2>2 DEF Good, InOnePlace, NotComing
  <2>5. \A u \in ts : u.id \in 1..Len(a) /\ NotAnswered(e, u.id)
    BY <1>0, <1>1, <2>2 DEF Good, InOnePlace
  <2>6. \A u, w \in ts : u.id = w.id => u = w
    BY <1>0, <1>1, <2>2 DEF Good, InOnePlace, NotQueued
  <2> QED
    BY <2>3, <2>4, <2>5, <2>6 DEF InOnePlace
<1>6. TasksOfRequests(ts, a)
  BY <1>0, <1>1 DEF Good, TasksOfRequests, OfRequest
<1>7. Typed(e, o.request, ts, a)
  BY <1>0, <1>2 DEF Good, Typed
<1>8. Good(e, o.request, ts, a)
  BY <1>0, <1>4, <1>5, <1>6, <1>7 DEF Good
<1>9. GoodObject(r, a) /\ Kept(o, r)
  BY <1>3, <1>8 DEF GoodObject, Kept, e
<1> QED
  BY <1>9 DEF r

\* upgradeToWebSocket()
LEMMA UpgradeGood ==
  ASSUME NEW o, NEW a, GoodObject(o, a), NEW id, InHand(o.ep, o.tasks, a, id), Quiet(o.ep)
  PROVE  GoodObject(Upgrade(o, id), a) /\ Kept(o, Upgrade(o, id))
<1> DEFINE r == Respond(o, id, 101)
           f == [r.ep EXCEPT !.websocket = TRUE]
           g == ExpectWsFrame(f)
<1>1. /\ GoodObject(r, a) /\ Kept(o, r)
      /\ ~ r.failed => r.request = 0 /\ r.ep.conn = "up" /\ r.ep.reading = o.ep.reading
  BY RespondGood DEF InHand
<1>2. Upgrade(o, id) = IF r.failed THEN r ELSE [r EXCEPT !.ep = ExpectWsFrame([@ EXCEPT !.websocket = TRUE]), !.login = TRUE]
  BY DEF Upgrade
<1> HIDE DEF r
<1>3. CASE r.failed
  BY <1>1, <1>2, <1>3
<1>4. CASE ~ r.failed
  <2>1. r \in Objects /\ Good(r.ep, 0, r.tasks, a) /\ r.ep \in Endpoints
    BY <1>1, <1>4 DEF GoodObject, Objects
  <2>2. /\ f \in Endpoints /\ f.websocket = TRUE /\ f.inbox = r.ep.inbox
        /\ f.stream = r.ep.stream /\ f.sent = r.ep.sent /\ f.opcode = r.ep.opcode
        /\ f.output = r.ep.output /\ f.reading = r.ep.reading /\ f.alive = r.ep.alive
    BY <2>1 DEF Endpoints
  <2>3. f.reading = "none" /\ None(f, {"request", "entity", "chunk", "frame"})
    BY <1>1, <1>4, <2>2 DEF Quiet, Kept, None
  <2> HIDE DEF f
  <2>4. FramesPaired(f) /\ OneEvent(f)
    BY <2>1, <2>2 DEF Good, FramesPaired, OneEvent, None
  <2>5. Upgraded(f, 0) /\ EntityOf(f, 0, a)
    BY <2>3 DEF Upgraded, EntityOf, None
  <2>6. InOnePlace(f, r.tasks, a)
    BY <2>1, <2>2, PlacesKept DEF Good, NotWaiting
  <2>7. LastRequest(f, a) /\ Answers(f, a) /\ Typed(f, 0, r.tasks, a)
    BY <2>1, <2>2 DEF Good, LastRequest, Answers, Typed
  <2>8. Good(f, 0, r.tasks, a)
    BY <2>1, <2>2, <2>4, <2>5, <2>6, <2>7 DEF Good
  <2>9. Good(g, 0, r.tasks, a)
    BY <2>2, <2>3, <2>8, FrameAwaited
  <2>10. g \in Endpoints /\ g.inbox = f.inbox /\ g.websocket = TRUE
    BY <2>2 DEF ExpectWsFrame, Endpoints
  <2> HIDE DEF g
  <2> DEFINE u == [r EXCEPT !.ep = g, !.login = TRUE]
  <2>11. Upgrade(o, id) = u
    BY <1>2, <1>4, <2>1 DEF g, f, Objects
  <2>12. u \in Objects /\ u.ep = g /\ u.request = 0 /\ u.tasks = r.tasks
    BY <1>1, <1>4, <2>1, <2>10 DEF Objects
  <2> HIDE DEF u
  <2>13. GoodObject(u, a) /\ Kept(o, u)
    BY <1>1, <2>2, <2>9, <2>10, <2>12 DEF GoodObject, Kept
  <2> QED
    BY <2>11, <2>13
<1> QED
  BY <1>3, <1>4

\* The handlers: one response, in this task or in one of its own.
LEMMA HandleGood ==
  ASSUME NEW o, NEW a, GoodObject(o, a), NEW id, InHand(o.ep, o.tasks, a, id),
         NEW req, OfRequest(req, a, id), ~ HasAuth(req) => Quiet(o.ep)
  PROVE  GoodObject(Handle(o, id, req), a) /\ Kept(o, Handle(o, id, req))
<1>0. req.handler \in Handlers /\ MayRespond(o.ep, o.tasks, a, id) /\ NotAnswered(o.ep, id)
  BY DEF OfRequest, Request, InHand
<1>1. CASE req.handler = "getConfig"
  BY <1>0, <1>1, RespondGood DEF Handle
<1>2. CASE req.handler \in {"getDirectoryAuth", "putAccountsGcm"}
  <2>1. Handle(o, id, req) = CallOut(o, "respond", id, req)
    BY <1>2 DEF Handle
  <2> QED
    BY <1>2, <2>1, CallOutGood DEF HasAuth
<1>3. CASE req.handler = "getCertificateAuth"
  <2> DEFINE r == Respond(o, id, 404)
  <2>1. Handle(o, id, req) = Respond(IF req.param = "bad" THEN r ELSE o, id, 200)
    BY <1>3 DEF Handle
  <2>2. CASE req.param = "bad"
    <3>1. AnsweredTwice(a[id])
      BY <1>3, <2>2 DEF AnsweredTwice, OfRequest
    <3>2. GoodObject(r, a) /\ Kept(o, r) /\ MayRespond(r.ep, r.tasks, a, id)
      BY <1>0, <3>1, RespondGood
    <3> HIDE DEF r
    <3>3. GoodObject(Respond(r, id, 200), a) /\ Kept(r, Respond(r, id, 200))
      BY <3>2, RespondGood
    <3> QED
      BY <2>1, <2>2, <3>2, <3>3 DEF Kept
  <2>3. CASE req.param # "bad"
    BY <1>0, <2>1, <2>3, RespondGood
  <2> QED
    BY <2>2, <2>3
<1>4. CASE req.handler = "getWebsocketLogin"
  <2>1. Handle(o, id, req) = Upgrade(o, id)
    BY <1>4 DEF Handle
  <2> QED
    BY <1>4, <2>1, UpgradeGood DEF HasAuth
<1> QED
  BY <1>0, <1>1, <1>2, <1>3, <1>4 DEF Handlers

\* call(): the entity, the authentication and the handler
LEMMA CallGood ==
  ASSUME NEW o, NEW a, GoodObject(o, a), NEW id, InHand(o.ep, o.tasks, a, id),
         NEW req, OfRequest(req, a, id), Quiet(o.ep)
  PROVE  GoodObject(Call(o, id, req), a) /\ Kept(o, Call(o, id, req))
<1>0. MayRespond(o.ep, o.tasks, a, id)
  BY DEF InHand
<1>1. GoodObject(Respond(o, id, 400), a) /\ Kept(o, Respond(o, id, 400))
  <2> DEFINE code == 400
  <2>1. code \in Nat
    OBVIOUS
  <2> HIDE DEF code
  <2>2. GoodObject(Respond(o, id, code), a) /\ Kept(o, Respond(o, id, code))
    BY <1>0, <2>1, RespondGood
  <2> QED
    BY <2>2 DEF code
<1>2. GoodObject(Handle(o, id, req), a) /\ Kept(o, Handle(o, id, req))
  BY HandleGood
<1>3. ASSUME HasAuth(req)
      PROVE  GoodObject(SubstAuth(o, id, req), a) /\ Kept(o, SubstAuth(o, id, req))
  <2>1. GoodObject(CallOut(o, "handler", id, req), a) /\ Kept(o, CallOut(o, "handler", id, req))
    BY <1>3, CallOutGood
  <2>2. GoodObject(CallOut(o, "authCall", id, req), a) /\ Kept(o, CallOut(o, "authCall", id, req))
    BY <1>3, CallOutGood
  <2>3. SubstAuth(o, id, req) \in {CallOut(o, "handler", id, req),
                                   CallOut(o, "authCall", id, req), Respond(o, id, 400)}
    BY DEF SubstAuth
  <2> QED
    BY <1>1, <2>1, <2>2, <2>3
<1>4. \/ Call(o, id, req) \in {o, Respond(o, id, 400)}
      \/ HasAuth(req) /\ Call(o, id, req) = SubstAuth(o, id, req)
      \/ Call(o, id, req) = Handle(o, id, req)
  BY DEF Call
<1> QED
  BY <1>1, <1>2, <1>3, <1>4 DEF Kept

(***************************************************************************)
(* A request gets into the hands of a task                                 *)
(***************************************************************************)

\* The event at the head: it is the only one of its kind, and what Taken leaves.
LEMMA HeadTaken ==
  ASSUME NEW e, NEW q, NEW ts, NEW a, Good(e, q, ts, a), e.inbox # <<>>,
         Head(e.inbox).type \in {"request", "entity", "chunk"}
  PROVE  /\ Good(Taken(e), q, ts, a) /\ Quiet(Taken(e))
         /\ 1 \in DOMAIN e.inbox /\ e.inbox[1] = Head(e.inbox) /\ e.inbox[1] \in Events
         /\ None(e, {"frame"})
         /\ Taken(e).stream = e.stream /\ Taken(e).sent = e.sent
         /\ Taken(e).websocket = e.websocket /\ Taken(e).output = e.output
         /\ Taken(e).conn = e.conn /\ Taken(e).reading = "none"
         /\ \A id : NotWaiting(Taken(e), id)
         /\ ~ e.websocket =>
              ts = {} /\ ~ e.output /\ None(Taken(e), {"request", "entity", "done"})
<1>0. e \in Endpoints /\ e.inbox \in Seq(Events)
  BY Parts DEF Good, Typed
<1>1. 1 \in DOMAIN e.inbox /\ e.inbox[1] = Head(e.inbox) /\ e.inbox[1] \in Events
  BY <1>0, TailOf
<1>2. Good(Taken(e), q, ts, a)
  BY TakenGood
<1>3. /\ Taken(e).stream = e.stream /\ Taken(e).sent = e.sent
      /\ Taken(e).websocket = e.websocket /\ Taken(e).output = e.output
      /\ Taken(e).conn = e.conn /\ Taken(e).reading = e.reading
      /\ Taken(e).inbox = Tail(e.inbox)
  BY <1>0 DEF Taken, Endpoints
<1>4. e.reading = "none"
  BY <1>1 DEF Good, OneEvent
<1>5. None(Taken(e), {"request", "entity", "chunk"})
  <2>1. \A i, j \in DOMAIN e.inbox :
          (/\ e.inbox[i].type \in {"request", "entity", "chunk"}
           /\ e.inbox[j].type \in {"request", "entity", "chunk"}) => i = j
    BY DEF Good, OneEvent
  <2> QED
    BY <1>0, <2>1, TakenLast
<1>6. None(e, {"frame"})
  <2>1. CASE e.inbox[1].type = "chunk"
    <3>1. \A i \in DOMAIN e.inbox : i \in Nat /\ i >= 1
      BY <1>0
    <3> QED
      BY <1>1, <2>1, <3>1 DEF Good, FramesPaired, None
  <2>2. CASE e.inbox[1].type # "chunk"
    <3>1. ~ e.websocket
      BY <1>1, <2>2 DEF Good, Upgraded, None
    <3> QED
      BY <3>1 DEF Good, Http, None
  <2> QED
    BY <2>1, <2>2
<1>7. None(Taken(e), {"frame"})
  BY <1>0, <1>3, <1>6, TailOf DEF None
<1>8. Quiet(Taken(e))
  BY <1>3, <1>4, <1>5, <1>7 DEF Quiet, None
<1>9. \A id : NotWaiting(Taken(e), id)
  BY <1>5 DEF None, NotWaiting, IsEvent
<1>10. ASSUME ~ e.websocket
       PROVE  ts = {} /\ ~ e.output /\ None(Taken(e), {"request", "entity", "done"})
  <2>1. Head(e.inbox).type \in {"request", "entity", "done"}
    BY <1>1, <1>10 DEF Good, Http, None
  <2>2. \A i, j \in DOMAIN e.inbox :
          (/\ e.inbox[i].type \in {"request", "entity", "done"}
           /\ e.inbox[j].type \in {"request", "entity", "done"}) => i = j
    BY <1>10 DEF Good, Http
  <2>3. ts = {} /\ ~ e.output
    BY <1>1, <1>10, <2>1 DEF Good, Http
  <2> QED
    BY <1>0, <2>1, <2>2, <2>3, TakenLast
<1> QED
  BY <1>1, <1>2, <1>3, <1>4, <1>6, <1>8, <1>9, <1>10

\* _receiveRequest(): the request of the object is the one that was read.
LEMMA RequestInHand ==
  ASSUME NEW e, NEW q, NEW ts, NEW a, Good(e, q, ts, a), NextIs(e, "request")
  PROVE  LET id == Head(e.inbox).id
         IN  /\ id = Len(a) /\ id # 0 /\ id \in 1..Len(a) /\ ~ e.websocket
             /\ Good(Taken(e), id, ts, a) /\ Quiet(Taken(e))
             /\ InHand(Taken(e), ts, a, id)
<1> DEFINE id == Head(e.inbox).id
           f == Taken(e)
<1>0. e.inbox # <<>> /\ Head(e.inbox).type = "request"
  BY DEF NextIs
<1>1. /\ Good(f, q, ts, a) /\ Quiet(f)
      /\ 1 \in DOMAIN e.inbox /\ e.inbox[1] = Head(e.inbox) /\ e.inbox[1] \in Events
      /\ f.stream = e.stream /\ f.sent = e.sent
      /\ f.websocket = e.websocket /\ f.output = e.output /\ f.reading = "none"
      /\ NotWaiting(f, id)
      /\ ~ e.websocket => ts = {} /\ ~ e.output /\ None(f, {"request", "entity", "done"})
  BY <1>0, HeadTaken
<1>2. id \in Nat /\ IsEvent(e.inbox[1], id)
  BY <1>0, <1>1 DEF Events, IsEvent
<1>3. ~ e.websocket
  BY <1>0, <1>1 DEF Good, Upgraded, None
<1>4. /\ id = Len(a) /\ id \in 1..Len(a)
      /\ NotAnswered(e, id) /\ NotComing(e, id) /\ NotQueued(ts, id)
  BY <1>0, <1>1, <1>2 DEF Good, InOnePlace, LastRequest
<1> HIDE DEF f, id
<1>5. NotAnswered(f, id) /\ NotComing(f, id)
  BY <1>1, <1>4 DEF NotAnswered, NotComing
<1>6. InHand(f, ts, a, id)
  BY <1>1, <1>3, <1>4, <1>5 DEF InHand, MayRespond, NotAnswered
<1>7. Good(f, id, ts, a)
  <2>1. EntityOf(f, id, a)
    BY <1>4, <1>5, <1>2 DEF EntityOf
  <2>2. Typed(f, id, ts, a)
    BY <1>1, <1>4 DEF Good, Typed
  <2> QED
    BY <1>1, <1>3, <2>1, <2>2 DEF Good
<1> QED
  BY <1>1, <1>3, <1>4, <1>6, <1>7 DEF f, id

\* _receiveRequest(): expectEntity()
LEMMA EntityAwaited ==
  ASSUME NEW e, NEW ts, NEW a, NEW id, Good(e, id, ts, a), Quiet(e), InHand(e, ts, a, id),
         id = Len(a), ~ e.websocket
  PROVE  Good([e EXCEPT !.reading = "entity"], id, ts, a)
<1> DEFINE f == [e EXCEPT !.reading = "entity"]
<1>0. e \in Endpoints
  BY DEF Good, Typed
<1>1. /\ f \in Endpoints /\ f.reading = "entity" /\ f.inbox = e.inbox
      /\ f.stream = e.stream /\ f.sent = e.sent /\ f.websocket = e.websocket
      /\ f.alive = e.alive /\ f.opcode = e.opcode /\ f.output = e.output
  BY <1>0 DEF Endpoints
<1> HIDE DEF f
<1>2. FramesPaired(f) /\ OneEvent(f)
  BY <1>1 DEF Good, FramesPaired, OneEvent, Quiet, None
<1>3. Http(f, ts)
  BY <1>1 DEF Good, Http, InHand, MayRespond, None
<1>4. EntityOf(f, id, a)
  BY <1>1 DEF EntityOf, InHand, MayRespond, NotAnswered
<1>5. InOnePlace(f, ts, a)
  BY <1>1, PlacesKept DEF Good, NotWaiting
<1>6. LastRequest(f, a) /\ Answers(f, a) /\ Typed(f, id, ts, a)
  BY <1>1 DEF Good, LastRequest, Answers, Typed
<1> QED
  BY <1>1, <1>2, <1>3, <1>4, <1>5, <1>6 DEF Good, f

\* _receiveEntity(): the request of the object is the one that the entity belongs to.
LEMMA EntityInHand ==
  ASSUME NEW e, NEW q, NEW ts, NEW a, Good(e, q, ts, a), NextIs(e, "entity")
  PROVE  /\ Good(Taken(e), q, ts, a) /\ Quiet(Taken(e))
         /\ q \in 1..Len(a) /\ InHand(Taken(e), ts, a, q)
<1> DEFINE f == Taken(e)
<1>0. e.inbox # <<>> /\ Head(e.inbox).type = "entity"
  BY DEF NextIs
<1>1. /\ Good(f, q, ts, a) /\ Quiet(f)
      /\ 1 \in DOMAIN e.inbox /\ e.inbox[1] = Head(e.inbox)
      /\ f.stream = e.stream /\ f.sent = e.sent
      /\ f.websocket = e.websocket /\ f.output = e.output /\ f.reading = "none"
      /\ NotWaiting(f, q)
      /\ ~ e.websocket => ts = {} /\ ~ e.output /\ None(f, {"request", "entity", "done"})
  BY <1>0, HeadTaken
<1>2. ~ e.websocket /\ ~ None(e, {"entity"})
  BY <1>0, <1>1 DEF Good, Upgraded, None
<1>3. q \in 1..Len(a) /\ NotAnswered(e, q)
  <2>1. q = Len(a) /\ q # 0 /\ NotAnswered(e, q) /\ q \in 0..Len(a) /\ a \in Seq(Requests)
    BY <1>2 DEF Good, EntityOf, Typed
  <2> QED
    BY <2>1
<1>4. NotComing(e, q) /\ NotQueued(ts, q)
  BY <1>1, <1>2 DEF Good, Http, NotComing, NotQueued
<1> HIDE DEF f
<1>5. NotAnswered(f, q) /\ NotComing(f, q)
  BY <1>1, <1>3, <1>4 DEF NotAnswered, NotComing
<1>6. InHand(f, ts, a, q)
  BY <1>1, <1>2, <1>3, <1>4, <1>5 DEF InHand, MayRespond, NotAnswered
<1> QED
  BY <1>1, <1>3, <1>6 DEF f

\* receiveWsRequest(): the contents of a frame that is not a close frame are a request.
LEMMA WsRequestInHand ==
  ASSUME NEW e, NEW q, NEW ts, NEW a, Good(e, q, ts, a), IsChunk(e)
  PROVE  LET id == Head(e.inbox).payload.id
         IN  /\ id \in 1..Len(a) /\ e.websocket
             /\ Good(Taken(e), q, ts, a) /\ Quiet(Taken(e)) /\ Taken(e).websocket
             /\ InHand(Taken(e), ts, a, id)
<1> DEFINE id == Head(e.inbox).payload.id
           f == Taken(e)
<1>0. e.alive /\ e.inbox # <<>> /\ Head(e.inbox).type = "chunk" /\ e.opcode # "CLOSE"
  BY DEF NextIs, IsChunk
<1>1. /\ Good(f, q, ts, a) /\ Quiet(f) /\ None(e, {"frame"})
      /\ 1 \in DOMAIN e.inbox /\ e.inbox[1] = Head(e.inbox) /\ e.inbox[1] \in Events
      /\ f.stream = e.stream /\ f.sent = e.sent
      /\ f.websocket = e.websocket /\ f.output = e.output /\ f.reading = "none"
      /\ NotWaiting(f, id)
  BY <1>0, HeadTaken
<1>2. e.inbox[1].payload.type = "request"
  BY <1>0, <1>1 DEF Good, FramesPaired, Match
<1>3. id \in Nat /\ IsEvent(e.inbox[1], id)
  <2>1. e.inbox[1].payload \in WsPayload
    BY <1>0, <1>1 DEF Events
  <2>2. e.inbox[1].payload.id \in Nat
    BY <1>2, <2>1 DEF WsPayload
  <2> QED
    BY <1>0, <1>1, <1>2, <2>2 DEF IsEvent
<1>4. e.websocket
  BY <1>0, <1>1 DEF Good, Http, None
<1>5. id \in 1..Len(a) /\ NotAnswered(e, id) /\ NotComing(e, id) /\ NotQueued(ts, id)
  BY <1>1, <1>3 DEF Good, InOnePlace
<1> HIDE DEF f, id
<1>6. NotAnswered(f, id) /\ NotComing(f, id)
  BY <1>1, <1>5 DEF NotAnswered, NotComing
<1>7. InHand(f, ts, a, id)
  BY <1>1, <1>4, <1>5, <1>6 DEF InHand, MayRespond, NotAnswered
<1> QED
  BY <1>1, <1>4, <1>5, <1>7 DEF f, id

\* A queued task runs.
LEMMA TaskInHand ==
  ASSUME NEW e, NEW q, NEW ts, NEW a, Good(e, q, ts, a), NEW t \in ts
  PROVE  /\ Good(e, q, ts \ {t}, a) /\ InHand(e, ts \ {t}, a, t.id)
         /\ OfRequest(t.req, a, t.id) /\ HasAuth(t.req)
<1> DEFINE us == ts \ {t}
<1>1. /\ t.id \in 1..Len(a) /\ NotAnswered(e, t.id) /\ t \in Task
      /\ OfRequest(t.req, a, t.id) /\ HasAuth(t.req)
  BY DEF Good, InOnePlace, Typed, Task, TasksOfRequests, OfRequest
<1>2. t.id \in Nat
  BY <1>1 DEF Task
<1>3. NotWaiting(e, t.id) /\ NotComing(e, t.id)
  BY <1>2 DEF Good, InOnePlace, NotWaiting, NotComing, NotQueued
<1>4. NotQueued(us, t.id)
  BY DEF Good, InOnePlace, NotQueued
<1>5. ~ e.websocket => /\ us = {} /\ e.reading = "none" /\ ~ e.output
                       /\ None(e, {"request", "entity", "done"})
  <2> SUFFICES ASSUME ~ e.websocket
               PROVE  /\ us = {} /\ e.reading = "none" /\ ~ e.output
                      /\ None(e, {"request", "entity", "done"})
    OBVIOUS
  <2>1. Http(e, ts) /\ ts # {}
    BY DEF Good
  <2>2. e.reading = "none" /\ ~ e.output /\ None(e, {"request", "entity", "done"})
    BY <2>1 DEF Http, None
  <2>3. us = {}
    BY <2>1 DEF Http
  <2> QED
    BY <2>2, <2>3
<1>6. InHand(e, us, a, t.id)
  BY <1>1, <1>3, <1>4, <1>5 DEF InHand, MayRespond, NotAnswered
<1>7. Good(e, q, us, a)
  <2>1. us \subseteq ts
    OBVIOUS
  <2> HIDE DEF us
  <2>2. ~ e.websocket => Http(e, us)
    BY <1>5 DEF Good, Http
  <2>3. \A n : NotQueued(ts, n) => NotQueued(us, n)
    BY <2>1 DEF NotQueued
  <2>4. InOnePlace(e, us, a)
    BY <2>1, <2>3 DEF Good, InOnePlace
  <2>5. TasksOfRequests(us, a) /\ Typed(e, q, us, a)
    BY <2>1 DEF Good, TasksOfRequests, Typed
  <2> QED
    BY <2>2, <2>4, <2>5 DEF Good
<1> QED
  BY <1>1, <1>6, <1>7

(***************************************************************************)
(* The actions                                                             *)
(***************************************************************************)

\* The state of the object, when a handler starts.
LEMMA ObjectGood ==
  ASSUME NEW e, NEW q, NEW ts, NEW a, Good(e, q, ts, a), NEW l \in BOOLEAN
  PROVE  LET o == [ep |-> e, request |-> q, login |-> l, tasks |-> ts, failed |-> FALSE]
         IN  GoodObject(o, a) /\ o.ep = e /\ o.tasks = ts
<1>1. e \in Endpoints /\ q \in Nat /\ ts \in SUBSET Task
  BY DEF Good, Typed
<1> QED
  BY <1>1 DEF GoodObject, Objects

\* An object is what its variables are.
LEMMA ObjectIs ==
  ASSUME NEW e, NEW q, NEW l, NEW ts,
         NEW r \in [ep : {e}, request : {q}, login : {l}, tasks : {ts}, failed : {FALSE}]
  PROVE  r = [ep |-> e, request |-> q, login |-> l, tasks |-> ts, failed |-> FALSE]
  OBVIOUS

\* The state of the object, when a handler has ended.
LEMMA BecomesGood ==
  ASSUME NEW r, GoodObject(r, asked), Becomes(r), asked' = asked
  PROVE  Inv'
<1>1. Good(r.ep, r.request, r.tasks, asked) /\ r.login \in BOOLEAN
  BY DEF GoodObject, Objects
<1>2. Good(ep', request', tasks', asked') /\ login' \in BOOLEAN
  BY <1>1 DEF Becomes
<1> QED
  BY <1>2 DEF Inv

\* ReceiveRequest
LEMMA ReceiveRequestInv ==
  ASSUME Inv, ReceiveRequest
  PROVE  Inv'
<1> DEFINE id == Head(ep.inbox).id
           req == asked[id]
           o == [ep |-> Taken(ep), request |-> id, login |-> login, tasks |-> tasks,
                 failed |-> FALSE]
           r == IF Refusal(req) # 0 THEN Respond(o, id, Refusal(req))
                ELSE IF req.length = "nil" THEN Call(o, id, [req EXCEPT !.entity = "nil"])
                ELSE IF ep.conn = "up" THEN [o EXCEPT !.ep.reading = "entity"] ELSE o
<1>1. Good(ep, request, tasks, asked) /\ login \in BOOLEAN /\ NextIs(ep, "request")
  BY DEF Inv, ReceiveRequest
<1>2. /\ id = Len(asked) /\ id \in 1..Len(asked) /\ ~ ep.websocket
      /\ Good(Taken(ep), id, tasks, asked) /\ Quiet(Taken(ep))
      /\ InHand(Taken(ep), tasks, asked, id)
  BY <1>1, RequestInHand
<1>3. GoodObject(o, asked) /\ o.ep = Taken(ep) /\ o.tasks = tasks
  BY <1>1, <1>2, ObjectGood
<1>4. [Object(Taken(ep)) EXCEPT !.request = id] = o
  <2> DEFINE x == [Object(Taken(ep)) EXCEPT !.request = id]
  <2>1. x \in [ep : {Taken(ep)}, request : {id}, login : {login}, tasks : {tasks},
               failed : {FALSE}]
    BY DEF Object
  <2> HIDE DEF x
  <2>2. x = o
    BY <2>1, ObjectIs
  <2> QED
    BY <2>2 DEF x
<1>5. Becomes(r) /\ asked' = asked
  BY <1>4 DEF ReceiveRequest
<1>6. req \in Request
  BY <1>1, <1>2, RequestsAssumption DEF Good, Typed
<1>7. o.request = id /\ [o EXCEPT !.ep.reading = "entity"] =
        [ep |-> [Taken(ep) EXCEPT !.reading = "entity"], request |-> id, login |-> login,
         tasks |-> tasks, failed |-> FALSE]
  <2> DEFINE f == [Taken(ep) EXCEPT !.reading = "entity"]
             x == [o EXCEPT !.ep.reading = "entity"]
  <2>1. x \in [ep : {f}, request : {id}, login : {login}, tasks : {tasks}, failed : {FALSE}]
    OBVIOUS
  <2> HIDE DEF x, f
  <2>2. x = [ep |-> f, request |-> id, login |-> login, tasks |-> tasks, failed |-> FALSE]
    BY <2>1, ObjectIs
  <2> QED
    BY <2>2 DEF x, f
<1>8. ~ Taken(ep).websocket
  BY <1>1, <1>2 DEF Good, Typed, Taken, Endpoints
<1> HIDE DEF id, o, req
<1>9. GoodObject(r, asked)
  <2>1. CASE Refusal(req) # 0
    <3>1. Refusal(req) \in Nat
      BY DEF Refusal
    <3> QED
      BY <1>2, <1>3, <2>1, <3>1, RespondGood DEF InHand
  <2>2. CASE Refusal(req) = 0 /\ req.length = "nil"
    <3> DEFINE bare == [req EXCEPT !.entity = "nil"]
    <3>1. OfRequest(bare, asked, id)
      BY <1>6 DEF OfRequest, Request, req
    <3> HIDE DEF bare
    <3>2. GoodObject(Call(o, id, bare), asked)
      BY <1>2, <1>3, <3>1, CallGood
    <3> QED
      BY <2>2, <3>2 DEF bare
  <2>3. CASE Refusal(req) = 0 /\ req.length # "nil" /\ ep.conn = "up"
    <3> DEFINE f == [Taken(ep) EXCEPT !.reading = "entity"]
    <3>1. Good(f, id, tasks, asked)
      BY <1>2, <1>8, EntityAwaited
    <3> HIDE DEF f
    <3>2. GoodObject([ep |-> f, request |-> id, login |-> login, tasks |-> tasks,
                      failed |-> FALSE], asked)
      BY <1>1, <3>1, ObjectGood
    <3> QED
      BY <1>7, <2>3, <3>2 DEF f
  <2>4. CASE Refusal(req) = 0 /\ req.length # "nil" /\ ep.conn # "up"
    BY <1>3, <2>4
  <2> QED
    BY <2>1, <2>2, <2>3, <2>4
<1> HIDE DEF r
<1> QED
  BY <1>5, <1>9, BecomesGood

\* ReceiveEntity
LEMMA ReceiveEntityInv ==
  ASSUME Inv, ReceiveEntity
  PROVE  Inv'
<1> DEFINE o == [ep |-> Taken(ep), request |-> request, login |-> login, tasks |-> tasks,
                 failed |-> FALSE]
           r == Call(o, request, asked[request])
<1>1. Good(ep, request, tasks, asked) /\ login \in BOOLEAN /\ NextIs(ep, "entity")
  BY DEF Inv, ReceiveEntity
<1>2. /\ Good(Taken(ep), request, tasks, asked) /\ Quiet(Taken(ep))
      /\ request \in 1..Len(asked) /\ InHand(Taken(ep), tasks, asked, request)
  BY <1>1, EntityInHand
<1>3. GoodObject(o, asked) /\ o.ep = Taken(ep) /\ o.tasks = tasks
  BY <1>1, <1>2, ObjectGood
<1>4. Becomes(r) /\ asked' = asked
  BY DEF ReceiveEntity, Object
<1>5. OfRequest(asked[request], asked, request)
  BY <1>1, <1>2, RequestsAssumption DEF Good, Typed, OfRequest
<1> HIDE DEF o
<1>6. GoodObject(r, asked)
  BY <1>2, <1>3, <1>5, CallGood
<1> HIDE DEF r
<1> QED
  BY <1>4, <1>6, BecomesGood

\* ReceiveWsRequest
LEMMA ReceiveWsRequestInv ==
  ASSUME Inv, ReceiveWsRequest
  PROVE  Inv'
<1> DEFINE id == Head(ep.inbox).payload.id
           req == asked[id]
           o == [ep |-> Taken(ep), request |-> request, login |-> login, tasks |-> tasks,
                 failed |-> FALSE]
           r == IF req.head = "path" THEN Respond(o, id, 404) ELSE Call(o, id, req)
           u == IF r.failed THEN r ELSE [r EXCEPT !.ep = ExpectWsFrame(@)]
<1>1. Good(ep, request, tasks, asked) /\ login \in BOOLEAN /\ IsChunk(ep)
  BY DEF Inv, ReceiveWsRequest
<1>2. /\ id \in 1..Len(asked) /\ ep.websocket
      /\ Good(Taken(ep), request, tasks, asked) /\ Quiet(Taken(ep)) /\ Taken(ep).websocket
      /\ InHand(Taken(ep), tasks, asked, id)
  BY <1>1, WsRequestInHand
<1>3. GoodObject(o, asked) /\ o.ep = Taken(ep) /\ o.tasks = tasks
  BY <1>1, <1>2, ObjectGood
<1>4. Becomes(u) /\ asked' = asked
  BY DEF ReceiveWsRequest, Object
<1>5. OfRequest(req, asked, id)
  BY <1>1, <1>2, RequestsAssumption DEF Good, Typed, OfRequest
<1> HIDE DEF id, o, req
<1>6. GoodObject(r, asked) /\ Kept(o, r)
  <2>1. CASE req.head = "path"
    <3>1. ASSUME NEW code \in Nat
          PROVE  GoodObject(Respond(o, id, code), asked) /\ Kept(o, Respond(o, id, code))
      BY <1>2, <1>3, RespondGood DEF InHand
    <3>2. GoodObject(Respond(o, id, 404), asked) /\ Kept(o, Respond(o, id, 404))
      BY <3>1
    <3> QED
      BY <2>1, <3>2
  <2>2. CASE req.head # "path"
    <3>1. GoodObject(Call(o, id, req), asked) /\ Kept(o, Call(o, id, req))
      BY <1>2, <1>3, <1>5, CallGood
    <3> QED
      BY <2>2, <3>1
  <2> QED
    BY <2>1, <2>2
<1>7. u = IF r.failed THEN r ELSE [r EXCEPT !.ep = ExpectWsFrame(@)]
  OBVIOUS
<1> HIDE DEF r, u
<1>8. CASE r.failed
  BY <1>4, <1>6, <1>7, <1>8, BecomesGood
<1>9. CASE ~ r.failed
  <2> DEFINE g == ExpectWsFrame(r.ep)
  <2>1. /\ r \in Objects /\ Good(r.ep, r.request, r.tasks, asked) /\ r.ep.websocket
        /\ r.ep.inbox = Taken(ep).inbox
    BY <1>2, <1>3, <1>6 DEF GoodObject, Kept
  <2>2. None(r.ep, {"request", "entity", "chunk", "frame"})
    BY <1>2, <2>1 DEF Quiet, None
  <2>3. Good(g, r.request, r.tasks, asked)
    BY <2>1, <2>2, FrameAwaited
  <2>4. g \in Endpoints
    BY <2>3 DEF Good, Typed
  <2>5. u = [r EXCEPT !.ep = g]
    BY <1>7, <1>9, <2>1 DEF Objects
  <2> HIDE DEF g
  <2>6. u \in Objects /\ u.ep = g /\ u.request = r.request /\ u.tasks = r.tasks
    BY <2>1, <2>4, <2>5 DEF Objects
  <2>7. GoodObject(u, asked)
    BY <2>3, <2>6 DEF GoodObject
  <2> QED
    BY <1>4, <2>7, BecomesGood
<1> QED
  BY <1>8, <1>9

\* AuthCall and Continue
LEMMA TaskInv ==
  ASSUME Inv, NEW t \in tasks, AuthCall(t) \/ Continue(t)
  PROVE  Inv'
<1> DEFINE o == [ep |-> ep, request |-> request, login |-> login, tasks |-> tasks \ {t},
                 failed |-> FALSE]
<1>1. Good(ep, request, tasks, asked) /\ login \in BOOLEAN
  BY DEF Inv
<1>2. /\ Good(ep, request, tasks \ {t}, asked) /\ InHand(ep, tasks \ {t}, asked, t.id)
      /\ OfRequest(t.req, asked, t.id) /\ HasAuth(t.req)
  BY <1>1, TaskInHand
<1>3. GoodObject(o, asked) /\ o.ep = ep /\ o.tasks = tasks \ {t}
  BY <1>1, <1>2, ObjectGood
<1>4. [Object(ep) EXCEPT !.tasks = @ \ {t}] = o
  <2> DEFINE x == [Object(ep) EXCEPT !.tasks = @ \ {t}]
  <2>1. x \in [ep : {ep}, request : {request}, login : {login}, tasks : {tasks \ {t}},
               failed : {FALSE}]
    BY DEF Object
  <2> HIDE DEF x
  <2>2. x = o
    BY <2>1, ObjectIs
  <2> QED
    BY <2>2 DEF x
<1>5. /\ asked' = asked
      /\ \/ Becomes(Handle(o, t.id, t.req))
         \/ Becomes(Respond(o, t.id, 401)) \/ Becomes(Respond(o, t.id, 200))
  BY <1>4 DEF AuthCall, Continue
<1> HIDE DEF o
<1>6. GoodObject(Handle(o, t.id, t.req), asked)
  BY <1>2, <1>3, HandleGood
<1>7. MayRespond(o.ep, o.tasks, asked, t.id)
  BY <1>2, <1>3 DEF InHand
<1>8. ASSUME NEW code \in Nat
      PROVE  GoodObject(Respond(o, t.id, code), asked)
  BY <1>3, <1>7, RespondGood
<1>9. GoodObject(Respond(o, t.id, 401), asked) /\ GoodObject(Respond(o, t.id, 200), asked)
  BY <1>8
<1> QED
  BY <1>5, <1>6, <1>9, BecomesGood

\* DoneRequest
LEMMA DoneRequestInv ==
  ASSUME Inv, DoneRequest
  PROVE  Inv'
<1> DEFINE f == Taken(ep)
<1>1. /\ Good(ep, request, tasks, asked) /\ login \in BOOLEAN
      /\ ep.inbox # <<>> /\ Head(ep.inbox).type = "done" /\ ~ ep.websocket
  BY DEF Inv, DoneRequest, NextIs
<1>2. ep \in Endpoints /\ ep.inbox \in Seq(Events)
  BY <1>1, Parts DEF Good, Typed
<1>3. 1 \in DOMAIN ep.inbox /\ ep.inbox[1] = Head(ep.inbox)
  BY <1>1, <1>2, TailOf
<1>4. Good(f, request, tasks, asked)
  BY <1>1, TakenGood
<1>5. tasks = {} /\ ~ ep.output
  BY <1>1, <1>3 DEF Good, Http
<1>6. None(f, {"request", "entity", "done"})
  <2>1. \A i, j \in DOMAIN ep.inbox :
          (/\ ep.inbox[i].type \in {"request", "entity", "done"}
           /\ ep.inbox[j].type \in {"request", "entity", "done"}) => i = j
    BY <1>1 DEF Good, Http
  <2> QED
    BY <1>1, <1>2, <2>1, TakenLast
<1>7. ~ f.websocket /\ ~ f.output
  BY <1>1, <1>2, <1>5 DEF Taken, Endpoints
<1>8. Good(Ended(f), request, tasks, asked)
  BY <1>4, EndedGood
<1>9. Good([f EXCEPT !.reading = "request"], request, tasks, asked)
  BY <1>4, <1>5, <1>6, <1>7, RequestAwaited
<1>10. /\ ep' \in {f, Ended(f), [f EXCEPT !.reading = "request"]}
       /\ request' = request /\ login' = login /\ tasks' = tasks /\ asked' = asked
  BY DEF DoneRequest
<1> HIDE DEF f
<1> QED
  BY <1>1, <1>4, <1>8, <1>9, <1>10 DEF Inv

(***************************************************************************)
(* Theorems                                                                *)
(***************************************************************************)

\* The invariant holds initially, and every step keeps it.
LEMMA InvHolds == Spec => []Inv
<1>1. Init => Inv
  <2> SUFFICES ASSUME Init
               PROVE  Inv
    OBVIOUS
  <2>1. /\ ep \in Endpoints /\ ep.inbox = <<>> /\ ep.stream = <<>> /\ ep.sent = <<>>
        /\ ep.reading = "request" /\ ~ ep.websocket /\ ~ ep.output
    <3>1. /\ Endpoint \in Endpoints /\ Endpoint.inbox = <<>> /\ Endpoint.stream = <<>>
          /\ Endpoint.sent = <<>> /\ ~ Endpoint.websocket /\ ~ Endpoint.output
      <4>1. <<>> \in Seq(Events) /\ <<>> \in Seq(WsFrames) /\ <<>> \in Seq(Sendable)
        OBVIOUS
      <4> QED
        BY <4>1 DEF Endpoint, Endpoints, Opcodes
    <3> QED
      BY <3>1 DEF Init, Endpoints
  <2>2. request = 0 /\ tasks = {} /\ asked = <<>> /\ login \in BOOLEAN /\ MaxRequests \in Nat
    BY BoundAssumption DEF Init
  <2>3. DOMAIN ep.inbox = {} /\ DOMAIN ep.stream = {} /\ DOMAIN ep.sent = {} /\ Len(asked) = 0
    BY <2>1, <2>2
  <2>4. Typed(ep, request, tasks, asked)
    BY <2>1, <2>2 DEF Typed
  <2>5. FramesPaired(ep) /\ OneEvent(ep) /\ Http(ep, tasks)
    BY <2>1, <2>2, <2>3 DEF FramesPaired, OneEvent, Http, None
  <2>6. EntityOf(ep, request, asked)
    BY <2>1, <2>3 DEF EntityOf, None
  <2>7. /\ InOnePlace(ep, tasks, asked) /\ LastRequest(ep, asked)
        /\ TasksOfRequests(tasks, asked) /\ Answers(ep, asked)
    BY <2>2, <2>3 DEF InOnePlace, LastRequest, TasksOfRequests, Answers
  <2> QED
    BY <2>1, <2>2, <2>4, <2>5, <2>6, <2>7 DEF Inv, Good
<1>2. Inv /\ [Next]_vars => Inv'
  <2> SUFFICES ASSUME Inv, [Next]_vars
               PROVE  Inv'
    OBVIOUS
  <2>0. Good(ep, request, tasks, asked) /\ login \in BOOLEAN
    BY DEF Inv
  <2>1. ASSUME Good(ep', request, tasks, asked), UNCHANGED <<request, login, tasks, asked>>
        PROVE  Inv'
    BY <2>0, <2>1 DEF Inv
  <2>2. ASSUME NEW req \in Requests, HttpRequest(req)
        PROVE  Inv'
    BY <2>0, <2>2, RequestRead DEF HttpRequest, Inv
  <2>3. ASSUME NEW req \in Requests, WsRequest(req)
        PROVE  Inv'
    BY <2>0, <2>3, RequestSent DEF WsRequest, Inv
  <2>4. CASE ClientClose
    BY <2>0, <2>1, <2>4, CloseComes DEF ClientClose
  <2>5. CASE Drop
    BY <2>0, <2>1, <2>5, EndedGood DEF Drop
  <2>6. CASE HttpEntity
    BY <2>0, <2>1, <2>6, EntityRead DEF HttpEntity
  <2>7. CASE Connection
    <3>1. Good(ep', request, tasks, asked)
      <4>1. \/ CanReadFrame(ep) /\ ep' = ReadFrame(ep)
            \/ CanReadPayload(ep) /\ ep' = ReadPayload(ep)
            \/ CanFlush(ep) /\ ep' = Flush(ep)
        BY <2>7 DEF Connection, Transfers
      <4> QED
        BY <2>0, <4>1, FrameRead, PayloadRead, FlushGood
    <3> QED
      BY <2>1, <2>7, <3>1 DEF Connection
  <2>8. CASE ReceiveRequest
    BY <2>8, ReceiveRequestInv
  <2>9. CASE ReceiveEntity
    BY <2>9, ReceiveEntityInv
  <2>10. CASE ReceiveWsRequest
    BY <2>10, ReceiveWsRequestInv
  <2>11. ASSUME NEW t \in tasks, AuthCall(t) \/ Continue(t)
         PROVE  Inv'
    BY <2>11, TaskInv
  <2>12. CASE DoneRequest
    BY <2>12, DoneRequestInv
  <2>13. CASE Server
    BY <2>0, <2>1, <2>13, HandledGood DEF Server
  <2>14. CASE UNCHANGED vars
    BY <2>14 DEF vars, Inv
  <2> QED
    BY <2>2, <2>3, <2>4, <2>5, <2>6, <2>7, <2>8, <2>9, <2>10, <2>11, <2>12, <2>13, <2>14
    DEF Next, Tasks
<1> QED
  BY <1>1, <1>2, PTL DEF Spec

\* The type invariant of RestServer: no request of the HTTP connection is left after
\* upgradeToWebSocket().
THEOREM TypeCorrect == Spec => []TypeOK
<1>1. Inv => TypeOK
  <2> SUFFICES ASSUME Inv
               PROVE  TypeOK
    OBVIOUS
  <2>1. /\ ep \in Endpoints /\ asked \in Seq(Requests) /\ request \in 0..Len(asked)
        /\ tasks \subseteq Task /\ login \in BOOLEAN
    BY DEF Inv, Good, Typed
  <2>2. ep.sent \in Seq(Chunk \cup {Closing})
    BY <2>1, Parts DEF Sendable
  <2>3. ep.websocket => request = 0
    BY DEF Inv, Good, Upgraded
  <2>4. \A t \in tasks : t.fn \in {"authCall", "handler", "respond"} /\ t.id \in 1..Len(asked)
    BY <2>1 DEF Inv, Good, InOnePlace, Task
  <2> QED
    BY <2>1, <2>2, <2>3, <2>4 DEF TypeOK
<1> QED
  BY <1>1, InvHolds, PTL

\* respond() is called once for a request, whichever of the tests of Server.c and of
\* the handlers fail, in whatever task, and twice by getCertificateAuth() alone.
THEOREM RespondsOnce == Spec => []OneResponse
<1>1. Inv => OneResponse
  <2> SUFFICES ASSUME Inv, NEW id \in 1..Len(asked)
               PROVE  Cardinality(Responses(id)) <= IF AnsweredTwice(asked[id]) THEN 2 ELSE 1
    BY DEF OneResponse
  <2> DEFINE R == Responses(id)
  <2>1. \A i, j \in R : /\ i \in Nat /\ j \in Nat
                        /\ i = j \/ (AnsweredTwice(asked[id]) /\ i <= j + 1 /\ j <= i + 1)
    <3>1. Answers(ep, asked) /\ ep.sent \in Seq(Sendable)
      BY Parts DEF Inv, Good, Typed
    <3>2. DOMAIN ep.sent \subseteq Nat
      BY <3>1
    <3> QED
      BY <3>1, <3>2 DEF Answers, Responses
  <2> HIDE DEF R
  <2>2. CASE R = {}
    <3>1. Cardinality(R) = 0
      BY <2>2, FS_EmptySet
    <3> QED
      BY <3>1 DEF R
  <2>3. ASSUME NEW i \in R, \A j \in R : j = i
        PROVE  Cardinality(R) = 1
    <3>1. R = {i}
      BY <2>3
    <3> QED
      BY <3>1, FS_Singleton
  <2>4. ASSUME NEW i \in R, NEW j \in R, i # j
        PROVE  Cardinality(R) = 2 /\ AnsweredTwice(asked[id])
    <3>1. \A k \in R : k = i \/ k = j
      <4> SUFFICES ASSUME NEW k \in R
                   PROVE  k = i \/ k = j
        OBVIOUS
      <4>1. i \in Nat /\ j \in Nat /\ k \in Nat /\ i <= j + 1 /\ j <= i + 1
        BY <2>1, <2>4
      <4>2. k = i \/ (k <= i + 1 /\ i <= k + 1)
        BY <2>1
      <4>3. k = j \/ (k <= j + 1 /\ j <= k + 1)
        BY <2>1
      <4> QED
        BY <2>4, <4>1, <4>2, <4>3
    <3>2. R = {i} \cup {j} /\ j \notin {i}
      BY <2>4, <3>1
    <3>3. IsFiniteSet({i}) /\ Cardinality({i}) = 1
      BY FS_Singleton
    <3>4. Cardinality({i} \cup {j}) = 2
      BY <3>2, <3>3, FS_AddElement
    <3> QED
      BY <2>1, <2>4, <3>2, <3>4
  <2> QED
    BY <2>2, <2>3, <2>4 DEF R
<1> QED
  BY <1>1, InvHolds, PTL

\* _receiveEntity() finds the request, and the handle, of the request that announced the
\* entity: none that was read later, and none that was reset by a response.
THEOREM EntityFindsRequest == Spec => []EntityHasRequest
<1>1. Inv => EntityHasRequest
  <2> SUFFICES ASSUME Inv,
                      ep.reading = "entity" \/ \E i \in DOMAIN ep.inbox : ep.inbox[i].type = "entity"
               PROVE  request = Len(asked) /\ Responses(request) = {}
    BY DEF EntityHasRequest
  <2>1. request = Len(asked) /\ NotAnswered(ep, request)
    BY DEF Inv, Good, EntityOf, None
  <2> QED
    BY <2>1 DEF NotAnswered, IsResponse, Responses
<1> QED
  BY <1>1, InvHolds, PTL
===============================================================================
