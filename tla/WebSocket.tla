------------------------------ MODULE WebSocket ------------------------------
(***************************************************************************)
(* The WebSocket side of one connection of lib/rest/Server.c, on top of    *)
(* lib/websocket.c: an endpoint object is a record, and every handler an   *)
(* operator on it.  Discovery and Provisioning add the handlers of the     *)
(* services that run over a WebSocket.                                     *)
(*                                                                         *)
(* The TLS connection object is not part of the repository.  It reads a    *)
(* frame once expectWsFrame() was called, first the header and then the    *)
(* contents; it reports each by a call for which the endpoint queues a     *)
(* task, and the tasks of one connection run in the order of the calls.    *)
(* It reports that its output was sent at any time after a chunk was given *)
(* to it.                                                                  *)
(***************************************************************************)
EXTENDS Naturals, Sequences

Opcodes == {"none", "BINARY", "CLOSE"}

Frame(payload) == [opcode |-> "BINARY", payload |-> payload]
CloseFrame == [opcode |-> "CLOSE", payload |-> [type |-> "status"]]
Closing == [type |-> "close"]      \* the close frame among the chunks sent

\* An endpoint with a connection that speaks HTTP.
Endpoint == [
  alive |-> TRUE,        \* the object exists
  conn |-> "up",         \* the TLS connection: up, or ended
  websocket |-> FALSE,   \* upgraded
  closing |-> FALSE,     \* close frame was sent
  opcode |-> "none",     \* opcode of the last frame header
  inbox |-> <<>>,        \* events of the connection that wait for their task
  reading |-> "none",    \* what the connection reads next: frame, payload
  stream |-> <<>>,       \* frames on their way to the server
  output |-> FALSE,      \* a chunk was not yet sent completely
  sent |-> <<>>          \* history: everything given to the connection
]

(***************************************************************************)
(* The connection and the client                                           *)
(***************************************************************************)

SendWsChunk(ep, chunk) ==
  [ep EXCEPT !.sent = Append(@, chunk), !.output = TRUE]

ExpectWsFrame(ep) ==
  IF ep.conn = "up" THEN [ep EXCEPT !.reading = "frame"] ELSE ep

\* terminate(), or the network, or the client
Ended(ep) ==
  [ep EXCEPT !.conn = "ended", !.inbox = Append(@, [type |-> "disconnected"]),
             !.reading = "none", !.stream = <<>>, !.output = FALSE]

ClientSends(ep, frame) == [ep EXCEPT !.stream = Append(@, frame)]

CanReadFrame(ep) == ep.reading = "frame" /\ ep.stream # <<>>

ReadFrame(ep) ==
  [ep EXCEPT !.reading = "payload",
             !.inbox = Append(@, [type |-> "frame", opcode |-> Head(ep.stream).opcode])]

CanReadPayload(ep) == ep.reading = "payload"

ReadPayload(ep) ==
  [ep EXCEPT !.reading = "none", !.stream = Tail(@),
             !.inbox = Append(@, [type |-> "chunk", payload |-> Head(ep.stream).payload])]

CanFlush(ep) == ep.output

Flush(ep) == [ep EXCEPT !.output = FALSE, !.inbox = Append(@, [type |-> "done"])]

(***************************************************************************)
(* lib/websocket.c, lib/rest/Server.c                                      *)
(***************************************************************************)

\* Mutant: a chunk may follow the close frame.
CanSendChunkAlways(ep) == ep.websocket /\ ep.conn = "up"

\* wsSendChunk() is an error unless this holds.
CanSendChunk(ep) == ep.websocket /\ ~ ep.closing /\ ep.conn = "up"

SendChunk(ep, chunk) == SendWsChunk(ep, chunk)

\* sendClose() on a connection that has ended is an error, unless a close frame
\* was sent before.
CanSendClose(ep) == ep.websocket /\ (ep.closing \/ ep.conn = "up")

SendClose(ep) ==
  IF ep.closing THEN ep
  ELSE IF ep.conn = "up" THEN SendWsChunk([ep EXCEPT !.closing = TRUE], Closing)
  ELSE [ep EXCEPT !.closing = TRUE]

\* upgradeToWebSocket(), after the HTTP response
UpgradeToWebSocket(ep) ==
  ExpectWsFrame([ep EXCEPT !.websocket = TRUE, !.sent = Append(@, [type |-> "101"])])

NextIs(ep, type) == ep.alive /\ ep.inbox # <<>> /\ Head(ep.inbox).type = type
Taken(ep) == [ep EXCEPT !.inbox = Tail(@)]

\* _receiveWsFrame()
ReceiveWsFrame(ep) == [Taken(ep) EXCEPT !.opcode = Head(ep.inbox).opcode]

\* _receiveWsChunk(): which of the two branches is taken.
IsChunk(ep) == NextIs(ep, "chunk") /\ ep.opcode # "CLOSE"
IsClose(ep) == NextIs(ep, "chunk") /\ ep.opcode = "CLOSE"

\* Mutant: a close frame is not answered.
ReceiveCloseSilent(ep) == ExpectWsFrame(Taken(ep))

\* _receiveWsChunk(): the contents of a close frame; answered if it was not an
\* answer itself.
ReceiveClose(ep) ==
  IF CanSendClose(ep) THEN ExpectWsFrame(SendClose(Taken(ep)))
                      ELSE SendClose(Taken(ep))

\* _doneChunk(), for a WebSocket
DoneChunk(ep) ==
  IF ep.opcode = "CLOSE" /\ ep.conn = "up" THEN Ended(Taken(ep)) ELSE Taken(ep)

\* _disconnected(), close(): tasks of the object do not run any more.
Disconnected(ep) == [Taken(ep) EXCEPT !.alive = FALSE, !.inbox = <<>>]

(***************************************************************************)
(* What the handlers and the connection do by themselves                   *)
(***************************************************************************)

\* Events that Server.c handles without the help of a service.
IsServerEvent(ep) ==
  IsClose(ep) \/ \E type \in {"frame", "done", "disconnected"} : NextIs(ep, type)

Handled(ep) ==
  CASE NextIs(ep, "frame") -> ReceiveWsFrame(ep)
    [] NextIs(ep, "done") -> DoneChunk(ep)
    [] NextIs(ep, "disconnected") -> Disconnected(ep)
    [] OTHER -> ReceiveClose(ep)

\* What the connection may do next.
Transfers(ep) ==
  (IF CanReadFrame(ep) THEN {ReadFrame(ep)} ELSE {})
    \cup (IF CanReadPayload(ep) THEN {ReadPayload(ep)} ELSE {})
    \cup (IF CanFlush(ep) THEN {Flush(ep)} ELSE {})

Event(Payloads) ==
  [type : {"frame"}, opcode : Opcodes] \cup [type : {"chunk"}, payload : Payloads]
  \cup [type : {"done", "disconnected"}]

\* Type of an endpoint whose client sends Payloads and whose service sends Chunks.
EndpointType(ep, Payloads, Chunks) ==
  /\ DOMAIN ep = DOMAIN Endpoint
  /\ ep.alive \in BOOLEAN /\ ep.websocket \in BOOLEAN /\ ep.closing \in BOOLEAN
  /\ ep.output \in BOOLEAN
  /\ ep.conn \in {"up", "ended"}
  /\ ep.opcode \in Opcodes
  /\ ep.inbox \in Seq(Event(Payloads))
  /\ ep.reading \in {"none", "frame", "payload"}
  /\ ep.stream \in Seq([opcode : Opcodes, payload : Payloads])
  /\ ep.sent \in Seq(Chunks)

\* The server sends at most one close frame, and nothing after it.
ClosedAtTheEnd(ep) ==
  \A i \in 1..Len(ep.sent) : ep.sent[i] = Closing => i = Len(ep.sent)

\* The connection goes on reading: as long as it is up, a frame is awaited, or
\* the task that will call expectWsFrame() is queued.
Reads(ep) ==
  ep.websocket /\ ep.conn = "up" =>
    \/ ep.reading # "none"
    \/ \E i \in DOMAIN ep.inbox : ep.inbox[i].type = "chunk"
==============================================================================
