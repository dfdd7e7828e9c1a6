------------------------------ MODULE RestServer ------------------------------
(***************************************************************************)
(* Requests and responses of one connection: lib/rest/Server.c, for        *)
(* requests over HTTP and, after an upgrade, over a WebSocket, with the    *)
(* handlers of services/lib/chat that tell the ways to respond apart:      *)
(*   getConfig               responds at once                              *)
(*   getDirectoryAuth        responds in a task of its own, like the other *)
(*                           handlers that ask a server object             *)
(*   putAccountsGcm          the same, with a JSON entity                  *)
(*   getCertificateAuth      responds at once, to a parameter it checks    *)
(*   getWebsocketLogin       upgrades the connection                       *)
(***************************************************************************)
EXTENDS WebSocket, FiniteSets

CONSTANTS
  Requests,       \* the requests that the client makes
  MaxRequests     \* bound: requests on this connection

Handlers == {"getConfig", "getDirectoryAuth", "putAccountsGcm", "getCertificateAuth",
             "getWebsocketLogin"}

\* A request: what is the matter with its head, its Content-Length, its handler,
\* its Authorization, its entity, and the parameter in its path.
Request == [
  head : {"ok", "malformed", "host", "scheme", "encoding", "path"},
  length : {"nil", "small", "over64k", "over4M", "list"},
  handler : Handlers,
  auth : {"none", "malformed", "wrong", "right"},
  entity : {"nil", "object", "number", "undecodable"},
  param : {"good", "bad"}]

ASSUME RequestsAssumption == Requests \subseteq Request
ASSUME BoundAssumption == MaxRequests \in Nat

VARIABLES
  ep,         \* the endpoint; inbox has events of type request and entity, too
  request,    \* most recent request, with its handle; 0 for nil
  login,      \* whether the WebSocket is authenticated
  tasks       \* queued calls: [fn, id, req]

\* History: the requests made, by id.
VARIABLE asked

vars == <<ep, request, login, tasks, asked>>

\* A handler works on the state of the object, and tells whether it failed.
Object(e) == [ep |-> e, request |-> request, login |-> login, tasks |-> tasks,
              failed |-> FALSE]

Becomes(o) ==
  /\ ep' = o.ep /\ request' = o.request /\ login' = o.login /\ tasks' = o.tasks

Init ==
  /\ ep = [Endpoint EXCEPT !.reading = "request"]
  /\ request = 0 /\ login = FALSE /\ tasks = {} /\ asked = <<>>

(***************************************************************************)
(* The connection and the client                                           *)
(***************************************************************************)

\* A request over HTTP; the next one is read after doneRequest().
HttpRequest(req) ==
  /\ ep.reading = "request"
  /\ Len(asked) < MaxRequests
  /\ asked' = Append(asked, req)
  /\ ep' = [ep EXCEPT !.reading = "none",
                      !.inbox = Append(@, [type |-> "request", id |-> Len(asked')])]
  /\ UNCHANGED <<request, login, tasks>>

HttpEntity ==
  /\ ep.reading = "entity"
  /\ ep' = [ep EXCEPT !.reading = "none", !.inbox = Append(@, [type |-> "entity"])]
  /\ UNCHANGED <<request, login, tasks, asked>>

\* A request over the WebSocket, with its id as context; the next one may follow
\* at once.
WsRequest(req) ==
  /\ ep.conn = "up" /\ ep.websocket
  /\ \A f \in {ep.stream[i] : i \in DOMAIN ep.stream} : f # CloseFrame
  /\ ep.opcode # "CLOSE"
  /\ Len(asked) < MaxRequests
  /\ asked' = Append(asked, req)
  /\ ep' = ClientSends(ep, Frame([type |-> "request", id |-> Len(asked')]))
  /\ UNCHANGED <<request, login, tasks>>

\* The client closes the WebSocket when it has no more requests.
ClientClose ==
  /\ ep.conn = "up" /\ ep.websocket
  /\ Len(asked) = MaxRequests
  /\ ep.opcode # "CLOSE" /\ ep.stream = <<>>
  /\ ep' = ClientSends(ep, CloseFrame)
  /\ UNCHANGED <<request, login, tasks, asked>>

Drop ==
  /\ ep.conn = "up"
  /\ ep' = Ended(ep)
  /\ UNCHANGED <<request, login, tasks, asked>>

Connection ==
  /\ ep' \in Transfers(ep)
  /\ UNCHANGED <<request, login, tasks, asked>>

(***************************************************************************)
(* Server.c                                                                *)
(***************************************************************************)

\* Codes for which httpRespond() adds Connection: close.
ClosingCodes == {400, 404, 413}

CanSend(e) == IF e.websocket THEN CanSendChunk(e) ELSE e.conn = "up"

\* Mutant: the request is not reset.
RespondKeepsRequest(o, id, code) ==
  IF o.failed \/ ~ CanSend(o.ep) THEN [o EXCEPT !.failed = TRUE]
  ELSE [o EXCEPT !.ep = SendWsChunk(@, [type |-> "response", id |-> id, code |-> code])]

\* respond(): over HTTP the response has no context, and is an error when the
\* connection has ended.
Respond(o, id, code) ==
  LET chunk == [type |-> "response", id |-> id, code |-> code] IN
  IF o.failed THEN o
  ELSE IF CanSend(o.ep)
  THEN [o EXCEPT !.ep = SendWsChunk(@, chunk), !.request = 0]
  ELSE [o EXCEPT !.request = 0, !.failed = TRUE]

\* upgradeToWebSocket()
Upgrade(o, id) ==
  LET r == Respond(o, id, 101) IN
  IF r.failed THEN r
  ELSE [r EXCEPT !.ep = ExpectWsFrame([@ EXCEPT !.websocket = TRUE]), !.login = TRUE]

CallOut(o, fn, id, req) ==
  [o EXCEPT !.tasks = @ \cup {[fn |-> fn, id |-> id, req |-> req]}]

\* The handlers; that of getCertificateAuth goes on after its 404.
Handle(o, id, req) ==
  CASE req.handler = "getConfig" -> Respond(o, id, 200)
    [] req.handler \in {"getDirectoryAuth", "putAccountsGcm"} -> CallOut(o, "respond", id, req)
    [] req.handler = "getCertificateAuth" ->
         Respond(IF req.param = "bad" THEN Respond(o, id, 404) ELSE o, id, 200)
    [] req.handler = "getWebsocketLogin" -> Upgrade(o, id)

HasJson(req) == req.handler = "putAccountsGcm"
HasAuth(req) == req.handler \in {"getConfig", "getDirectoryAuth", "putAccountsGcm",
                                 "getCertificateAuth"}
OptionalAuth(req) == req.handler = "getConfig"

\* substArg(), ARG_HEADER_AUTH and ARG_HEADER_OPT_AUTH
SubstAuth(o, id, req) ==
  CASE req.auth = "none" /\ ~ o.login /\ OptionalAuth(req) -> CallOut(o, "handler", id, req)
    [] req.auth = "none" /\ ~ o.login /\ ~ OptionalAuth(req) -> Respond(o, id, 400)
    [] req.auth = "malformed" -> Respond(o, id, 400)
    [] OTHER -> CallOut(o, "authCall", id, req)

\* Mutant: an entity that cannot be decoded does not end the call.
CallUndecodable(o, id, req) ==
  LET o2 == IF HasJson(req) /\ req.entity # "object" THEN Respond(o, id, 400) ELSE o IN
  IF HasAuth(req) THEN SubstAuth(o2, id, req) ELSE Handle(o2, id, req)

\* call(): arguments are substituted from the last to the first, so the entity
\* comes before the authentication.  An argument that is an integer stands for
\* the code of a response that was sent; a JSON entity that is a number is
\* taken for one, too.
Call(o, id, req) ==
  IF HasJson(req) /\ req.entity = "number" THEN o
  ELSE IF HasJson(req) /\ req.entity # "object" THEN Respond(o, id, 400)
  ELSE IF HasAuth(req) THEN SubstAuth(o, id, req)
  ELSE Handle(o, id, req)

\* _receiveRequest(): the code with which a request is refused, 0 if it is not.
Refusal(req) ==
  CASE req.head \in {"malformed", "host"} -> 400
    [] req.head \in {"scheme", "path"} -> 404
    [] req.head = "encoding" -> 413
    [] req.length = "over4M" -> 413
    [] req.length = "over64k" /\ HasJson(req) -> 413
    [] req.length = "list" -> 400
    [] OTHER -> 0

\* Mutant: the entity of a request that was refused is read.
ReceiveRequestReads ==
  LET id == Head(ep.inbox).id
      req == asked[id]
      o == [Object(Taken(ep)) EXCEPT !.request = id] IN
  /\ NextIs(ep, "request")
  /\ LET r == IF Refusal(req) # 0 THEN Respond(o, id, Refusal(req))
              ELSE IF req.length = "nil" THEN Call(o, id, [req EXCEPT !.entity = "nil"]) ELSE o
     IN Becomes(IF req.length # "nil" /\ ep.conn = "up"
                THEN [r EXCEPT !.ep.reading = "entity"] ELSE r)
  /\ UNCHANGED asked

\* _receiveRequest(): refused, called, or kept until its entity is there.
ReceiveRequest ==
  LET id == Head(ep.inbox).id
      req == asked[id]
      o == [Object(Taken(ep)) EXCEPT !.request = id] IN
  /\ NextIs(ep, "request")
  /\ Becomes(IF Refusal(req) # 0 THEN Respond(o, id, Refusal(req))
             ELSE IF req.length = "nil" THEN Call(o, id, [req EXCEPT !.entity = "nil"])
             ELSE IF ep.conn = "up" THEN [o EXCEPT !.ep.reading = "entity"] ELSE o)
  /\ UNCHANGED asked

\* _receiveEntity(): the call is for the most recent request.
ReceiveEntity ==
  /\ NextIs(ep, "entity")
  /\ Becomes(Call(Object(Taken(ep)), request, asked[request]))
  /\ UNCHANGED asked

\* _receiveWsChunk(), receiveWsRequest(): after an error no frame is expected.
ReceiveWsRequest ==
  LET id == Head(ep.inbox).payload.id
      req == asked[id]
      o == Object(Taken(ep))
      r == IF req.head = "path" THEN Respond(o, id, 404) ELSE Call(o, id, req) IN
  /\ IsChunk(ep)
  /\ Becomes(IF r.failed THEN r ELSE [r EXCEPT !.ep = ExpectWsFrame(@)])
  /\ UNCHANGED asked

\* Mutant: a wrong password is not answered.
AuthCallSilent(t) ==
  /\ t \in tasks /\ t.fn = "authCall" /\ ep.alive
  /\ LET o == [Object(ep) EXCEPT !.tasks = @ \ {t}] IN
     Becomes(IF t.req.auth # "wrong" THEN Handle(o, t.id, t.req) ELSE o)
  /\ UNCHANGED asked

\* authCall()
AuthCall(t) ==
  /\ t \in tasks /\ t.fn = "authCall" /\ ep.alive
  /\ LET o == [Object(ep) EXCEPT !.tasks = @ \ {t}] IN
     Becomes(IF t.req.auth # "wrong" THEN Handle(o, t.id, t.req)
                                     ELSE Respond(o, t.id, 401))
  /\ UNCHANGED asked

\* A handler called without authentication, or the part of one that responds.
Continue(t) ==
  /\ t \in tasks /\ t.fn \in {"handler", "respond"} /\ ep.alive
  /\ LET o == [Object(ep) EXCEPT !.tasks = @ \ {t}] IN
     Becomes(IF t.fn = "handler" THEN Handle(o, t.id, t.req) ELSE Respond(o, t.id, 200))
  /\ UNCHANGED asked

\* _doneChunk() before the upgrade: doneRequest(), after which the connection
\* reads the next request, or ends if the response said so.
DoneRequest ==
  LET last == ep.sent[Len(ep.sent)] IN
  /\ NextIs(ep, "done") /\ ~ ep.websocket
  /\ ep' = IF ep.conn # "up" THEN Taken(ep)
           ELSE IF last.code \in ClosingCodes THEN Ended(Taken(ep))
           ELSE [Taken(ep) EXCEPT !.reading = "request"]
  /\ UNCHANGED <<request, login, tasks, asked>>

Server ==
  /\ IsServerEvent(ep)
  /\ NextIs(ep, "done") => ep.websocket
  /\ ep' = Handled(ep)
  /\ UNCHANGED <<request, login, tasks, asked>>

(***************************************************************************)
(* Specification                                                           *)
(***************************************************************************)

Tasks ==
  \/ ReceiveRequest
  \/ ReceiveEntity
  \/ ReceiveWsRequest
  \/ \E t \in tasks : AuthCall(t) \/ Continue(t)
  \/ DoneRequest
  \/ Server

Next ==
  \/ \E req \in Requests : HttpRequest(req) \/ WsRequest(req)
  \/ ClientClose
  \/ Drop
  \/ HttpEntity
  \/ Connection
  \/ Tasks

Spec == Init /\ [][Next]_vars

\* Queued tasks run; the client sends the entity it announced, and connections
\* that are up carry what is sent.  No request need ever be made.
Fairness == WF_vars(Tasks) /\ WF_vars(HttpEntity) /\ WF_vars(Connection)

(***************************************************************************)
(* Properties                                                              *)
(***************************************************************************)

Chunk == [type : {"response"}, id : 1..MaxRequests, code : Nat]

\* Type invariant; no request of the HTTP connection is left after the upgrade.
TypeOK ==
  /\ ep.sent \in Seq(Chunk \cup {Closing})
  /\ request \in 0..Len(asked) /\ (ep.websocket => request = 0)
  /\ login \in BOOLEAN
  /\ asked \in Seq(Requests)
  /\ \A t \in tasks : t.fn \in {"authCall", "handler", "respond"} /\ t.id \in 1..Len(asked)

Responses(id) == {i \in DOMAIN ep.sent : ep.sent[i] # Closing /\ ep.sent[i].id = id}

\* getCertificateAuth() goes on after its 404: the one request with two responses.
AnsweredTwice(req) == req.handler = "getCertificateAuth" /\ req.param = "bad"

\* call() takes a JSON entity that is a number for a response: the one request
\* without any.
Unanswered(req) == HasJson(req) /\ req.entity = "number"

\* A request has one response at most, whichever of the tests of Server.c and of
\* the handlers fail, but for the 404 of getCertificateAuth().
OneResponse ==
  \A id \in 1..Len(asked) :
    Cardinality(Responses(id)) <= IF AnsweredTwice(asked[id]) THEN 2 ELSE 1

\* _receiveEntity() uses the request and the handle of the object: they are those
\* of the request that announced the entity, and were not reset by a response.
EntityHasRequest ==
  (ep.reading = "entity" \/ \E i \in DOMAIN ep.inbox : ep.inbox[i].type = "entity") =>
    /\ request = Len(asked)
    /\ Responses(request) = {}

\* The requests that are to be answered.
Pending == {id \in DOMAIN asked : Responses(id) = {} /\ ~ Unanswered(asked[id])}

\* Every request is answered, in whatever task, unless the connection ends or the
\* WebSocket is closed, but for the JSON entity that is a number.
EveryRequestAnswered ==
  Pending # {} ~> Pending = {} \/ ep.conn = "ended" \/ ep.closing
==============================================================================
