----------------------------- MODULE Provisioning -----------------------------
(***************************************************************************)
(* Linking a new device, first part: services/lib/chat/Websocket.c         *)
(* (provisioning), services/lib/chat/Provisioning.c, sys/provisioning.c.   *)
(* The new device opens a WebSocket and is told its address, which it      *)
(* shows to the owner's first device; that device puts a message for the   *)
(* address; the message is sent over the WebSocket, and the next response  *)
(* of the new device closes it.                                            *)
(*                                                                         *)
(* Addresses are drawn at random from 2^128; the address of an endpoint    *)
(* stands for itself.                                                      *)
(***************************************************************************)
EXTENDS WebSocket

CONSTANTS
  Endpoints,     \* connections of new devices, and their addresses
  Messages,      \* provisioning messages, each put once
  MaxChunks      \* bound: chunks that a new device sends

VARIABLES
  ep,                 \* the endpoints and their WebSockets
  provisioningDone,   \* endpoints whose provisioning is finished
  addresses,          \* endpoints that were registered with their address
  callouts            \* queued calls of provisioningMessage(): [to, message]

\* History: chunks sent by each new device, and the answers to PUT requests.
VARIABLES chunks, put

vars == <<ep, provisioningDone, addresses, callouts, chunks, put>>

Payloads == [type : {"response", "request"}]

Init ==
  /\ ep = [e \in Endpoints |-> Endpoint]
  /\ provisioningDone = {} /\ addresses = {} /\ callouts = {}
  /\ chunks = [e \in Endpoints |-> 0]
  /\ put = [m \in Messages |-> 0]

Becomes(e, new) == ep' = [ep EXCEPT ![e] = new]

(***************************************************************************)
(* The new device and its connection                                       *)
(***************************************************************************)

\* A response to a request of the server, or a request such as a keep-alive.
ClientChunk(e, payload) ==
  /\ ep[e].conn = "up" /\ ep[e].websocket
  /\ chunks[e] < MaxChunks
  /\ chunks' = [chunks EXCEPT ![e] = @ + 1]
  /\ Becomes(e, ClientSends(ep[e], Frame(payload)))
  /\ UNCHANGED <<provisioningDone, addresses, callouts, put>>

ClientClose(e) ==
  /\ ep[e].conn = "up" /\ ep[e].websocket
  /\ chunks[e] <= MaxChunks
  /\ chunks' = [chunks EXCEPT ![e] = MaxChunks + 1]
  /\ Becomes(e, ClientSends(ep[e], CloseFrame))
  /\ UNCHANGED <<provisioningDone, addresses, callouts, put>>

Drop(e) ==
  /\ ep[e].conn = "up"
  /\ Becomes(e, Ended(ep[e]))
  /\ UNCHANGED <<provisioningDone, addresses, callouts, chunks, put>>

Connection(e) ==
  /\ \E new \in Transfers(ep[e]) : Becomes(e, new)
  /\ UNCHANGED <<provisioningDone, addresses, callouts, chunks, put>>

(***************************************************************************)
(* Server.c                                                                *)
(***************************************************************************)

Server(e) ==
  /\ IsServerEvent(ep[e])
  /\ Becomes(e, Handled(ep[e]))
  /\ UNCHANGED <<provisioningDone, addresses, callouts, chunks, put>>

\* receiveWsRequest(): a request of the new device is answered; on a WebSocket
\* that is being closed the answer is an error, and nothing more is read.
ReceiveWsRequest(e) ==
  LET new == Taken(ep[e]) IN
  /\ IsChunk(ep[e]) /\ Head(ep[e].inbox).payload.type = "request"
  /\ Becomes(e, IF CanSendChunk(new)
                THEN ExpectWsFrame(SendChunk(new, [type |-> "answer"])) ELSE new)
  /\ UNCHANGED <<provisioningDone, addresses, callouts, chunks, put>>

(***************************************************************************)
(* Websocket.c, Provisioning.c, sys/provisioning.c                         *)
(***************************************************************************)

\* getWebsocketProvisioning(), refused for its parameter or its headers: the
\* response makes the connection end.
Refuse(e) ==
  /\ ep[e].alive /\ ep[e].conn = "up" /\ ~ ep[e].websocket
  /\ Becomes(e, Ended([ep[e] EXCEPT !.sent = Append(@, [type |-> "400"])]))
  /\ UNCHANGED <<provisioningDone, addresses, callouts, chunks, put>>

\* getWebsocketProvisioning(): upgrade, register, and tell the address.
GetWebsocketProvisioning(e) ==
  /\ ep[e].alive /\ ep[e].conn = "up" /\ ~ ep[e].websocket
  /\ addresses' = addresses \cup {e}
  /\ Becomes(e, SendChunk(UpgradeToWebSocket(ep[e]), [type |-> "address"]))
  /\ UNCHANGED <<provisioningDone, callouts, chunks, put>>

\* getEndpoint(): nil for an object that was destructed.
HasEndpoint(address) == address \in addresses /\ ep[address].alive

\* putProvisioning(): the message is sent by a task of the endpoint.
PutProvisioning(address, m) ==
  /\ put[m] = 0
  /\ IF HasEndpoint(address)
     THEN /\ callouts' = callouts \cup {[to |-> address, message |-> m]}
          /\ put' = [put EXCEPT ![m] = 200]
     ELSE put' = [put EXCEPT ![m] = 404] /\ UNCHANGED callouts
  /\ UNCHANGED <<ep, provisioningDone, addresses, chunks>>

\* provisioningMessage(): on a WebSocket that is being closed the message is
\* an error and provisioning is not finished.
ProvisioningMessage(c) ==
  /\ c \in callouts
  /\ ep[c.to].alive
  /\ callouts' = callouts \ {c}
  /\ IF CanSendChunk(ep[c.to])
     THEN /\ Becomes(c.to, SendChunk(ep[c.to], [type |-> "message", message |-> c.message]))
          /\ provisioningDone' = provisioningDone \cup {c.to}
     ELSE UNCHANGED <<ep, provisioningDone>>
  /\ UNCHANGED <<addresses, chunks, put>>

\* Mutant: every response ends the provisioning.
ChatReceiveResponseCloses(e) ==
  /\ IsChunk(ep[e]) /\ Head(ep[e].inbox).payload.type = "response"
  /\ Becomes(e, ReceiveClose(ep[e]))
  /\ UNCHANGED <<provisioningDone, addresses, callouts, chunks, put>>

\* chatReceiveResponse(): any response once the message was sent closes the
\* WebSocket, also the one to the request that told the address.  Before that
\* it has no effect: no callback is kept for the requests to a new device.
ChatReceiveResponse(e) ==
  /\ IsChunk(ep[e]) /\ Head(ep[e].inbox).payload.type = "response"
  /\ Becomes(e, IF e \in provisioningDone THEN ReceiveClose(ep[e])
                ELSE ExpectWsFrame(Taken(ep[e])))
  /\ UNCHANGED <<provisioningDone, addresses, callouts, chunks, put>>

(***************************************************************************)
(* Specification                                                           *)
(***************************************************************************)

Tasks(e) ==
  \/ Server(e)
  \/ ReceiveWsRequest(e)
  \/ ChatReceiveResponse(e)
  \/ \E c \in callouts : c.to = e /\ ProvisioningMessage(c)

Client(e) ==
  \/ \E payload \in Payloads : ClientChunk(e, payload)
  \/ ClientClose(e)
  \/ Drop(e)
  \/ Refuse(e)
  \/ GetWebsocketProvisioning(e)

Next ==
  \/ \E e \in Endpoints : Client(e) \/ Connection(e) \/ Tasks(e)
  \/ \E e \in Endpoints, m \in Messages : PutProvisioning(e, m)

Spec == Init /\ [][Next]_vars

(***************************************************************************)
(* Properties                                                              *)
(***************************************************************************)

Chunks ==
  [type : {"101", "400", "address", "answer", "close"}]
    \cup [type : {"message"}, message : Messages]

\* Type invariant; only an endpoint that exists or existed has an address.
TypeOK ==
  /\ \A e \in Endpoints : EndpointType(ep[e], Payloads \cup {CloseFrame.payload}, Chunks)
  /\ provisioningDone \subseteq addresses /\ addresses \subseteq Endpoints
  /\ callouts \subseteq [to : addresses, message : Messages]
  /\ put \in [Messages -> {0, 200, 404}]
  /\ \A c \in callouts : put[c.message] = 200

\* A new device that has not asked for it is not cut off before it has its
\* message: the close frame of chatReceiveResponse(), which any late response
\* triggers, comes after the address and after a message.
NotCutOff ==
  \A e \in Endpoints : ep[e].closing /\ chunks[e] <= MaxChunks =>
    \E i, j \in DOMAIN ep[e].sent :
      i < j /\ ep[e].sent[i].type = "address" /\ ep[e].sent[j].type = "message"

\* Until a close frame is sent the server goes on reading, whichever of its own
\* requests the responses of the new device are for.
KeepsReading == \A e \in Endpoints : ~ ep[e].closing => Reads(ep[e])

\* Nothing follows the close frame, also when messages are put while it is sent.
NothingAfterClose == \A e \in Endpoints : ClosedAtTheEnd(ep[e])
==============================================================================
