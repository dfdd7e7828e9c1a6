----------------------------- MODULE MCServices -----------------------------
(***************************************************************************)
(* The uses of a connection of lib/rest/Server.c, in small instances for   *)
(* TLC: REST calls (RestServer), contact discovery (Discovery) and the     *)
(* provisioning of a new device (Provisioning).  They share the code of    *)
(* WebSocket and no state: each connection is an object of its own.  So a  *)
(* behaviour is one of the connection that service names.                  *)
(***************************************************************************)
EXTENDS RestServer, TLC

CONSTANTS
  Numbers,            \* phone numbers
  Lists,              \* lists of phone numbers in requests of Discovery
  Devices,            \* connections of new devices
  Messages,           \* provisioning messages
  BATCH_SIZE,         \* numbers looked up in one task
  BlockSize,          \* results put together at once
  MaxChunks,          \* bound: chunks that a client of Discovery sends
  MaxDeviceChunks     \* bound: chunks that a new device sends

ASSUME SizesAssumption == {BATCH_SIZE, BlockSize} \subseteq Nat \ {0}
ASSUME BoundsAssumption == {MaxChunks, MaxDeviceChunks} \subseteq Nat
ASSUME ListsAssumption == Lists \subseteq [prev : Seq(Numbers), new : Seq(Numbers)]

VARIABLES
  service,            \* the service that the connection is for
  cdsiEp, state, numbers, attests, batches, registered, cdsiChunks, known,
  deviceEp, provisioningDone, addresses, callouts, deviceChunks, put

D == INSTANCE Discovery WITH
  ep <- cdsiEp,
  chunks <- cdsiChunks

P == INSTANCE Provisioning WITH
  Endpoints <- Devices,
  MaxChunks <- MaxDeviceChunks,
  ep <- deviceEp,
  chunks <- deviceChunks

cdsiVars == <<cdsiEp, state, numbers, attests, batches, registered, cdsiChunks, known>>
deviceVars == <<deviceEp, provisioningDone, addresses, callouts, deviceChunks, put>>
allVars == <<service, vars, cdsiVars, deviceVars>>

ServicesInit ==
  service \in {"chat", "cdsi", "provisioning"} /\ Init /\ D!Init /\ P!Init

ServicesNext ==
  \/ service = "chat" /\ Next /\ UNCHANGED <<service, cdsiVars, deviceVars>>
  \/ service = "cdsi" /\ D!Next /\ UNCHANGED <<service, vars, deviceVars>>
  \/ service = "provisioning" /\ P!Next /\ UNCHANGED <<service, vars, cdsiVars>>

\* The fairness of the services; none of them has anything to do before a client does.
ServicesSpec == ServicesInit /\ [][ServicesNext]_allVars /\ Fairness /\ D!Fairness

(***************************************************************************)
(* Requests                                                                *)
(***************************************************************************)

Get(handler, auth) ==
  [head |-> "ok", length |-> "nil", handler |-> handler, auth |-> auth,
   entity |-> "nil", param |-> "good"]
Put(auth, length, entity) ==
  [head |-> "ok", length |-> length, handler |-> "putAccountsGcm", auth |-> auth,
   entity |-> entity, param |-> "good"]

\* Every way to respond, and to refuse a request; of those refusals that differ in
\* nothing but their reason, one.
MCRequests ==
  {Get("getWebsocketLogin", "none"), Get("getConfig", "none"),
   Get("getDirectoryAuth", "none"), Get("getDirectoryAuth", "right"),
   Get("getDirectoryAuth", "wrong"), Get("getDirectoryAuth", "malformed"),
   Get("getCertificateAuth", "right"),
   [Get("getCertificateAuth", "right") EXCEPT !.param = "bad"],
   Put("right", "small", "object"), Put("right", "small", "undecodable"),
   Put("right", "small", "number"),
   Put("right", "over64k", "object"), Put("right", "nil", "nil"),
   Put("right", "list", "object")}
  \cup {[Get("getConfig", "right") EXCEPT !.head = h] : h \in {"malformed", "path"}}

\* A list with a number twice, and one without previous numbers.
MCLists ==
  {[prev |-> <<"n1">>, new |-> <<"n2", "n1">>], [prev |-> <<>>, new |-> <<"n1", "n2">>]}

(***************************************************************************)
(* Properties                                                              *)
(***************************************************************************)

\* The type invariants of the three modules.
TypesOK == TypeOK /\ D!TypeOK /\ P!TypeOK

\* sendChunk() and sendClose() are called by tasks in any order, of cdsiBatch(),
\* of provisioningMessage() and of the handlers of what a client sends: a close
\* frame is still sent once, and last.
NothingAfterClose == D!NothingAfterClose /\ P!NothingAfterClose

\* No handler of a chunk ends in an error while the WebSocket is open: parse errors
\* and those of sendChunk() are caught, so expectWsFrame() is always called.
KeepsReading == D!KeepsReading /\ P!KeepsReading

\* Discovery.c sends one response, with every number of the list.
ResponseIsComplete == D!ResponseIsComplete

\* Websocket.c closes the connection of a new device after its message, and not
\* before.
NotCutOff == P!NotCutOff

\* STATE_DONE of Discovery.c is final, also if attest() runs after it was reached; an
\* acknowledged list leads to a response or to the end; a close frame of the client
\* ends the connection.
OrderlyEnd == D!OrderlyEnd
=============================================================================
