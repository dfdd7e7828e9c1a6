------------------------------ MODULE Delivery ------------------------------
(***************************************************************************)
(* Message delivery: PUT /v1/messages, the per-connection delivery queue,  *)
(* the mail boxes of offline devices, and the life of a connection.        *)
(*                                                                         *)
(*   services/lib/chat/Messages.c    putMessages*, deliver, delivered,     *)
(*                                   close                                 *)
(*   services/lib/chat/Websocket.c   login, chatSendRequest/...Response    *)
(*   sys/messages.c                  stack, send                           *)
(*   sys/online.c                    register, present                     *)
(*   lib/Envelope.c                  envelopes                             *)
(*   lib/rest/Server.c               upgrade, closing, disconnect          *)
(*                                                                         *)
(* Every LPC task runs to completion before the next one.  call_out(f, 0)  *)
(* and call_out_other(obj, f, 0) queue a task; the queued tasks are kept   *)
(* in one set per function, and any of them may run next.                  *)
(*                                                                         *)
(* An envelope is an immutable light-weight object with a fresh GUID.  It  *)
(* is modelled by its index in the table env; queues hold indices.         *)
(***************************************************************************)
EXTENDS Integers, FiniteSets, SequencesExt

CONSTANTS
  Account,        \* account ids
  DeviceId,       \* device ids a message can be addressed to; positive
  Devices,        \* Devices[a]: the devices of account a (lib/Account.c)
  Endpoint,       \* server objects, one for each connection ever accepted
  Owner,          \* Owner[e]: the client that opens connection e, which
                  \* authenticates as itself: [id, deviceId]
  MessageLists,   \* the destinationDeviceIds a client may put in a request
  Codes,          \* codes with which a client answers a delivery
  MaxRequests     \* bound: number of PUT /v1/messages requests

Client == [id : Account, deviceId : DeviceId]

ASSUME DeviceIdAssumption == DeviceId \subseteq Nat \ {0}
ASSUME DevicesAssumption == Devices \in [Account -> SUBSET DeviceId]
ASSUME OwnerAssumption ==
  /\ Owner \in [Endpoint -> Client]
  /\ \A e \in Endpoint : Owner[e].deviceId \in Devices[Owner[e].id]
ASSUME MessageListsAssumption == MessageLists \subseteq Seq(DeviceId)
ASSUME CodesAssumption == Codes \subseteq {"OK", "ERROR"}
ASSUME MaxRequestsAssumption == MaxRequests \in Nat

VARIABLES
  ep,          \* the server object of a connection: see Status
  online,      \* endpoints present in the online registry
  queue,       \* queue[e]: envelopes to be delivered over e, oldest first
  state,       \* state[e]: READY or AWAIT_RESPONSE
  outgoing,    \* outgoing[e]: deliveries sent to the client, not answered
  messages,    \* GUIDs with an unexpired entry in the message store
  mboxes,      \* mboxes[box]: GUIDs waiting for a device to log in
  env          \* all envelopes made so far; GUID g is env[g]

\* Queued tasks, one set per function.
VARIABLES puts, delivers, delivereds, logins, sends, stacks

\* History: requests made, envelopes acknowledged by a client, devices for
\* which FCM_RELAY->sendNotification was called.
VARIABLES requests, acked, notified

epVars   == <<ep, online>>
connVars == <<queue, state, outgoing>>
mailVars == <<messages, mboxes>>
taskVars == <<puts, delivers, delivereds, logins, sends, stacks>>
histVars == <<requests, acked, notified>>
vars     == <<epVars, connVars, mailVars, env, taskVars, histVars>>

(***************************************************************************)
(* Types                                                                   *)
(***************************************************************************)

\* free: not accepted yet.  http: connected, plain HTTPS.  ws: upgraded to a
\* WebSocket.  closing: the client's close frame was answered.  lost: the TLS
\* connection is gone, _disconnected is queued.  gone: destructed.
Status == {"free", "http", "ws", "closing", "lost", "gone"}

Alive(e) == ep[e] \notin {"free", "gone"}

Guid == DOMAIN env

\* A mail box index, destinationDeviceId + destinationId.  Account ids have a
\* fixed length, so the concatenation is injective; 0 is LPC's initial int.
Box == [id : Account, deviceId : DeviceId \cup {0}]

Envelope ==
  [origin : Endpoint, type : {"MESSAGE", "RECEIPT"},
   sourceId : Account, sourceDeviceId : DeviceId \cup {0},
   destinationId : Account, destinationDeviceId : DeviceId \cup {0},
   addressee : DeviceId \cup {0}]

\* The device an envelope was meant for is not a field of the source: it is
\* history, to compare with what destinationDeviceId became.
NewEnvelope(origin, type, source, destinationId, destinationDeviceId, addressee) ==
  [origin |-> origin, type |-> type,
   sourceId |-> source.id, sourceDeviceId |-> source.deviceId,
   destinationId |-> destinationId,
   destinationDeviceId |-> destinationDeviceId, addressee |-> addressee]

Init ==
  /\ ep = [e \in Endpoint |-> "free"]
  /\ online = {}
  /\ queue = [e \in Endpoint |-> <<>>]
  /\ state = [e \in Endpoint |-> "READY"]
  /\ outgoing = [e \in Endpoint |-> {}]
  /\ messages = {}
  /\ mboxes = [b \in Box |-> <<>>]
  /\ env = <<>>
  /\ puts = {} /\ delivers = {} /\ delivereds = {}
  /\ logins = {} /\ sends = {} /\ stacks = {}
  /\ requests = 0 /\ acked = {} /\ notified = {}

(***************************************************************************)
(* Online registry (sys/online.c)                                          *)
(***************************************************************************)

\* One entry per client; a destructed object reads as nil.
Register(e) == {x \in online : Owner[x] # Owner[e]} \cup {e}

\* Mutant: a destructed endpoint stays in the registry.
ForgetNot(e) == online

\* The registry after e is destructed: the reference reads as nil.
Forget(e) == online \ {e}

Present(id, deviceId) ==
  {e \in online : Owner[e] = [id |-> id, deviceId |-> deviceId]}

(***************************************************************************)
(* Connections (lib/rest/Server.c) and login (Websocket.c)                 *)
(***************************************************************************)

\* A TLS connection is accepted and gets its own server object.
Connect(e) ==
  /\ ep[e] = "free"
  /\ ep' = [ep EXCEPT ![e] = "http"]
  /\ UNCHANGED <<online, connVars, mailVars, env, taskVars, histVars>>

GetWebsocketLogin(e) ==
  /\ ep[e] = "http"
  /\ e \notin logins
  /\ logins' = logins \cup {e}
  /\ UNCHANGED <<epVars, connVars, mailVars, env, puts, delivers, delivereds,
                 sends, stacks, histVars>>

\* The upgrade responds first, which is an error once the connection is lost.
\* success is the outcome of verifyPassword.
GetWebsocketLogin3(e, success) ==
  /\ e \in logins
  /\ logins' = logins \ {e}
  /\ IF success /\ ep[e] = "http"
     THEN /\ ep' = [ep EXCEPT ![e] = "ws"]
          /\ online' = Register(e)
          /\ sends' = sends \cup {e}
     ELSE UNCHANGED <<epVars, sends>>
  /\ UNCHANGED <<connVars, mailVars, env, puts, delivers, delivereds, stacks,
                 histVars>>

\* The client's close frame is answered; from here on sendChunk is an error.
ReceiveClose(e) ==
  /\ ep[e] = "ws"
  /\ ep' = [ep EXCEPT ![e] = "closing"]
  /\ UNCHANGED <<online, connVars, mailVars, env, taskVars, histVars>>

\* The TLS connection ends, at any time.
Disconnect(e) ==
  /\ ep[e] \in {"http", "ws", "closing"}
  /\ ep' = [ep EXCEPT ![e] = "lost"]
  /\ UNCHANGED <<online, connVars, mailVars, env, taskVars, histVars>>

\* Mutant: close() forgets the queued deliver tasks.
ConcatenationsNone(S) == {<<>>}

\* The concatenations of the envelope lists in S, in any order.
Concatenations(S) ==
  {s \in SetToSeqs(UNION {ToSet(b) : b \in S}) :
     \A b \in S : \E k \in 0..(Len(s) - Len(b)) :
       SubSeq(s, k + 1, k + Len(b)) = b}

\* _disconnected: Messages.c close() saves the queue and the argument of every
\* queued deliver, then the object is destructed and its tasks with it.
Disconnected(e) ==
  /\ ep[e] = "lost"
  /\ \E pending \in Concatenations({d.envs : d \in {x \in delivers : x.ep = e}}) :
       LET envelopes == queue[e] \o pending IN
       stacks' = stacks \cup (IF envelopes # <<>> THEN {envelopes} ELSE {})
  /\ ep' = [ep EXCEPT ![e] = "gone"]
  /\ online' = Forget(e)
  /\ queue' = [queue EXCEPT ![e] = <<>>]
  /\ state' = [state EXCEPT ![e] = "READY"]
  /\ outgoing' = [outgoing EXCEPT ![e] = {}]
  /\ puts' = {p \in puts : p.ep # e}
  /\ delivers' = {d \in delivers : d.ep # e}
  /\ delivereds' = {d \in delivereds : d.ep # e}
  /\ logins' = logins \ {e}
  /\ UNCHANGED <<mailVars, env, sends, histVars>>

(***************************************************************************)
(* Sending (Messages.c putMessages, putMessages2)                          *)
(***************************************************************************)

PutMessages(e, destination, list) ==
  /\ ep[e] \in {"http", "ws"}
  /\ requests < MaxRequests
  /\ requests' = requests + 1
  /\ puts' = puts \cup {[ep |-> e, context |-> requests + 1,
                         account |-> destination, messages |-> list]}
  /\ UNCHANGED <<epVars, connVars, mailVars, env, delivers, delivereds, logins,
                 sends, stacks, acked, notified>>

\* deviceId as it is when the i-th envelope is made: it is assigned after the
\* envelope, so it still holds the previous message's device.
EnvelopeDeviceId(list, i) == IF i = 1 THEN 0 ELSE list[i - 1]

\* Messages are handled in order.  The one to a device that is neither online
\* nor known is an error that ends the task after m messages.
PutMessages2(p) ==
  LET list == p.messages
      n == Len(env)
      to(i) == Present(p.account, list[i])
      handled(i) == to(i) # {} \/ list[i] \in Devices[p.account]
  IN
  /\ p \in puts
  /\ puts' = puts \ {p}
  /\ \E m \in 0..Len(list) :
       /\ \A i \in 1..m : handled(i)
       /\ m < Len(list) => ~ handled(m + 1)
       /\ env' = env \o [i \in 1..m |->
            NewEnvelope(p.ep, "MESSAGE", Owner[p.ep], p.account,
                        EnvelopeDeviceId(list, i), list[i])]
       /\ delivers' = delivers \cup
            UNION {{[ep |-> x, envs |-> <<n + i>>] : x \in to(i)} : i \in 1..m}
       /\ stacks' = stacks \cup {<<n + i>> : i \in {j \in 1..m : to(j) = {}}}
       /\ notified' = notified \cup
            {[id |-> p.account, deviceId |-> list[i]] :
               i \in {j \in 1..m : to(j) = {}}}
  /\ UNCHANGED <<epVars, connVars, mailVars, delivereds, logins, sends,
                 requests, acked>>

(***************************************************************************)
(* Delivering over a WebSocket (Messages.c deliver, delivered)             *)
(***************************************************************************)

\* Mutant: the state is not set after sending.
SendFirstStaysReady(e, q) ==
  /\ outgoing' = IF q # <<>> /\ ep[e] = "ws"
                 THEN [outgoing EXCEPT ![e] = @ \cup {Head(q)}] ELSE outgoing
  /\ state' = [state EXCEPT ![e] = "READY"]

\* Mutant: the request is sent without a continuation for its answer.
SendFirstNoContinuation(e, q) ==
  /\ UNCHANGED outgoing
  /\ state' = [state EXCEPT ![e] = IF q # <<>> /\ ep[e] = "ws"
                                   THEN "AWAIT_RESPONSE" ELSE "READY"]

\* sendEnvelope(head of q).  Unless e is an open WebSocket, sendChunk is an
\* error: the task ends, and state keeps the value it had.
SendFirst(e, q) ==
  IF q # <<>> /\ ep[e] = "ws"
  THEN /\ outgoing' = [outgoing EXCEPT ![e] = @ \cup {Head(q)}]
       /\ state' = [state EXCEPT ![e] = "AWAIT_RESPONSE"]
  ELSE /\ state' = [state EXCEPT ![e] = "READY"]
       /\ UNCHANGED outgoing

Deliver(d) ==
  LET q == queue[d.ep] \o d.envs IN
  /\ d \in delivers
  /\ delivers' = delivers \ {d}
  /\ queue' = [queue EXCEPT ![d.ep] = q]
  /\ IF state[d.ep] = "READY"
     THEN SendFirst(d.ep, q)
     ELSE UNCHANGED <<state, outgoing>>
  /\ UNCHANGED <<epVars, mailVars, env, puts, delivereds, logins, sends, stacks,
                 histVars>>

\* The client answers a delivery; the continuation is queued with the code.
ChatReceiveResponse(e, g, code) ==
  /\ ep[e] = "ws"
  /\ g \in outgoing[e]
  /\ outgoing' = [outgoing EXCEPT ![e] = @ \ {g}]
  /\ delivereds' = delivereds \cup {[ep |-> e, env |-> g, code |-> code]}
  /\ UNCHANGED <<epVars, queue, state, mailVars, env, puts, delivers, logins,
                 sends, stacks, histVars>>

\* Mutant: source and destination of the receipt are not swapped.
ReceiptUnswapped(e, g) == [env[g] EXCEPT !.origin = e, !.type = "RECEIPT"]

Receipt(e, g) ==
  NewEnvelope(e, "RECEIPT",
              [id |-> env[g].destinationId,
               deviceId |-> env[g].destinationDeviceId],
              env[g].sourceId, env[g].sourceDeviceId, env[g].sourceDeviceId)

\* A receipt goes to the connection the message came from, while it exists.
SendReceipt(e, g) ==
  IF env[g].type = "RECEIPT"
  THEN UNCHANGED <<env, delivers, stacks>>
  ELSE /\ env' = Append(env, Receipt(e, g))
       /\ IF Alive(env[g].origin)
          THEN /\ delivers' = delivers \cup
                    {[ep |-> env[g].origin, envs |-> <<Len(env) + 1>>]}
               /\ UNCHANGED stacks
          ELSE /\ stacks' = stacks \cup {<<Len(env) + 1>>}
               /\ UNCHANGED delivers

Delivered(d) ==
  /\ d \in delivereds
  /\ delivereds' = delivereds \ {d}
  /\ IF d.code = "OK"
     THEN /\ queue' = [queue EXCEPT ![d.ep] = Tail(@)]
          /\ SendReceipt(d.ep, d.env)
          /\ SendFirst(d.ep, Tail(queue[d.ep]))
          /\ acked' = acked \cup {d.env}
     ELSE UNCHANGED <<connVars, env, delivers, stacks, acked>>
  /\ UNCHANGED <<epVars, mailVars, puts, logins, sends, requests, notified>>

(***************************************************************************)
(* Mail boxes (sys/messages.c)                                             *)
(***************************************************************************)

\* All envelopes go to the box of the first.  messages->add() of a GUID that
\* is still stored is an error, and the atomic function leaves no trace.
Stack(s) ==
  /\ s \in stacks
  /\ stacks' = stacks \ {s}
  /\ IF /\ ToSet(s) \cap messages = {}
        /\ \A i, j \in DOMAIN s : s[i] = s[j] => i = j
     THEN LET box == [id |-> env[s[1]].destinationId,
                      deviceId |-> env[s[1]].destinationDeviceId]
          IN /\ mboxes' = [mboxes EXCEPT ![box] = @ \o s]
             /\ messages' = messages \cup ToSet(s)
     ELSE UNCHANGED mailVars
  /\ UNCHANGED <<epVars, connVars, env, puts, delivers, delivereds, logins,
                 sends, histVars>>

\* The GUIDs of box that are still stored, in the order of the box.
Unexpired(box) ==
  {s \in SetToSeqs(ToSet(box) \cap messages) :
     \A i, j \in DOMAIN s : i < j =>
       \E k, l \in DOMAIN box : k < l /\ box[k] = s[i] /\ box[l] = s[j]}

\* Mutant: the box is not emptied.
SendKeepsBox(e) ==
  /\ e \in sends
  /\ sends' = sends \ {e}
  /\ \E envs \in Unexpired(mboxes[Owner[e]]) :
       delivers' = delivers \cup
         (IF Alive(e) /\ envs # <<>> THEN {[ep |-> e, envs |-> envs]} ELSE {})
  /\ UNCHANGED <<epVars, connVars, mailVars, env, puts, delivereds, logins,
                 stacks, histVars>>

\* Empties the box; the entries of the message store stay.
Send(e) ==
  /\ e \in sends
  /\ sends' = sends \ {e}
  /\ IF Alive(e) /\ mboxes[Owner[e]] # <<>>
     THEN /\ mboxes' = [mboxes EXCEPT ![Owner[e]] = <<>>]
          /\ \E envs \in Unexpired(mboxes[Owner[e]]) :
               delivers' = delivers \cup
                 (IF envs # <<>> THEN {[ep |-> e, envs |-> envs]} ELSE {})
     ELSE UNCHANGED <<mboxes, delivers>>
  /\ UNCHANGED <<epVars, connVars, messages, env, puts, delivereds, logins,
                 stacks, histVars>>

\* After 30 days (DURATION) an entry of the message store reads as nil.
Expire(g) ==
  /\ g \in messages
  /\ messages' = messages \ {g}
  /\ UNCHANGED <<epVars, connVars, mboxes, env, taskVars, histVars>>

(***************************************************************************)
(* Specification                                                           *)
(***************************************************************************)

\* What clients and the network do.
EnvironmentNext ==
  \/ \E e \in Endpoint :
       \/ Connect(e)
       \/ GetWebsocketLogin(e)
       \/ ReceiveClose(e)
       \/ Disconnect(e)
       \/ \E g \in outgoing[e], code \in Codes : ChatReceiveResponse(e, g, code)
       \/ \E a \in Account, list \in MessageLists : PutMessages(e, a, list)
  \/ \E g \in messages : Expire(g)

\* The queued tasks.
ServerNext ==
  \/ \E e \in Endpoint :
       \/ \E success \in BOOLEAN : GetWebsocketLogin3(e, success)
       \/ Disconnected(e)
       \/ Send(e)
  \/ \E p \in puts : PutMessages2(p)
  \/ \E d \in delivers : Deliver(d)
  \/ \E d \in delivereds : Delivered(d)
  \/ \E s \in stacks : Stack(s)

Next == EnvironmentNext \/ ServerNext

Spec == Init /\ [][Next]_vars

\* The tasks of the object of a connection.
ObjectTask(e) ==
  \/ \E success \in BOOLEAN : GetWebsocketLogin3(e, success)
  \/ Disconnected(e)
  \/ Send(e)
  \/ \E d \in delivers : d.ep = e /\ Deliver(d)
  \/ \E d \in delivereds : d.ep = e /\ Delivered(d)

\* The driver runs queued tasks in their order, so the tasks of one connection do not
\* wait for ever for those of others.  A client that stays connected eventually
\* answers what it was sent.
Fairness ==
  \A e \in Endpoint :
    /\ WF_vars(ObjectTask(e))
    /\ WF_vars(\E g \in outgoing[e], code \in Codes : ChatReceiveResponse(e, g, code))

(***************************************************************************)
(* Properties                                                              *)
(***************************************************************************)

\* Type invariant: queues, boxes and tasks refer to envelopes that exist, and
\* the registry to objects that are not destructed.
TypeOK ==
  /\ ep \in [Endpoint -> Status]
  /\ online \subseteq {e \in Endpoint : Alive(e)}
  /\ queue \in [Endpoint -> Seq(Guid)]
  /\ state \in [Endpoint -> {"READY", "AWAIT_RESPONSE"}]
  /\ outgoing \in [Endpoint -> SUBSET Guid]
  /\ messages \subseteq Guid
  /\ mboxes \in [Box -> Seq(Guid)]
  /\ env \in Seq(Envelope)
  /\ puts \subseteq [ep : Endpoint, context : Nat, account : Account,
                     messages : MessageLists]
  /\ delivers \subseteq [ep : Endpoint, envs : Seq(Guid)]
  /\ delivereds \subseteq [ep : Endpoint, env : Guid, code : Codes]
  /\ logins \subseteq Endpoint
  /\ sends \subseteq Endpoint
  /\ stacks \subseteq Seq(Guid)
  /\ requests \in Nat
  /\ acked \subseteq Guid
  /\ notified \subseteq Client

\* The envelopes on the way to endpoint e: queued, or argument of a task.
Towards(e) ==
  ToSet(queue[e]) \cup UNION {ToSet(d.envs) : d \in {x \in delivers : x.ep = e}}

\* Nobody gets mail for another account: what is on its way to a connection or
\* lies in a mail box is for the account of that connection or box, and what
\* is stacked together is for one account.  Messages.c putMessages2 and
\* delivered choose the connection, close() and sys/messages.c stack() file a
\* whole list under its first envelope.
AccountConfined ==
  /\ \A e \in Endpoint : \A g \in Towards(e) :
       env[g].destinationId = Owner[e].id
  /\ \A b \in Box : \A g \in ToSet(mboxes[b]) : env[g].destinationId = b.id
  /\ \A s \in stacks : \A g, h \in ToSet(s) :
       env[g].destinationId = env[h].destinationId

\* The places that hold envelope g.
QueueHolders(g) ==
  UNION {{<<"queue", e, i>> : i \in {j \in DOMAIN queue[e] : queue[e][j] = g}} :
           e \in Endpoint}
DeliverHolders(g) ==
  UNION {{<<"deliver", d, i>> : i \in {j \in DOMAIN d.envs : d.envs[j] = g}} :
           d \in delivers}
StackHolders(g) ==
  UNION {{<<"stack", s, i>> : i \in {j \in DOMAIN s : s[j] = g}} : s \in stacks}
BoxHolders(g) ==
  UNION {{<<"mbox", b, i>> : i \in {j \in DOMAIN mboxes[b] : mboxes[b][j] = g}} :
           b \in Box}
Holders(g) ==
  QueueHolders(g) \cup DeliverHolders(g) \cup StackHolders(g) \cup BoxHolders(g)

\* An envelope is never in two places at once, and in none once a client has
\* acknowledged it: the server does not deliver a message a second time after
\* Messages.c delivered() has seen the answer, however often the connection is
\* lost and the queue saved.
AtMostOnce ==
  \A g \in Guid : Cardinality(Holders(g)) <= (IF g \in acked THEN 0 ELSE 1)

\* delivered() drops queue[0] without looking.  At most one delivery of a
\* connection is out at a time, sent and not answered or answered and waiting
\* for delivered() to run; it is the head of the queue, and the state keeps
\* deliver() from sending another.
HeadOutstanding ==
  /\ \A e \in Endpoint : \A g \in outgoing[e] :
       state[e] = "AWAIT_RESPONSE" /\ queue[e] # <<>> /\ Head(queue[e]) = g
  /\ \A d \in delivereds :
       /\ state[d.ep] = "AWAIT_RESPONSE"
       /\ queue[d.ep] # <<>> /\ Head(queue[d.ep]) = d.env
       /\ outgoing[d.ep] = {}
  /\ \A d1, d2 \in delivereds : d1.ep = d2.ep => d1 = d2

\* The envelopes in queues, in the arguments of tasks and in mail boxes.
Queued == UNION {ToSet(queue[e]) : e \in Endpoint}
Delivering == UNION {ToSet(d.envs) : d \in delivers}
Stacking == UNION {ToSet(s) : s \in stacks}
Filed == UNION {ToSet(mboxes[b]) : b \in Box}

\* The envelopes that can still reach a client.
Waiting == Queued \cup Delivering \cup Stacking \cup (messages \cap Filed)

\* A message leaves the server only when its client acknowledges it, when it
\* expires in a mail box, or when stack() fails because one envelope of the
\* list is still in the message store.  No other interleaving of logins, lost
\* connections and queued tasks drops one.
OnlyRestackLoses ==
  [][\A g \in Waiting \ Waiting' :
       \/ g \in acked'
       \/ g \in messages /\ g \notin messages'
       \/ \E s \in stacks \ stacks' : g \in ToSet(s) /\ ToSet(s) \cap messages # {}]_vars

\* Everything queued for a connection is delivered, unless the connection
\* ends, once deliver() has been called on an open WebSocket: delivered() always
\* goes on to the next envelope.  Stated for clients that refuse nothing
\* (Codes = {"OK"}): delivered() ignores a refusal, and the queue then waits
\* for the connection to end.
QueueDrains ==
  \A e \in Endpoint :
    (ep[e] = "ws" /\ (state[e] = "AWAIT_RESPONSE" \/ \E d \in delivers : d.ep = e))
      ~> (ep[e] # "ws" \/ Towards(e) = {})

\* Delivery implements MailService: an envelope that a client acknowledged or
\* that was dropped never comes back, and only delivered() acknowledges.
Mail == INSTANCE MailService WITH
  known <- Guid,
  waiting <- Waiting

ImplementsMailService == Mail!MailSpec

\* An envelope in a mail box is in the box of the device it was addressed to:
\* the comments of sys/messages.c stack() ("keep a stack of envelopes to send
\* later") and Envelope.c ("destination device ID") rely on it.
FiledForAddressee ==
  \A b \in Box : \A g \in ToSet(mboxes[b]) : env[g].addressee = b.deviceId

\* A connection that ends gives its queue back to the mail boxes: every message
\* is acknowledged, expired, or still in the system (Messages.c close(),
\* "override close() to save message queue").
NoLoss ==
  [][\A g \in Waiting \ Waiting' :
       g \in acked' \/ (g \in messages /\ g \notin messages')]_vars
=============================================================================
