------------------------------ MODULE Discovery ------------------------------
(***************************************************************************)
(* Contact discovery: services/lib/cdsi/Discovery.c.  A client upgrades    *)
(* its connection, is shown an attestation, sends a list of phone numbers, *)
(* acknowledges a token and gets the accounts of these numbers, which are  *)
(* looked up in batches while other clients register.                      *)
(***************************************************************************)
EXTENDS WebSocket

CONSTANTS
  Numbers,       \* phone numbers
  Lists,         \* lists of phone numbers in requests: [prev, new]
  BATCH_SIZE,    \* numbers looked up in one task (5)
  BlockSize,     \* results put together at once (1638)
  MaxChunks      \* bound: chunks the client sends

VARIABLES
  ep,           \* the endpoint and its WebSocket
  state,        \* current state
  numbers,      \* phone numbers in query
  attests,      \* whether attest() is queued
  batches,      \* queued calls of cdsiBatch()
  registered    \* numbers that have an account

\* History: chunks the client sent; the numbers that had an account when the
\* token was acknowledged.
VARIABLES chunks, known

vars == <<ep, state, numbers, attests, batches, registered, chunks, known>>

States == {"INIT", "HANDSHAKE", "RECEIVE", "RECEIVE_ACK", "DONE"}

\* What a client may send: the answer to the attestation, a request with a list,
\* one that acknowledges the token, and one that cannot be parsed.
Payloads == [type : {"Client", "ack", "malformed"}] \cup [type : {"list"}, list : Lists]

Result == [number : Numbers, found : BOOLEAN]
NoResult == [number |-> "nil", found |-> FALSE]

Init ==
  /\ ep = Endpoint
  /\ state = "INIT" /\ numbers = <<>> /\ attests = FALSE /\ batches = {}
  /\ registered = {} /\ chunks = 0 /\ known = {}

(***************************************************************************)
(* The client, the network and the other clients                           *)
(***************************************************************************)

\* The client sends a chunk; nothing after its own close frame.
ClientChunk(payload) ==
  /\ ep.conn = "up" /\ ep.websocket
  /\ chunks < MaxChunks
  /\ chunks' = chunks + 1
  /\ ep' = ClientSends(ep, Frame(payload))
  /\ UNCHANGED <<state, numbers, attests, batches, registered, known>>

ClientClose ==
  /\ ep.conn = "up" /\ ep.websocket
  /\ chunks <= MaxChunks
  /\ chunks' = MaxChunks + 1
  /\ ep' = ClientSends(ep, CloseFrame)
  /\ UNCHANGED <<state, numbers, attests, batches, registered, known>>

Drop ==
  /\ ep.conn = "up"
  /\ ep' = Ended(ep)
  /\ UNCHANGED <<state, numbers, attests, batches, registered, chunks, known>>

Connection ==
  /\ ep' \in Transfers(ep)
  /\ UNCHANGED <<state, numbers, attests, batches, registered, chunks, known>>

Register(n) ==
  /\ n \notin registered
  /\ registered' = registered \cup {n}
  /\ UNCHANGED <<ep, state, numbers, attests, batches, chunks, known>>

(***************************************************************************)
(* Server.c                                                                *)
(***************************************************************************)

Server ==
  /\ IsServerEvent(ep)
  /\ ep' = Handled(ep)
  /\ UNCHANGED <<state, numbers, attests, batches, registered, chunks, known>>

(***************************************************************************)
(* Discovery.c                                                             *)
(***************************************************************************)

\* getDiscovery().  One that is refused for its credential (see Credentials) or its
\* headers changes nothing.
GetDiscovery ==
  /\ ep.alive /\ ep.conn = "up" /\ ~ ep.websocket
  /\ attests' = TRUE
  /\ ep' = UpgradeToWebSocket(ep)
  /\ UNCHANGED <<state, numbers, batches, registered, chunks, known>>

\* Mutant: the state is set before the attestation is sent.
AttestStateFirst ==
  /\ ep.alive /\ attests
  /\ attests' = FALSE
  /\ state' = "HANDSHAKE"
  /\ ep' = IF CanSendChunk(ep) THEN SendChunk(ep, [type |-> "CDSI"]) ELSE ep
  /\ UNCHANGED <<numbers, batches, registered, chunks, known>>

\* attest(): after a close the chunk is an error and the state is kept.
Attest ==
  /\ ep.alive /\ attests
  /\ attests' = FALSE
  /\ IF CanSendChunk(ep)
     THEN ep' = SendChunk(ep, [type |-> "CDSI"]) /\ state' = "HANDSHAKE"
     ELSE UNCHANGED <<ep, state>>
  /\ UNCHANGED <<numbers, batches, registered, chunks, known>>

\* sendClose() and state = STATE_DONE, as the last statements of a handler
CloseAndDone(e) ==
  /\ ep' = IF CanSendClose(e) THEN ExpectWsFrame(SendClose(e)) ELSE SendClose(e)
  /\ state' = IF CanSendClose(e) THEN "DONE" ELSE state

\* sendChunk() and the next state, as the last statements of a handler
SendAndNext(e, chunk, next) ==
  /\ CanSendChunk(e)
  /\ ep' = ExpectWsFrame(SendChunk(e, chunk))
  /\ state' = next

\* Nothing is sent: the handler fails, and no further frame is expected.
Fail(e) == ~ CanSendChunk(e) /\ ep' = e /\ UNCHANGED state

\* cdsiReceiveChunk(), STATE_INIT and STATE_DONE
ReceiveIllegal(e) ==
  /\ state \in {"INIT", "DONE"}
  /\ CloseAndDone(e)
  /\ UNCHANGED <<numbers, batches, known>>

\* cdsiReceiveChunk(), STATE_HANDSHAKE
ReceiveHandshake(e, payload) ==
  /\ state = "HANDSHAKE"
  /\ IF payload.type = "Client"
     THEN SendAndNext(e, [type |-> "Ready"], "RECEIVE") \/ Fail(e)
     ELSE CloseAndDone(e)
  /\ UNCHANGED <<numbers, batches, known>>

\* parseClientRequest(): an error for what cannot be parsed, nil for a token
\* acknowledgement, and the list with the previous numbers first otherwise.
IsMalformed(payload) == payload.type \in {"Client", "malformed"}
ParseClientRequest(payload) == payload.list.prev \o payload.list.new

\* cdsiReceiveChunk(), STATE_RECEIVE: a token that cannot be sent is caught, too.
ReceiveList(e, payload) ==
  /\ state = "RECEIVE"
  /\ numbers' = CASE IsMalformed(payload) -> numbers
                  [] payload.type = "ack" -> <<>>
                  [] OTHER -> ParseClientRequest(payload)
  /\ IF payload.type = "list" /\ CanSendChunk(e)
     THEN SendAndNext(e, [type |-> "token"], "RECEIVE_ACK")
     ELSE CloseAndDone(e)
  /\ UNCHANGED <<batches, known>>

\* Mutant: a request that cannot be parsed is not caught.
ReceiveAckUncaught(e, payload) ==
  /\ state = "RECEIVE_ACK"
  /\ state' = "DONE"
  /\ IF payload.type = "ack"
     THEN /\ batches' = batches \cup {[numbers |-> numbers, offset |-> 0,
                                       results |-> [i \in DOMAIN numbers |-> NoResult]]}
          /\ known' = registered
     ELSE UNCHANGED <<batches, known>>
  /\ ep' = IF IsMalformed(payload) THEN e ELSE ExpectWsFrame(e)
  /\ UNCHANGED numbers

\* cdsiReceiveChunk(), STATE_RECEIVE_ACK: a second list is ignored.
ReceiveAck(e, payload) ==
  /\ state = "RECEIVE_ACK"
  /\ IF payload.type = "ack"
     THEN /\ batches' = batches \cup {[numbers |-> numbers, offset |-> 0,
                                       results |-> [i \in DOMAIN numbers |-> NoResult]]}
          /\ known' = registered
     ELSE UNCHANGED <<batches, known>>
  /\ IF IsMalformed(payload)
     THEN CloseAndDone(e)
     ELSE ep' = ExpectWsFrame(e) /\ state' = "DONE"
  /\ UNCHANGED numbers

\* cdsiReceiveChunk(), called by _receiveWsChunk()
CdsiReceiveChunk ==
  LET e == Taken(ep)
      payload == Head(ep.inbox).payload IN
  /\ IsChunk(ep)
  /\ \/ ReceiveIllegal(e)
     \/ ReceiveHandshake(e, payload)
     \/ ReceiveList(e, payload)
     \/ ReceiveAck(e, payload)
  /\ UNCHANGED <<attests, registered, chunks>>

Least(a, b) == IF a < b THEN a ELSE b

\* Mutant: a batch that is not a full one ends one number early.
BatchEndShort(b) == Least(b.offset + BATCH_SIZE, Len(b.numbers) - 1)

\* Where the batch ends: the first number after it.
BatchEnd(b) == Least(b.offset + BATCH_SIZE, Len(b.numbers))

\* cdsiBatch(): the results so far.
LookedUp(b) ==
  [i \in DOMAIN b.numbers |->
     IF b.offset < i /\ i <= BatchEnd(b)
     THEN [number |-> b.numbers[i], found |-> b.numbers[i] \in registered]
     ELSE b.results[i]]

NextBatch(b) == [b EXCEPT !.results = LookedUp(b), !.offset = BatchEnd(b)]

\* Mutant: a last block that is full is left out.
TriplesNoRest(results) ==
  LET f[i \in Nat] ==
        IF i + BlockSize < Len(results)
        THEN SubSeq(results, i + 1, i + BlockSize) \o f[i + BlockSize]
        ELSE IF i + BlockSize = Len(results) THEN <<>> ELSE SubSeq(results, i + 1, Len(results))
  IN f[0]

\* sendClientResponse(): blocks of results, and what is left.
Triples(results) ==
  LET f[i \in Nat] ==
        IF i + BlockSize < Len(results)
        THEN SubSeq(results, i + 1, i + BlockSize) \o f[i + BlockSize]
        ELSE SubSeq(results, i + 1, Len(results))
  IN f[0]

IsLast(b) == BatchEnd(b) >= Len(b.numbers)

\* cdsiBatch(): the next batch, or the response and the close frame.  When the
\* response cannot be sent the task ends there.
CdsiBatch(b) ==
  /\ ep.alive
  /\ b \in batches
  /\ IF IsLast(b)
     THEN /\ batches' = batches \ {b}
          /\ ep' = IF CanSendChunk(ep)
                   THEN SendClose(SendChunk(ep, [type |-> "response",
                                                 triples |-> Triples(LookedUp(b))]))
                   ELSE ep
     ELSE /\ batches' = (batches \ {b}) \cup {NextBatch(b)}
          /\ UNCHANGED ep
  /\ UNCHANGED <<state, numbers, attests, registered, chunks, known>>

(***************************************************************************)
(* Specification                                                           *)
(***************************************************************************)

Tasks ==
  \/ Server
  \/ CdsiReceiveChunk
  \/ Attest
  \/ \E b \in batches : CdsiBatch(b)

Next ==
  \/ GetDiscovery
  \/ \E payload \in Payloads : ClientChunk(payload)
  \/ ClientClose
  \/ Drop
  \/ \E n \in Numbers : Register(n)
  \/ Connection
  \/ Tasks

Spec == Init /\ [][Next]_vars

\* Queued tasks run, and connections that are up carry what is sent.
Fairness == WF_vars(Tasks) /\ WF_vars(Connection)

\* In addition, the client answers a close frame with its own.
ClientAnswersClose == ep.closing /\ ClientClose
AnsweringSpec == Spec /\ Fairness /\ WF_vars(ClientAnswersClose)

(***************************************************************************)
(* Properties                                                              *)
(***************************************************************************)

Chunks ==
  [type : {"101", "CDSI", "Ready", "token", "close"}]
    \cup [type : {"response"}, triples : Seq(Result \cup {NoResult})]

\* Type invariant; the results of a batch are those of the numbers before offset.
TypeOK ==
  /\ EndpointType(ep, Payloads \cup {CloseFrame.payload}, Chunks)
  /\ state \in States
  /\ numbers \in Seq(Numbers)
  /\ attests \in BOOLEAN
  /\ \A b \in batches :
       /\ b.offset \in 0..Len(b.numbers)
       /\ \A i \in DOMAIN b.numbers :
            IF i <= b.offset THEN b.results[i] \in Result ELSE b.results[i] = NoResult
  /\ registered \subseteq Numbers /\ known \subseteq Numbers
  /\ chunks \in 0..(MaxChunks + 1)

\* sendChunk() and sendClose() are called by tasks in any order: the close frame
\* is still sent once, and last.
NothingAfterClose == ClosedAtTheEnd(ep)

\* One response at most is sent, after the token; it has every number of the list
\* once and in order, whatever the sizes of batches and blocks are, and it is
\* true of the accounts at some time since the acknowledgement.
ResponseIsComplete ==
  \A i \in DOMAIN ep.sent : ep.sent[i].type = "response" =>
    LET triples == ep.sent[i].triples IN
    /\ \E j \in 1..(i - 1) : ep.sent[j].type = "token"
    /\ \A j \in DOMAIN ep.sent : ep.sent[j].type = "response" => j = i
    /\ [k \in DOMAIN triples |-> triples[k].number] = numbers
    /\ \A k \in DOMAIN triples :
         /\ triples[k].found => triples[k].number \in registered
         /\ triples[k].number \in known => triples[k].found

\* No handler ends in an error while the connection is up: parse errors and the
\* errors of sendChunk() are caught, so expectWsFrame() is always called.
KeepsReading == Reads(ep)

\* STATE_DONE is final; attest() that runs after an early chunk of the client
\* must not start the handshake on a connection that is being closed.
DoneIsFinal == [][state = "DONE" => state' = "DONE"]_vars

\* An acknowledged list leads to the response or to the end of the conversation,
\* by a second chunk or by the connection.
AckIsAnswered ==
  batches # {} ~> ep.closing \/ ep.conn = "ended"

\* A close frame that the client sends first ends the connection: it is answered,
\* and _doneChunk() terminates the connection when the answer was sent.  So does
\* one that crosses with the close frame of cdsiBatch() after its header was read.
ClientCloseEnds ==
  ep.opcode = "CLOSE" /\ ~ ep.closing ~> ep.conn = "ended"

\* sendClose() closes the WebSocket connection: once the client has answered, the
\* connection ends.
ServerCloseEnds == ep.closing ~> ep.conn = "ended"

\* A conversation ends in order, by the last batch, by a chunk out of turn, or by the
\* client.
OrderlyEnd == DoneIsFinal /\ AckIsAnswered /\ ClientCloseEnds
==============================================================================
