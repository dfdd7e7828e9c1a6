------------------------------ MODULE Benchmark ------------------------------
(***************************************************************************)
(* The benchmark: benchmark/sys/benchmark.c makes accounts and connects    *)
(* clients, and has some of them send messages to each other;              *)
(* benchmark/obj/client.c is such a client, on top of lib/rest/Client.c,   *)
(* whose WebSocket half nothing else uses.                                 *)
(*                                                                         *)
(* The server at the other end is external: it answers the request for an  *)
(* upgrade, answers each message sent, and pushes the messages of a client *)
(* one at a time, the next one when the client has answered.               *)
(***************************************************************************)
EXTENDS Integers, Sequences, FiniteSets, SequencesExt

CONSTANTS
  ACCOUNTS,           \* simulated accounts
  CLIENTS,            \* connected accounts
  SENDERS,            \* accounts sending messages
  CORRESPONDENTS,     \* recipients for each sender
  BuildStep,          \* accounts made by one call of build() (10)
  SetupStep           \* senders started by one call of setup() (100)

VARIABLES
  stage,        \* call_out of benchmark.c that is pending: [fn, num]
  client,       \* client[c]: the object of client c
  counter,      \* clients that have finished
  summand,      \* argument of the pending call_out of done(); 0 if there is none
  reports       \* times that "Done" was reported

\* External: the server.
VARIABLES
  mailbox,      \* mailbox[c]: messages that the server has for c, oldest first
  pushed        \* pushed[c]: whether the server waits for the answer of c

\* History
VARIABLE sent   \* messages sent over a WebSocket: pairs of sender and recipient

vars == <<stage, client, counter, summand, reports, mailbox, pushed, sent>>

Client == 1..CLIENTS

\* A client: whether it is connected, has started, is a WebSocket; the function
\* that the next response is for; what its connection waits for, what has arrived and
\* has not been read, and what is being handled; callbacks by context; and the
\* correspondents that benchmark() still has.
NewClient ==
  [connected |-> FALSE, started |-> FALSE, websocket |-> FALSE, handle |-> "created",
   reading |-> "response", inbox |-> <<>>, chunk |-> <<>>, outgoing |-> {}, todo |-> <<>>]

Init ==
  /\ stage = [fn |-> "build", num |-> 0]
  /\ client = <<>>
  /\ counter = 0 /\ summand = 0 /\ reports = 0
  /\ mailbox = [c \in Client |-> <<>>] /\ pushed = [c \in Client |-> FALSE]
  /\ sent = {}

server == <<mailbox, pushed>>

(***************************************************************************)
(* benchmark.c                                                             *)
(***************************************************************************)

\* build(): the first CLIENTS accounts are connected.
Build ==
  /\ stage.fn = "build"
  /\ LET num == stage.num + BuildStep IN
     /\ client' = [c \in (1..num) \cap Client |->
                     IF c \in DOMAIN client THEN client[c] ELSE NewClient]
     /\ stage' = IF num < ACCOUNTS THEN [stage EXCEPT !.num = num]
                 ELSE [fn |-> "setup", num |-> 0]
  /\ UNCHANGED <<counter, summand, reports, server, sent>>

\* The correspondents of a client: random ones, so perhaps fewer than CORRESPONDENTS.
\* The entry that is removed is that of the client object, not of its account.
Correspondents == {s \in SUBSET Client : s # {} /\ Cardinality(s) <= CORRESPONDENTS}

\* setup(): the next senders are started.
Setup ==
  /\ stage.fn = "setup"
  /\ LET num == stage.num + SetupStep
         senders == (stage.num + 1)..num
     IN
     /\ \E chosen \in [senders -> Correspondents] :
          client' = [c \in Client |->
                       IF c \in senders THEN [client[c] EXCEPT !.todo = SetToSeq(chosen[c])]
                       ELSE client[c]]
     /\ stage' = IF num < SENDERS THEN [stage EXCEPT !.num = num]
                 ELSE [fn |-> "none", num |-> num]
  /\ UNCHANGED <<counter, summand, reports, server, sent>>

\* Mutant: each call counts as one.
CountedOne(number) == 1

\* done() is called with the sum of the arguments of the calls that it stands for.
Counted(number) == number

\* done()
Done ==
  /\ summand > 0
  /\ summand' = 0
  /\ IF counter + Counted(summand) = SENDERS
     THEN counter' = 0 /\ reports' = reports + 1
     ELSE counter' = counter + Counted(summand) /\ UNCHANGED reports
  /\ UNCHANGED <<stage, client, server, sent>>

(***************************************************************************)
(* client.c: the upgrade to a WebSocket                                    *)
(***************************************************************************)

\* connected() and created(): the TLS connection is established.
Connected(c) ==
  /\ c \in DOMAIN client /\ ~ client[c].connected
  /\ client' = [client EXCEPT ![c].connected = TRUE]
  /\ UNCHANGED <<stage, counter, summand, reports, server, sent>>

\* start() sends the request for an upgrade: the next response is for establish().
Start(c) ==
  /\ c \in DOMAIN client /\ client[c].connected /\ ~ client[c].started
  /\ client' = [client EXCEPT ![c].started = TRUE, ![c].handle = "establish",
                              ![c].inbox = Append(@, "switching")]
  /\ UNCHANGED <<stage, counter, summand, reports, server, sent>>

\* _receiveResponse() calls the function of the latest request.  establish() upgrades
\* to a WebSocket or is an error; no other response is read before doneResponse().
ReceiveResponse(c) ==
  LET upgraded == client[c].handle = "establish" /\ Head(client[c].inbox) = "switching" IN
  /\ c \in DOMAIN client /\ client[c].reading = "response" /\ client[c].inbox # <<>>
  /\ client' = [client EXCEPT ![c] =
       [client[c] EXCEPT !.inbox = Tail(@), !.websocket = upgraded,
                         !.reading = IF upgraded THEN "frame" ELSE "none"]]
  /\ UNCHANGED <<stage, counter, summand, reports, server, sent>>

(***************************************************************************)
(* client.c: messages                                                      *)
(***************************************************************************)

\* Mutant: a client is finished when it starts on its last message.
FinishedEarly(todo) == Len(todo) <= 2

\* benchmark() has no next correspondent.
Finished(todo) == Len(todo) = 1

\* benchmark(): a message for the first correspondent, and the next one with another
\* call_out.  It fails when the client is not connected.  Until it is a WebSocket, a
\* client sends a request over HTTP, and the next response is for that.
Send(c) ==
  /\ c \in DOMAIN client /\ client[c].todo # <<>>
  /\ LET to == Head(client[c].todo)
         context == Cardinality({s \in sent : s[1] = c})
     IN
     IF ~ client[c].connected
     THEN /\ client' = [client EXCEPT ![c].todo = <<>>]
          /\ UNCHANGED <<summand, mailbox, sent>>
     ELSE
     /\ IF client[c].websocket
        THEN /\ client' = [client EXCEPT ![c].todo = Tail(@),
                                         ![c].outgoing = @ \cup {context},
                                         ![c].inbox = Append(@, "response")]
             /\ mailbox' = [mailbox EXCEPT ![to] = Append(@, c)]
             /\ sent' = sent \cup {<<c, to>>}
        ELSE /\ client' = [client EXCEPT ![c].todo = Tail(@),
                                         ![c].handle = "ignoredResponse",
                                         ![c].inbox = Append(@, "response")]
             /\ UNCHANGED <<mailbox, sent>>
     /\ summand' = IF Finished(client[c].todo) THEN summand + 1 ELSE summand
  /\ UNCHANGED <<stage, counter, reports, pushed>>

\* The server pushes a message to a client that is connected.
Push(c) ==
  /\ c \in DOMAIN client /\ client[c].websocket
  /\ mailbox[c] # <<>> /\ ~ pushed[c]
  /\ pushed' = [pushed EXCEPT ![c] = TRUE]
  /\ client' = [client EXCEPT ![c].inbox = Append(@, "message")]
  /\ UNCHANGED <<stage, counter, summand, reports, mailbox, sent>>

\* receiveWsFrame() and _receiveWsFrame(): the payload follows.
ReceiveWsFrame(c) ==
  /\ c \in DOMAIN client /\ client[c].reading = "frame" /\ client[c].inbox # <<>>
  /\ client' = [client EXCEPT ![c] =
       [client[c] EXCEPT !.reading = "none", !.inbox = Tail(@),
                         !.chunk = <<Head(client[c].inbox)>>]]
  /\ UNCHANGED <<stage, counter, summand, reports, server, sent>>

\* _receiveWsChunk() runs as a call_out, where previous_object() is the client itself;
\* the connection is in prev.
PreviousObject(c, prev) == <<"client", c>>

\* receiveWsRequest() and receiveMessage(): the message is answered.
\* receiveWsResponse(): the callback is forgotten.
HandleChunk(c) ==
  /\ client' = [client EXCEPT ![c] =
       [client[c] EXCEPT
          !.chunk = <<>>, !.reading = "frame",
          !.outgoing = IF client[c].chunk = <<"response">> THEN @ \ {SetToSeq(@)[1]} ELSE @]]
  /\ IF client[c].chunk = <<"message">>
     THEN /\ mailbox' = [mailbox EXCEPT ![c] = Tail(@)]
          /\ pushed' = [pushed EXCEPT ![c] = FALSE]
     ELSE UNCHANGED server

ReceiveWsChunk(c) ==
  /\ c \in DOMAIN client /\ client[c].chunk # <<>>
  /\ IF PreviousObject(c, <<"connection", c>>) = <<"connection", c>>
     THEN HandleChunk(c)
     ELSE /\ client' = [client EXCEPT ![c].chunk = <<>>]
          /\ UNCHANGED server
  /\ UNCHANGED <<stage, counter, summand, reports, sent>>

ClientNext(c) ==
  \/ Connected(c) \/ Start(c) \/ ReceiveResponse(c) \/ Send(c) \/ Push(c)
  \/ ReceiveWsFrame(c) \/ ReceiveWsChunk(c)

Next ==
  \/ Build \/ Setup \/ Done
  \/ \E c \in Client : ClientNext(c)

Spec == Init /\ [][Next]_vars

(***************************************************************************)
(* Properties                                                              *)
(***************************************************************************)

\* Type invariant; a client reads frames only after the upgrade, and the counter
\* never passes the number of senders.
TypeOK ==
  /\ stage.fn \in {"build", "setup", "none"} /\ stage.num \in 0..ACCOUNTS
  /\ DOMAIN client \subseteq Client
  /\ counter \in 0..(SENDERS - 1) /\ summand \in 0..SENDERS
  /\ \A c \in DOMAIN client : client[c].reading = "frame" => client[c].websocket

\* "Done" is reported once, and when all senders have sent all of their messages.
DoneAfterAll ==
  /\ reports <= 1
  /\ reports = 1 => stage.fn = "none" /\ \A c \in DOMAIN client : client[c].todo = <<>>

\* If the clients are connected when setup() is first called, the benchmark ends: the
\* senders that finish are all counted, however the calls of done() are summed up.
EventuallyDone ==
  (/\ stage = [fn |-> "setup", num |-> 0]
   /\ \A c \in DOMAIN client : client[c].connected) ~> (reports = 1)

\* The benchmark reports its end once, and not before all senders have finished.
DoneOnceAtTheEnd == []DoneAfterAll /\ EventuallyDone
==============================================================================
