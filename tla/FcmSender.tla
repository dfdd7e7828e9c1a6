------------------------------ MODULE FcmSender ------------------------------
(***************************************************************************)
(* Push notifications: obj/fcm_sender.c, which keeps one queue, one TLS    *)
(* connection to Firebase (lib/rest/Client.c) and an access token obtained *)
(* with a one-shot client (obj/oneshot.c).                                 *)
(*                                                                         *)
(* The code has no explicit "busy" state.  While the queue is not empty,   *)
(* exactly one thing must be under way that will come back to it: a queued *)
(* task, a connection attempt, a token request or a message request.       *)
(*                                                                         *)
(* Tasks with a delay and without are both just queued.  The events of one *)
(* connection are handled in the order in which they arrive.               *)
(***************************************************************************)
EXTENDS Integers, Sequences

CONSTANTS
  ATTEMPTS,           \* number of times to try a message that is not found
  Targets,            \* kinds of target: "token", or "nil" for a device that
                      \* has no gcmId
  TokenCodes,         \* answers to a token request: OK, REJECTED, FAILED
  MaxNotifications,   \* bound: notifications asked for
  MaxFaults           \* bound: failures of Firebase and of the network

ASSUME ATTEMPTSAssumption == ATTEMPTS \in Nat \ {0}
ASSUME TargetsAssumption == Targets \subseteq {"token", "nil"}
ASSUME TokenCodesAssumption == TokenCodes \subseteq {"OK", "REJECTED", "FAILED"}
ASSUME BoundsAssumption == MaxNotifications \in Nat /\ MaxFaults \in Nat

VARIABLES
  queue,         \* messages to send: id, attempts left, target
  active,        \* active connection
  requested,     \* awaiting response
  accessToken,   \* whether there is an access token
  conn,          \* the TLS connection object: none, connecting, up, dead
  wire,          \* id of the message Firebase is to answer, or 0
  inbox          \* events of the connection that wait for their task

\* Queued tasks, by function; token requests by their stage; answers to them.
VARIABLES enqueues, callouts, clients, stores

\* History: notifications made, failures so far, ids whose callback was run,
\* and whether a task of the sender ended in an error that nothing resumes.
VARIABLES made, faults, answered, stopped

taskVars == <<enqueues, callouts, clients, stores>>
histVars == <<made, faults, answered, stopped>>
vars == <<queue, active, requested, accessToken, conn, wire, inbox,
          taskVars, histVars>>

Functions == {"startConnection", "sendMessage", "getAccessToken"}
Stages == {"connecting", "requested"}
Answers == {"OK", "NOT_FOUND", "UNAUTHORIZED", "OTHER"}

Message == [id : Nat \ {0}, attempts : 1..ATTEMPTS, target : Targets]
Event == [type : {"response"}, code : Answers, id : Nat]
           \cup [type : {"disconnected"}]

Init ==
  /\ queue = <<>> /\ active = FALSE /\ requested = FALSE /\ accessToken = FALSE
  /\ conn = "none" /\ wire = 0 /\ inbox = <<>>
  /\ enqueues = {}
  /\ callouts = [f \in Functions |-> 0]
  /\ clients = [s \in Stages |-> 0]
  /\ stores = [c \in {"OK", "REJECTED", "FAILED"} |-> 0]
  /\ made = 0 /\ faults = 0 /\ answered = {} /\ stopped = FALSE

\* A failure that the environment may still cause.
Fault == faults < MaxFaults /\ faults' = faults + 1

(***************************************************************************)
(* Parts of the handlers                                                   *)
(***************************************************************************)

CallOut(f) == callouts' = [callouts EXCEPT ![f] = @ + 1]
Take(f) == callouts[f] > 0
Taken(f) == [callouts EXCEPT ![f] = @ - 1]

\* startConnection(): a new connection object; events of the old one, which
\* is no longer the value of connection, are ignored from now on.
StartConnection == conn' = "connecting" /\ inbox' = <<>> /\ wire' = 0

\* getAccessToken(): a new one-shot client.
GetAccessToken == clients' = [clients EXCEPT !["connecting"] = @ + 1]

\* request(): the request for message id is written to the connection, which is
\* an error when the connection is dead.
Request(id) == wire' = IF conn = "up" THEN id ELSE wire

\* sendMessage() with message queue q.  A nil target is an error before
\* anything is set; a dead connection is one after requested is.
SendMessage(q) ==
  IF ~ active
  THEN StartConnection /\ UNCHANGED <<requested, stopped>>
  ELSE IF q # <<>> /\ Head(q).target = "token"
  THEN /\ requested' = TRUE
       /\ Request(Head(q).id)
       /\ UNCHANGED <<conn, inbox, stopped>>
  ELSE stopped' = TRUE /\ UNCHANGED <<conn, inbox, wire, requested>>

(***************************************************************************)
(* Requests for notifications                                              *)
(***************************************************************************)

\* notify(), on behalf of Messages.c or Registration.c.
Notify(target) ==
  /\ made < MaxNotifications
  /\ made' = made + 1
  /\ enqueues' = enqueues \cup
       {[id |-> made + 1, attempts |-> ATTEMPTS, target |-> target]}
  /\ UNCHANGED <<queue, active, requested, accessToken, conn, wire, inbox,
                 callouts, clients, stores, faults, answered, stopped>>

\* Mutant: a new message goes to the front.
EnqueueFront(m) ==
  /\ m \in enqueues
  /\ enqueues' = enqueues \ {m}
  /\ queue' = <<m>> \o queue
  /\ IF queue = <<>> /\ ~ accessToken
     THEN GetAccessToken /\ UNCHANGED <<requested, conn, wire, inbox, stopped>>
     ELSE IF queue = <<>>
     THEN SendMessage(queue') /\ UNCHANGED clients
     ELSE UNCHANGED <<requested, conn, wire, inbox, clients, stopped>>
  /\ UNCHANGED <<active, accessToken, callouts, stores, made, faults, answered>>

\* Only the message that makes the queue non-empty starts the sender.
Enqueue(m) ==
  /\ m \in enqueues
  /\ enqueues' = enqueues \ {m}
  /\ queue' = Append(queue, m)
  /\ IF queue = <<>>
     THEN IF ~ accessToken
          THEN GetAccessToken /\ UNCHANGED <<requested, conn, wire, inbox, stopped>>
          ELSE SendMessage(queue') /\ UNCHANGED clients
     ELSE UNCHANGED <<requested, conn, wire, inbox, clients, stopped>>
  /\ UNCHANGED <<active, accessToken, callouts, stores, made, faults, answered>>

(***************************************************************************)
(* The connection to Firebase                                              *)
(***************************************************************************)

StartConnectionTask ==
  /\ Take("startConnection")
  /\ callouts' = Taken("startConnection")
  /\ StartConnection
  /\ UNCHANGED <<queue, active, requested, accessToken, enqueues, clients, stores,
                 histVars>>

\* started(HTTP_OK), called by connected().
Started ==
  /\ conn = "connecting"
  /\ conn' = "up" /\ active' = TRUE
  /\ CallOut("sendMessage")
  /\ UNCHANGED <<queue, requested, accessToken, wire, inbox, enqueues, clients,
                 stores, histVars>>

\* started(error), called by connectFailed(): try again.
StartFailed ==
  /\ conn = "connecting"
  /\ Fault
  /\ conn' = "none"
  /\ CallOut("startConnection")
  /\ UNCHANGED <<queue, active, requested, accessToken, wire, inbox, enqueues,
                 clients, stores, made, answered, stopped>>

SendMessageTask ==
  /\ Take("sendMessage")
  /\ callouts' = Taken("sendMessage")
  /\ SendMessage(queue)
  /\ UNCHANGED <<queue, active, accessToken, enqueues, clients, stores, made,
                 faults, answered>>

\* Firebase answers; the response waits for its task.
Answer(code) ==
  /\ conn = "up" /\ wire # 0
  /\ IF code \in {"OK", "NOT_FOUND"} THEN UNCHANGED faults ELSE Fault
  /\ wire' = 0
  /\ inbox' = Append(inbox, [type |-> "response", code |-> code, id |-> wire])
  /\ UNCHANGED <<queue, active, requested, accessToken, conn, taskVars, made,
                 answered, stopped>>

\* The TLS connection ends; so does whatever Firebase was to answer.
Drop ==
  /\ conn = "up"
  /\ Fault
  /\ conn' = "dead" /\ wire' = 0
  /\ inbox' = Append(inbox, [type |-> "disconnected"])
  /\ UNCHANGED <<queue, active, requested, accessToken, taskVars, made, answered,
                 stopped>>

\* Mutant: one attempt too many.
FinishedLate(code) ==
  code = "OK" \/ (code = "NOT_FOUND" /\ Head(queue).attempts <= 0)

\* Whether response() is done with queue[0].
Finished(code) ==
  code = "OK" \/ (code = "NOT_FOUND" /\ Head(queue).attempts <= 1)

\* response()
Response ==
  LET ev == Head(inbox) IN
  /\ inbox # <<>> /\ ev.type = "response"
  /\ inbox' = Tail(inbox)
  /\ requested' = FALSE
  /\ IF Finished(ev.code)
     THEN /\ queue' = Tail(queue)
          /\ answered' = answered \cup {Head(queue).id}
          /\ IF Tail(queue) # <<>> THEN CallOut("sendMessage") ELSE UNCHANGED callouts
     ELSE /\ queue' = IF ev.code = "NOT_FOUND"
                      THEN [queue EXCEPT ![1].attempts = @ - 1] ELSE queue
          /\ UNCHANGED answered
          /\ CallOut(IF ev.code = "UNAUTHORIZED" THEN "getAccessToken" ELSE "sendMessage")
  /\ UNCHANGED <<active, accessToken, conn, wire, enqueues, clients, stores, made,
                 faults, stopped>>

\* Mutant: close() always restarts the connection.
CloseAlwaysRestarts ==
  /\ inbox # <<>> /\ Head(inbox).type = "disconnected"
  /\ inbox' = Tail(inbox)
  /\ active' = FALSE /\ requested' = FALSE
  /\ CallOut("startConnection")
  /\ UNCHANGED <<queue, accessToken, conn, wire, enqueues, clients, stores, histVars>>

\* Mutant: close() does not restart the connection.
CloseNeverRestarts ==
  /\ inbox # <<>> /\ Head(inbox).type = "disconnected"
  /\ inbox' = Tail(inbox)
  /\ active' = FALSE
  /\ UNCHANGED <<queue, requested, accessToken, conn, wire, taskVars, histVars>>

\* close(), by way of _disconnected
Close ==
  /\ inbox # <<>> /\ Head(inbox).type = "disconnected"
  /\ inbox' = Tail(inbox)
  /\ active' = FALSE /\ requested' = FALSE
  /\ IF requested THEN CallOut("startConnection") ELSE UNCHANGED callouts
  /\ UNCHANGED <<queue, accessToken, conn, wire, enqueues, clients, stores, histVars>>

(***************************************************************************)
(* The access token                                                        *)
(***************************************************************************)

GetAccessTokenTask ==
  /\ Take("getAccessToken")
  /\ callouts' = Taken("getAccessToken")
  /\ GetAccessToken
  /\ UNCHANGED <<queue, active, requested, accessToken, conn, wire, inbox, enqueues,
                 stores, histVars>>

\* oneshot.c created(HTTP_OK): the POST request is sent.
TokenRequested ==
  /\ clients["connecting"] > 0
  /\ clients' = [clients EXCEPT !["connecting"] = @ - 1, !["requested"] = @ + 1]
  /\ UNCHANGED <<queue, active, requested, accessToken, conn, wire, inbox, enqueues,
                 callouts, stores, histVars>>

\* oneshot.c: the callback is run once, by created() when the connection could
\* not be made, by response(), or by close() when there was no response.
TokenAnswer(stage, code) ==
  /\ clients[stage] > 0
  /\ stage = "connecting" => code = "FAILED"
  /\ IF code = "OK" THEN UNCHANGED faults ELSE Fault
  /\ clients' = [clients EXCEPT ![stage] = @ - 1]
  /\ stores' = [stores EXCEPT ![code] = @ + 1]
  /\ UNCHANGED <<queue, active, requested, accessToken, conn, wire, inbox, enqueues,
                 callouts, made, answered, stopped>>

\* storeAccessToken(): a rejected service account is an error.
StoreAccessToken(code) ==
  /\ stores[code] > 0
  /\ stores' = [stores EXCEPT ![code] = @ - 1]
  /\ \/ /\ code = "OK"
        /\ accessToken' = TRUE
        /\ SendMessage(queue)
        /\ UNCHANGED callouts
     \/ /\ code = "REJECTED"
        /\ stopped' = TRUE
        /\ UNCHANGED <<requested, accessToken, conn, wire, inbox, callouts>>
     \/ /\ code = "FAILED"
        /\ CallOut("getAccessToken")
        /\ UNCHANGED <<requested, accessToken, conn, wire, inbox, stopped>>
  /\ UNCHANGED <<queue, active, enqueues, clients, made, faults, answered>>

(***************************************************************************)
(* Specification                                                           *)
(***************************************************************************)

Tasks ==
  \/ \E m \in enqueues : Enqueue(m)
  \/ StartConnectionTask
  \/ SendMessageTask
  \/ Response
  \/ Close
  \/ GetAccessTokenTask
  \/ \E code \in TokenCodes : StoreAccessToken(code)

Remote ==
  \/ Started
  \/ StartFailed
  \/ \E code \in Answers : Answer(code)
  \/ TokenRequested
  \/ \E stage \in Stages, code \in TokenCodes : TokenAnswer(stage, code)

Next ==
  \/ \E target \in Targets : Notify(target)
  \/ Drop
  \/ Tasks
  \/ Remote

Spec == Init /\ [][Next]_vars

\* Queued tasks run; connections, Firebase and the token service answer,
\* favourably or not, rather than keep silent.
Fairness == WF_vars(Tasks) /\ WF_vars(Remote)
FairSpec == Spec /\ Fairness

(***************************************************************************)
(* Properties                                                              *)
(***************************************************************************)

\* Type invariant; a message in the queue has an attempt left.
TypeOK ==
  /\ queue \in Seq(Message)
  /\ active \in BOOLEAN /\ requested \in BOOLEAN /\ accessToken \in BOOLEAN
  /\ conn \in {"none", "connecting", "up", "dead"}
  /\ wire \in Nat
  /\ inbox \in Seq(Event)
  /\ enqueues \subseteq Message
  /\ callouts \in [Functions -> Nat]
  /\ clients \in [Stages -> Nat]
  /\ stores \in [{"OK", "REJECTED", "FAILED"} -> Nat]
  /\ made \in Nat /\ faults \in Nat /\ answered \subseteq Nat /\ stopped \in BOOLEAN

\* The things under way that will come back to the queue.
Threads ==
  callouts["startConnection"] + callouts["sendMessage"] + callouts["getAccessToken"]
  + clients["connecting"] + clients["requested"]
  + stores["OK"] + stores["REJECTED"] + stores["FAILED"]
  + (IF conn = "connecting" THEN 1 ELSE 0)
  + (IF requested THEN 1 ELSE 0)

\* fcm_sender.c handles one message at a time: while the queue is not empty
\* exactly one thing is under way, whatever the connection and the token service
\* do; when it is empty, nothing is.  Two would send a message twice, none would
\* leave the queue waiting for ever.
OneThread == Threads = IF queue = <<>> \/ stopped THEN 0 ELSE 1

\* response() charges the answer to queue[0]: the request on the wire, or the
\* response that waits for its task, is for that message.
AnswerIsForHead ==
  /\ wire # 0 => requested /\ queue # <<>> /\ Head(queue).id = wire
  /\ \A i \in DOMAIN inbox : inbox[i].type = "response" =>
       requested /\ queue # <<>> /\ Head(queue).id = inbox[i].id /\ wire = 0

\* The messages in the queue whose callback was not run yet.
Unanswered == {queue[i].id : i \in DOMAIN queue} \ answered

\* Whatever connections, Firebase and the token service do in the meantime, the
\* queue moves: every message is answered, unless the sender was stopped by an
\* error that nothing resumes.
OnlyStopBlocks == Unanswered # {} ~> Unanswered = {} \/ stopped

\* README.md, "Google FCM is used to notify clients of new messages": every
\* notification that has a token as its target is sent, once Firebase, the token
\* service and the network have stopped failing.
EveryNotificationSent ==
  \A id \in 1..MaxNotifications :
    (\E i \in DOMAIN queue : queue[i].id = id /\ queue[i].target = "token")
      ~> id \in answered
=============================================================================
