--------------------------- MODULE ExchangesProofs ---------------------------
(***************************************************************************)
(* Proofs about the exchanges in which each message waits for the answer   *)
(* to the one before: of the properties of FcmSender, for any number of    *)
(* notifications, attempts and failures, and of those of Benchmark, for    *)
(* any number of accounts, clients and senders.                            *)
(***************************************************************************)
EXTENDS MCExchanges, SequenceTheorems, FiniteSetTheorems, TLAPS

(***************************************************************************)
(* FcmSender: the inductive invariant                                      *)
(***************************************************************************)

\* What waits in the inbox: at most one response, before anything else, and that
\* the connection has ended only when it has.
InboxShape ==
  /\ \A i \in DOMAIN inbox :
       /\ inbox[i].type = "response" => i = 1
       /\ inbox[i].type = "disconnected" => conn = "dead"
  /\ inbox # <<>> => conn \in {"up", "dead"}

\* Firebase has a request only on a live connection that brought nothing yet.
WireShape == wire # 0 => conn = "up" /\ inbox = <<>>

\* The sender stops with the message that it could not send still in the queue.
StopShape == stopped => queue # <<>>

Inv ==
  /\ TypeOK
  /\ OneThread
  /\ AnswerIsForHead
  /\ InboxShape
  /\ WireShape
  /\ StopShape

(***************************************************************************)
(* Lemmas                                                                  *)
(***************************************************************************)

\* The summands of Threads.
Counts ==
  <<callouts["startConnection"], callouts["sendMessage"], callouts["getAccessToken"],
    clients["connecting"], clients["requested"],
    stores["OK"], stores["REJECTED"], stores["FAILED"],
    IF conn = "connecting" THEN 1 ELSE 0,
    IF requested THEN 1 ELSE 0>>

\* What is under way is alone, and there is a message to handle.
LEMMA TheThread ==
  ASSUME Inv
  PROVE  /\ queue = <<>> \/ stopped => \A x \in 1..10 : Counts[x] = 0
         /\ \A x \in 1..10 : Counts[x] > 0 =>
              /\ queue # <<>> /\ ~ stopped
              /\ Counts[x] = 1 /\ \A y \in 1..10 : y # x => Counts[y] = 0
<1> DEFINE a == callouts["startConnection"]  b == callouts["sendMessage"]
           c == callouts["getAccessToken"]   d == clients["connecting"]
           e == clients["requested"]         g == stores["OK"]
           h == stores["REJECTED"]           i == stores["FAILED"]
           j == IF conn = "connecting" THEN 1 ELSE 0
           k == IF requested THEN 1 ELSE 0
           n == IF queue = <<>> \/ stopped THEN 0 ELSE 1
<1>1. /\ a \in Nat /\ b \in Nat /\ c \in Nat /\ d \in Nat /\ e \in Nat
      /\ g \in Nat /\ h \in Nat /\ i \in Nat /\ j \in Nat /\ k \in Nat
  BY DEF Inv, TypeOK, Functions, Stages
<1>2. n \in {0, 1} /\ (n = 0 <=> queue = <<>> \/ stopped)
  OBVIOUS
<1>3. a + b + c + d + e + g + h + i + j + k = n
  BY DEF Inv, OneThread, Threads
<1>4. Counts = <<a, b, c, d, e, g, h, i, j, k>>
  BY DEF Counts
<1> HIDE DEF a, b, c, d, e, g, h, i, j, k, n
\* When ten numbers add up to at most 1, all but one are 0.
<1>5. /\ n = 0 => \A x \in 1..10 : Counts[x] = 0
      /\ \A x \in 1..10 : Counts[x] > 0 =>
           n = 1 /\ Counts[x] = 1 /\ \A y \in 1..10 : y # x => Counts[y] = 0
  BY <1>1, <1>2, <1>3, <1>4
<1> QED
  BY <1>2, <1>5

\* The same, with the parts by name.
LEMMA CountsByName ==
  /\ Counts[1] = callouts["startConnection"] /\ Counts[2] = callouts["sendMessage"]
  /\ Counts[3] = callouts["getAccessToken"]
  /\ Counts[4] = clients["connecting"] /\ Counts[5] = clients["requested"]
  /\ Counts[6] = stores["OK"] /\ Counts[7] = stores["REJECTED"] /\ Counts[8] = stores["FAILED"]
  /\ Counts[9] = IF conn = "connecting" THEN 1 ELSE 0
  /\ Counts[10] = IF requested THEN 1 ELSE 0
BY DEF Counts

\* Without a request under way nothing waits to be charged to queue[0].
LEMMA NoRequest ==
  ASSUME Inv, ~ requested
  PROVE  /\ wire = 0
         /\ \A i \in DOMAIN inbox : inbox[i].type = "disconnected"
         /\ conn \notin {"dead"} => inbox = <<>>
<1>1. wire = 0 /\ \A i \in DOMAIN inbox : inbox[i].type # "response"
  BY DEF Inv, AnswerIsForHead
<1>2. \A i \in DOMAIN inbox : inbox[i] \in Event
  BY DEF Inv, TypeOK
<1>3. \A e \in Event : e.type \in {"response", "disconnected"}
  BY DEF Event
<1>4. \A i \in DOMAIN inbox : inbox[i].type = "disconnected"
  BY <1>1, <1>2, <1>3
<1>5. inbox # <<>> => 1 \in DOMAIN inbox
  BY EmptySeq, LenProperties DEF Inv, TypeOK
<1> QED
  BY <1>1, <1>4, <1>5 DEF Inv, InboxShape

\* sendMessage(), by the only thread there is: a connection attempt, a request, or
\* an error takes its place.
LEMMA SendMessageDoes ==
  ASSUME Inv, ~ requested, conn # "connecting", NEW q \in Seq(Message), q # <<>>,
         ~ stopped, SendMessage(q)
  PROVE  /\ conn' \in {"none", "connecting", "up", "dead"} /\ wire' \in Nat
         /\ inbox' \in Seq(Event) /\ requested' \in BOOLEAN /\ stopped' \in BOOLEAN
         /\ \/ conn' = "connecting" /\ ~ requested' /\ ~ stopped'
            \/ conn' # "connecting" /\ requested' /\ ~ stopped'
            \/ conn' # "connecting" /\ ~ requested' /\ stopped'
         /\ wire' # 0 => requested' /\ Head(q).id = wire'
         /\ \A i \in DOMAIN inbox' : inbox'[i].type = "disconnected"
         /\ InboxShape' /\ WireShape'
<1>1. /\ wire = 0 /\ (\A i \in DOMAIN inbox : inbox[i].type = "disconnected")
      /\ (conn # "dead" => inbox = <<>>)
  BY NoRequest
<1>2. CASE ~ active
  <2>1. conn' = "connecting" /\ inbox' = <<>> /\ wire' = 0 /\ UNCHANGED <<requested, stopped>>
    BY <1>2 DEF SendMessage, StartConnection
  <2>2. DOMAIN inbox' = {}
    BY <2>1
  <2> QED
    BY <2>1, <2>2 DEF InboxShape, WireShape, Inv, TypeOK
<1>3. CASE active /\ Head(q).target = "token"
  <2>1. /\ requested' = TRUE /\ UNCHANGED <<conn, inbox, stopped>>
        /\ wire' = IF conn = "up" THEN Head(q).id ELSE wire
    BY <1>3 DEF SendMessage, Request
  <2>2. Head(q).id \in Nat
    <3>1. Head(q) \in Message
      BY HeadTailProperties
    <3> QED
      BY <3>1 DEF Message
  <2> QED
    BY <1>1, <2>1, <2>2 DEF InboxShape, WireShape, Inv, TypeOK
<1>4. CASE active /\ Head(q).target # "token"
  <2>1. stopped' = TRUE /\ UNCHANGED <<conn, inbox, wire, requested>>
    BY <1>4 DEF SendMessage
  <2> QED
    BY <1>1, <2>1 DEF InboxShape, WireShape, Inv, TypeOK
<1> QED
  BY <1>2, <1>3, <1>4

\* Nothing is in the queue at the start, and nothing is under way.
LEMMA InvInit == Init => Inv
<1> SUFFICES ASSUME Init PROVE Inv
  OBVIOUS
<1>1. TypeOK
  <2>1. queue \in Seq(Message) /\ inbox \in Seq(Event)
    BY EmptySeq DEF Init
  <2>2. /\ callouts \in [Functions -> Nat] /\ clients \in [Stages -> Nat]
        /\ stores \in [{"OK", "REJECTED", "FAILED"} -> Nat]
    BY DEF Init
  <2> QED
    BY <2>1, <2>2 DEF Init, TypeOK
<1>2. OneThread
  BY DEF Init, OneThread, Threads, Functions, Stages
<1>3. DOMAIN inbox = {}
  BY DEF Init
<1> QED
  BY <1>1, <1>2, <1>3 DEF Init, Inv, AnswerIsForHead, InboxShape, WireShape, StopShape

(***************************************************************************)
(* Every step keeps the invariant                                          *)
(***************************************************************************)

\* notify(): one more task that will enqueue a message.
LEMMA InvNotify == ASSUME Inv, NEW target \in Targets, Notify(target) PROVE Inv'
<1> DEFINE new == [id |-> made + 1, attempts |-> ATTEMPTS, target |-> target]
<1>1. /\ made' = made + 1 /\ enqueues' = enqueues \cup {new}
      /\ UNCHANGED <<queue, active, requested, accessToken, conn, wire, inbox,
                     callouts, clients, stores, faults, answered, stopped>>
  BY DEF Notify
<1>2. new \in Message /\ made + 1 \in Nat
  BY ATTEMPTSAssumption DEF Message, Inv, TypeOK
<1> HIDE DEF new
<1>3. TypeOK'
  BY <1>1, <1>2 DEF Inv, TypeOK
<1> QED
  BY <1>1, <1>3 DEF Inv, OneThread, Threads, AnswerIsForHead, InboxShape, WireShape, StopShape

\* enqueue(): the first message starts the sender, any other only joins the queue.
LEMMA InvEnqueue == ASSUME Inv, NEW m \in enqueues, Enqueue(m) PROVE Inv'
<1>1. m \in Message
  BY DEF Inv, TypeOK
<1>2. queue \in Seq(Message)
  BY DEF Inv, TypeOK
<1>3. /\ queue' = Append(queue, m) /\ enqueues' = enqueues \ {m}
      /\ UNCHANGED <<active, accessToken, callouts, stores, made, faults, answered>>
  BY DEF Enqueue
<1>4. queue' \in Seq(Message) /\ queue' # <<>> /\ (queue # <<>> => Head(queue') = Head(queue))
  BY <1>1, <1>2, <1>3, AppendProperties, LenProperties, EmptySeq
<1>5. CASE queue # <<>>
  <2>1. UNCHANGED <<requested, conn, wire, inbox, clients, stopped>>
    BY <1>5 DEF Enqueue
  <2>2. TypeOK'
    BY <1>3, <1>4, <2>1 DEF Inv, TypeOK
  <2>3. OneThread' /\ StopShape'
    BY <1>3, <1>4, <1>5, <2>1 DEF Inv, OneThread, Threads, StopShape
  <2> QED
    BY <1>4, <1>5, <2>1, <2>2, <2>3 DEF Inv, AnswerIsForHead, InboxShape, WireShape
<1>6. CASE queue = <<>>
  <2>1. /\ callouts["startConnection"] = 0 /\ callouts["sendMessage"] = 0
        /\ callouts["getAccessToken"] = 0
        /\ clients["connecting"] = 0 /\ clients["requested"] = 0
        /\ stores["OK"] = 0 /\ stores["REJECTED"] = 0 /\ stores["FAILED"] = 0
        /\ conn # "connecting" /\ ~ requested /\ ~ stopped
    BY <1>6, TheThread, CountsByName DEF Inv, StopShape
  <2>2. CASE ~ accessToken
    <3>1. /\ clients' = [clients EXCEPT !["connecting"] = @ + 1]
          /\ UNCHANGED <<requested, conn, wire, inbox, stopped>>
      BY <1>6, <2>2 DEF Enqueue, GetAccessToken
    <3>2. clients' \in [Stages -> Nat] /\ clients'["connecting"] = 1 /\ clients'["requested"] = 0
      BY <2>1, <3>1 DEF Inv, TypeOK, Stages
    <3>3. TypeOK'
      BY <1>3, <1>4, <3>1, <3>2 DEF Inv, TypeOK
    <3>4. OneThread' /\ StopShape'
      BY <1>3, <1>4, <2>1, <3>1, <3>2 DEF OneThread, Threads, StopShape
    <3>5. wire = 0 /\ \A i \in DOMAIN inbox : inbox[i].type = "disconnected"
      BY <2>1, NoRequest
    <3> QED
      BY <3>1, <3>3, <3>4, <3>5 DEF Inv, AnswerIsForHead, InboxShape, WireShape
  <2>3. CASE accessToken
    <3>1. SendMessage(queue') /\ UNCHANGED clients
      BY <1>6, <2>3 DEF Enqueue
    <3> DEFINE q == queue'
    <3>2. q \in Seq(Message) /\ q # <<>> /\ SendMessage(q)
      BY <1>4, <3>1
    <3> HIDE DEF q
    <3>3. /\ conn' \in {"none", "connecting", "up", "dead"} /\ wire' \in Nat
          /\ inbox' \in Seq(Event) /\ requested' \in BOOLEAN /\ stopped' \in BOOLEAN
          /\ \/ conn' = "connecting" /\ ~ requested' /\ ~ stopped'
             \/ conn' # "connecting" /\ requested' /\ ~ stopped'
             \/ conn' # "connecting" /\ ~ requested' /\ stopped'
          /\ wire' # 0 => requested' /\ Head(q).id = wire'
          /\ \A i \in DOMAIN inbox' : inbox'[i].type = "disconnected"
          /\ InboxShape' /\ WireShape'
      BY <2>1, <3>2, SendMessageDoes
    <3>4. TypeOK'
      BY <1>3, <1>4, <3>1, <3>3 DEF Inv, TypeOK
    <3>5. OneThread'
      BY <1>3, <1>4, <2>1, <3>1, <3>3 DEF OneThread, Threads
    <3> QED
      BY <1>4, <3>3, <3>4, <3>5 DEF Inv, AnswerIsForHead, StopShape, q
  <2> QED
    BY <2>2, <2>3
<1> QED
  BY <1>5, <1>6

\* A task of startConnection(): the thread goes on as a connection attempt.
LEMMA InvStartConnectionTask == ASSUME Inv, StartConnectionTask PROVE Inv'
<1>1. /\ callouts["startConnection"] > 0
      /\ callouts' = [callouts EXCEPT !["startConnection"] = @ - 1]
      /\ conn' = "connecting" /\ inbox' = <<>> /\ wire' = 0
      /\ UNCHANGED <<queue, active, requested, accessToken, enqueues, clients, stores,
                     made, faults, answered, stopped>>
  BY DEF StartConnectionTask, Take, Taken, StartConnection, histVars
<1>2. /\ queue # <<>> /\ ~ stopped /\ ~ requested
      /\ callouts["startConnection"] = 1 /\ callouts["sendMessage"] = 0
      /\ callouts["getAccessToken"] = 0
      /\ clients["connecting"] = 0 /\ clients["requested"] = 0
      /\ stores["OK"] = 0 /\ stores["REJECTED"] = 0 /\ stores["FAILED"] = 0
  BY <1>1, TheThread, CountsByName
<1>3. /\ callouts' \in [Functions -> Nat]
      /\ callouts'["startConnection"] = 0 /\ callouts'["sendMessage"] = 0
      /\ callouts'["getAccessToken"] = 0
  BY <1>1, <1>2 DEF Inv, TypeOK, Functions
<1>4. inbox' \in Seq(Event) /\ DOMAIN inbox' = {}
  BY <1>1, EmptySeq
<1>5. TypeOK'
  BY <1>1, <1>3, <1>4 DEF Inv, TypeOK
<1>6. OneThread'
  BY <1>1, <1>2, <1>3 DEF OneThread, Threads
<1> QED
  BY <1>1, <1>2, <1>4, <1>5, <1>6 DEF Inv, AnswerIsForHead, InboxShape, WireShape, StopShape

\* started(): the connection attempt becomes a task, or another attempt.
LEMMA InvStarted == ASSUME Inv, Started \/ StartFailed PROVE Inv'
<1>1. PICK f \in {"startConnection", "sendMessage"} :
        callouts' = [callouts EXCEPT ![f] = @ + 1]
  BY DEF Started, StartFailed, CallOut
<1>2. /\ conn = "connecting" /\ conn' \in {"up", "none"} /\ active' \in BOOLEAN
      /\ faults' \in Nat
      /\ UNCHANGED <<queue, requested, accessToken, wire, inbox, enqueues, clients, stores,
                     made, answered, stopped>>
  <2>1. CASE Started
    BY <2>1 DEF Started, histVars, Inv, TypeOK
  <2>2. CASE StartFailed
    BY <2>2 DEF StartFailed, Fault, Inv, TypeOK
  <2> QED
    BY <2>1, <2>2
<1>3. /\ queue # <<>> /\ ~ stopped /\ ~ requested
      /\ callouts["startConnection"] = 0 /\ callouts["sendMessage"] = 0
      /\ callouts["getAccessToken"] = 0
      /\ clients["connecting"] = 0 /\ clients["requested"] = 0
      /\ stores["OK"] = 0 /\ stores["REJECTED"] = 0 /\ stores["FAILED"] = 0
  BY <1>2, TheThread, CountsByName
<1>4. /\ callouts' \in [Functions -> Nat] /\ callouts'["getAccessToken"] = 0
      /\ \/ callouts'["startConnection"] = 1 /\ callouts'["sendMessage"] = 0
         \/ callouts'["startConnection"] = 0 /\ callouts'["sendMessage"] = 1
  BY <1>1, <1>3 DEF Inv, TypeOK, Functions
<1>5. inbox = <<>> /\ DOMAIN inbox = {} /\ wire = 0
  BY <1>2 DEF Inv, InboxShape, WireShape
<1>6. TypeOK'
  BY <1>2, <1>4 DEF Inv, TypeOK
<1>7. OneThread'
  BY <1>2, <1>3, <1>4 DEF OneThread, Threads
<1> QED
  BY <1>2, <1>3, <1>5, <1>6, <1>7 DEF Inv, AnswerIsForHead, InboxShape, WireShape, StopShape

\* A task of sendMessage().
LEMMA InvSendMessageTask == ASSUME Inv, SendMessageTask PROVE Inv'
<1>1. /\ callouts["sendMessage"] > 0
      /\ callouts' = [callouts EXCEPT !["sendMessage"] = @ - 1]
      /\ SendMessage(queue)
      /\ UNCHANGED <<queue, active, accessToken, enqueues, clients, stores, made, faults,
                     answered>>
  BY DEF SendMessageTask, Take, Taken
<1>2. /\ queue # <<>> /\ ~ stopped /\ ~ requested /\ conn # "connecting"
      /\ callouts["startConnection"] = 0 /\ callouts["sendMessage"] = 1
      /\ callouts["getAccessToken"] = 0
      /\ clients["connecting"] = 0 /\ clients["requested"] = 0
      /\ stores["OK"] = 0 /\ stores["REJECTED"] = 0 /\ stores["FAILED"] = 0
  BY <1>1, TheThread, CountsByName
<1>3. /\ callouts' \in [Functions -> Nat]
      /\ callouts'["startConnection"] = 0 /\ callouts'["sendMessage"] = 0
      /\ callouts'["getAccessToken"] = 0
  BY <1>1, <1>2 DEF Inv, TypeOK, Functions
<1>4. queue \in Seq(Message)
  BY DEF Inv, TypeOK
<1>5. /\ conn' \in {"none", "connecting", "up", "dead"} /\ wire' \in Nat
      /\ inbox' \in Seq(Event) /\ requested' \in BOOLEAN /\ stopped' \in BOOLEAN
      /\ \/ conn' = "connecting" /\ ~ requested' /\ ~ stopped'
         \/ conn' # "connecting" /\ requested' /\ ~ stopped'
         \/ conn' # "connecting" /\ ~ requested' /\ stopped'
      /\ wire' # 0 => requested' /\ Head(queue).id = wire'
      /\ \A i \in DOMAIN inbox' : inbox'[i].type = "disconnected"
      /\ InboxShape' /\ WireShape'
  BY <1>1, <1>2, <1>4, SendMessageDoes
<1>6. TypeOK'
  BY <1>1, <1>3, <1>5 DEF Inv, TypeOK
<1>7. OneThread'
  BY <1>1, <1>2, <1>3, <1>5 DEF OneThread, Threads
<1> QED
  BY <1>1, <1>2, <1>5, <1>6, <1>7 DEF Inv, AnswerIsForHead, StopShape

\* Firebase answers: the request moves from the wire to the inbox.
LEMMA InvAnswer == ASSUME Inv, NEW code \in Answers, Answer(code) PROVE Inv'
<1> DEFINE new == [type |-> "response", code |-> code, id |-> wire]
<1>1. /\ conn = "up" /\ wire # 0 /\ wire' = 0 /\ faults' \in Nat
      /\ inbox' = Append(inbox, new)
      /\ UNCHANGED <<queue, active, requested, accessToken, conn, enqueues, callouts,
                     clients, stores, made, answered, stopped>>
  BY DEF Answer, Fault, taskVars, Inv, TypeOK
<1>2. new \in Event /\ new.type = "response" /\ new.id = wire
  BY DEF Event, Inv, TypeOK
<1> HIDE DEF new
<1>3. inbox = <<>> /\ requested /\ queue # <<>> /\ Head(queue).id = wire
  BY <1>1 DEF Inv, WireShape, AnswerIsForHead
<1>4. inbox' \in Seq(Event) /\ DOMAIN inbox' = {1} /\ inbox'[1] = new
  <2>1. inbox' = <<new>>
    BY <1>1, <1>3
  <2> QED
    BY <1>2, <2>1
<1>5. TypeOK'
  BY <1>1, <1>4 DEF Inv, TypeOK
<1>6. OneThread' /\ StopShape'
  BY <1>1 DEF Inv, OneThread, Threads, StopShape
<1> QED
  BY <1>1, <1>2, <1>3, <1>4, <1>5, <1>6 DEF Inv, AnswerIsForHead, InboxShape, WireShape

\* The TLS connection ends: the last event of its inbox.
LEMMA InvDrop == ASSUME Inv, Drop PROVE Inv'
<1> DEFINE new == [type |-> "disconnected"]
<1>1. /\ conn = "up" /\ conn' = "dead" /\ wire' = 0 /\ faults' \in Nat
      /\ inbox' = Append(inbox, new)
      /\ UNCHANGED <<queue, active, requested, accessToken, enqueues, callouts, clients,
                     stores, made, answered, stopped>>
  BY DEF Drop, Fault, taskVars, Inv, TypeOK
<1>2. new \in Event /\ new.type = "disconnected"
  BY DEF Event
<1> HIDE DEF new
<1>3. /\ inbox' \in Seq(Event)
      /\ \A i \in DOMAIN inbox' :
           \/ i \in DOMAIN inbox /\ inbox'[i] = inbox[i]
           \/ inbox'[i] = new
  <2>1. inbox \in Seq(Event)
    BY DEF Inv, TypeOK
  <2>2. /\ inbox' \in Seq(Event) /\ Len(inbox') = Len(inbox) + 1
        /\ \A i \in 1..Len(inbox) : inbox'[i] = inbox[i]
        /\ inbox'[Len(inbox) + 1] = new
    BY <1>1, <1>2, <2>1, AppendProperties
  <2>3. DOMAIN inbox = 1..Len(inbox) /\ DOMAIN inbox' = 1..Len(inbox') /\ Len(inbox) \in Nat
    BY <2>1, <2>2, LenProperties
  <2> QED
    BY <2>2, <2>3
<1>4. TypeOK'
  BY <1>1, <1>3 DEF Inv, TypeOK
<1>5. OneThread' /\ StopShape'
  BY <1>1 DEF Inv, OneThread, Threads, StopShape
<1>6. InboxShape'
  BY <1>1, <1>2, <1>3 DEF Inv, InboxShape
<1>7. AnswerIsForHead' /\ WireShape'
  BY <1>1, <1>2, <1>3 DEF Inv, AnswerIsForHead, WireShape
<1> QED
  BY <1>4, <1>5, <1>6, <1>7 DEF Inv

\* The first event is taken from the inbox; no response is left.
LEMMA EventTaken ==
  ASSUME Inv, inbox # <<>>, inbox' = Tail(inbox), UNCHANGED <<conn, wire>>
  PROVE  /\ wire = 0
         /\ inbox' \in Seq(Event)
         /\ \A i \in DOMAIN inbox' : inbox'[i].type # "response"
         /\ InboxShape' /\ WireShape'
<1>1. inbox \in Seq(Event)
  BY DEF Inv, TypeOK
<1>2. /\ inbox' \in Seq(Event) /\ Len(inbox') = Len(inbox) - 1
      /\ \A i \in 1..Len(inbox') : inbox'[i] = inbox[i + 1]
  BY <1>1, HeadTailProperties
<1>3. DOMAIN inbox = 1..Len(inbox) /\ DOMAIN inbox' = 1..Len(inbox') /\ Len(inbox) \in Nat
  BY <1>1, <1>2, LenProperties
<1>4. \A i \in DOMAIN inbox' : i + 1 \in DOMAIN inbox /\ inbox'[i] = inbox[i + 1] /\ i + 1 # 1
  BY <1>2, <1>3
<1>5. wire = 0
  BY DEF Inv, WireShape
<1> QED
  BY <1>2, <1>4, <1>5 DEF Inv, InboxShape, WireShape

\* response(): the request ends, and the next task is queued if there is more to do.
LEMMA InvResponse == ASSUME Inv, Response PROVE Inv'
<1> DEFINE ev == Head(inbox)
<1>1. /\ inbox # <<>> /\ ev.type = "response" /\ inbox' = Tail(inbox) /\ requested' = FALSE
      /\ UNCHANGED <<active, accessToken, conn, wire, enqueues, clients, stores, made, faults,
                     stopped>>
  BY DEF Response
<1>2. /\ wire = 0 /\ inbox' \in Seq(Event)
      /\ \A i \in DOMAIN inbox' : inbox'[i].type # "response"
      /\ InboxShape' /\ WireShape'
  BY <1>1, EventTaken
<1>3. requested /\ queue # <<>>
  <2>1. 1 \in DOMAIN inbox /\ inbox[1] = ev
    BY <1>1, EmptySeq, LenProperties DEF Inv, TypeOK
  <2> QED
    BY <1>1, <2>1 DEF Inv, AnswerIsForHead
<1>4. /\ ~ stopped /\ conn # "connecting"
      /\ callouts["startConnection"] = 0 /\ callouts["sendMessage"] = 0
      /\ callouts["getAccessToken"] = 0
      /\ clients["connecting"] = 0 /\ clients["requested"] = 0
      /\ stores["OK"] = 0 /\ stores["REJECTED"] = 0 /\ stores["FAILED"] = 0
  BY <1>3, TheThread, CountsByName
<1>5. queue \in Seq(Message) /\ Head(queue) \in Message /\ Tail(queue) \in Seq(Message)
  BY <1>3, HeadTailProperties DEF Inv, TypeOK
<1>6. Head(queue).id \in Nat
  BY <1>5 DEF Message
<1>7. /\ queue' \in Seq(Message) /\ answered' \subseteq Nat
      /\ \/ queue' = <<>> /\ UNCHANGED callouts
         \/ queue' # <<>> /\ \E f \in {"sendMessage", "getAccessToken"} :
                                callouts' = [callouts EXCEPT ![f] = @ + 1]
  <2>1. CASE Finished(ev.code)
    <3>1. queue' = Tail(queue) /\ answered' = answered \cup {Head(queue).id}
          /\ IF Tail(queue) # <<>> THEN CallOut("sendMessage") ELSE UNCHANGED callouts
      BY <2>1 DEF Response
    <3> QED
      BY <1>5, <1>6, <3>1 DEF CallOut, Inv, TypeOK
  <2>2. CASE ~ Finished(ev.code)
    <3>1. /\ queue' = IF ev.code = "NOT_FOUND"
                      THEN [queue EXCEPT ![1].attempts = @ - 1] ELSE queue
          /\ UNCHANGED answered
          /\ CallOut(IF ev.code = "UNAUTHORIZED" THEN "getAccessToken" ELSE "sendMessage")
      BY <2>2 DEF Response
    <3>2. queue' \in Seq(Message) /\ queue' # <<>>
      <4>1. CASE ev.code # "NOT_FOUND"
        BY <1>3, <1>5, <3>1, <4>1
      <4>2. CASE ev.code = "NOT_FOUND"
        <5> DEFINE m == [queue[1] EXCEPT !.attempts = @ - 1]
        <5>1. queue[1] = Head(queue) /\ 1 \in 1..Len(queue)
          BY <1>3, <1>5, EmptySeq
        <5>2. ~ (Head(queue).attempts <= 1)
          BY <2>2, <4>2 DEF Finished
        <5>3. m \in Message
          <6>1. queue[1] \in Message /\ ~ (queue[1].attempts <= 1)
            BY <1>5, <5>1, <5>2
          <6>2. queue[1].attempts - 1 \in 1..ATTEMPTS
            BY <6>1, ATTEMPTSAssumption DEF Message
          <6> QED
            BY <6>1, <6>2 DEF Message
        <5>4. queue' = [queue EXCEPT ![1] = m]
          BY <3>1, <4>2
        <5> HIDE DEF m
        <5>5. queue' \in Seq(Message) /\ Len(queue') = Len(queue)
          BY <1>5, <5>1, <5>3, <5>4, ExceptSeq
        <5> QED
          BY <5>1, <5>5
      <4> QED
        BY <4>1, <4>2
    <3> QED
      BY <3>1, <3>2 DEF CallOut, Inv, TypeOK
  <2> QED
    BY <2>1, <2>2
<1>8. /\ callouts' \in [Functions -> Nat] /\ callouts'["startConnection"] = 0
      /\ callouts'["sendMessage"] + callouts'["getAccessToken"]
           = IF queue' = <<>> THEN 0 ELSE 1
      /\ callouts'["sendMessage"] \in {0, 1} /\ callouts'["getAccessToken"] \in {0, 1}
  <2>1. CASE queue' = <<>>
    BY <1>4, <1>7, <2>1 DEF Inv, TypeOK, Functions
  <2>2. CASE queue' # <<>>
    <3>1. PICK f \in {"sendMessage", "getAccessToken"} :
            callouts' = [callouts EXCEPT ![f] = @ + 1]
      BY <1>7, <2>2
    <3>2. /\ callouts' \in [Functions -> Nat] /\ callouts'["startConnection"] = 0
          /\ \/ callouts'["sendMessage"] = 1 /\ callouts'["getAccessToken"] = 0
             \/ callouts'["sendMessage"] = 0 /\ callouts'["getAccessToken"] = 1
      BY <1>4, <3>1 DEF Inv, TypeOK, Functions
    <3> QED
      BY <2>2, <3>2
  <2> QED
    BY <2>1, <2>2
<1>9. TypeOK'
  BY <1>1, <1>2, <1>7, <1>8 DEF Inv, TypeOK
<1>10. OneThread'
  BY <1>1, <1>4, <1>8 DEF OneThread, Threads
<1>11. AnswerIsForHead' /\ StopShape'
  BY <1>1, <1>2, <1>4 DEF AnswerIsForHead, StopShape
<1> QED
  BY <1>2, <1>9, <1>10, <1>11 DEF Inv

\* close(): a request that was under way becomes a connection attempt.
LEMMA InvClose == ASSUME Inv, Close PROVE Inv'
<1>1. /\ inbox # <<>> /\ inbox' = Tail(inbox)
      /\ active' = FALSE /\ requested' = FALSE
      /\ IF requested THEN callouts' = [callouts EXCEPT !["startConnection"] = @ + 1]
                      ELSE UNCHANGED callouts
      /\ UNCHANGED <<queue, accessToken, conn, wire, enqueues, clients, stores,
                     made, faults, answered, stopped>>
  BY DEF Close, CallOut, histVars
<1>2. /\ wire = 0 /\ inbox' \in Seq(Event)
      /\ \A i \in DOMAIN inbox' : inbox'[i].type # "response"
      /\ InboxShape' /\ WireShape'
  BY <1>1, EventTaken
<1>3. callouts' \in [Functions -> Nat]
  BY <1>1 DEF Inv, TypeOK, Functions
<1>4. TypeOK'
  BY <1>1, <1>2, <1>3 DEF Inv, TypeOK
<1>5. OneThread'
  <2>1. CASE requested
    <3>1. /\ queue # <<>> /\ ~ stopped /\ conn # "connecting"
          /\ callouts["startConnection"] = 0 /\ callouts["sendMessage"] = 0
          /\ callouts["getAccessToken"] = 0
          /\ clients["connecting"] = 0 /\ clients["requested"] = 0
          /\ stores["OK"] = 0 /\ stores["REJECTED"] = 0 /\ stores["FAILED"] = 0
      BY <2>1, TheThread, CountsByName
    <3>2. /\ callouts'["startConnection"] = 1 /\ callouts'["sendMessage"] = 0
          /\ callouts'["getAccessToken"] = 0
      BY <1>1, <2>1, <3>1 DEF Inv, TypeOK, Functions
    <3> QED
      BY <1>1, <3>1, <3>2 DEF OneThread, Threads
  <2>2. CASE ~ requested
    BY <1>1, <2>2 DEF Inv, OneThread, Threads
  <2> QED
    BY <2>1, <2>2
<1>6. AnswerIsForHead' /\ StopShape'
  BY <1>1, <1>2 DEF Inv, AnswerIsForHead, StopShape
<1> QED
  BY <1>2, <1>4, <1>5, <1>6 DEF Inv

\* Steps that touch neither queue nor connection keep all but types and threads.
LEMMA TokenStep ==
  ASSUME Inv, UNCHANGED <<queue, requested, conn, wire, inbox, stopped>>
  PROVE  AnswerIsForHead' /\ InboxShape' /\ WireShape' /\ StopShape'
BY DEF Inv, AnswerIsForHead, InboxShape, WireShape, StopShape

\* A task of getAccessToken(): the thread goes on as a one-shot client.
LEMMA InvGetAccessTokenTask == ASSUME Inv, GetAccessTokenTask PROVE Inv'
<1>1. /\ callouts["getAccessToken"] > 0
      /\ callouts' = [callouts EXCEPT !["getAccessToken"] = @ - 1]
      /\ clients' = [clients EXCEPT !["connecting"] = @ + 1]
      /\ UNCHANGED <<queue, active, requested, accessToken, conn, wire, inbox, enqueues,
                     stores, made, faults, answered, stopped>>
  BY DEF GetAccessTokenTask, Take, Taken, GetAccessToken, histVars
<1>2. /\ queue # <<>> /\ ~ stopped /\ ~ requested /\ conn # "connecting"
      /\ callouts["startConnection"] = 0 /\ callouts["sendMessage"] = 0
      /\ callouts["getAccessToken"] = 1
      /\ clients["connecting"] = 0 /\ clients["requested"] = 0
      /\ stores["OK"] = 0 /\ stores["REJECTED"] = 0 /\ stores["FAILED"] = 0
  BY <1>1, TheThread, CountsByName
<1>3. /\ callouts' \in [Functions -> Nat] /\ clients' \in [Stages -> Nat]
      /\ callouts'["startConnection"] = 0 /\ callouts'["sendMessage"] = 0
      /\ callouts'["getAccessToken"] = 0
      /\ clients'["connecting"] = 1 /\ clients'["requested"] = 0
  BY <1>1, <1>2 DEF Inv, TypeOK, Functions, Stages
<1>4. TypeOK'
  BY <1>1, <1>3 DEF Inv, TypeOK
<1>5. OneThread'
  BY <1>1, <1>2, <1>3 DEF OneThread, Threads
<1> QED
  BY <1>1, <1>4, <1>5, TokenStep DEF Inv

\* oneshot.c created(): the client is connected.
LEMMA InvTokenRequested == ASSUME Inv, TokenRequested PROVE Inv'
<1>1. /\ clients["connecting"] > 0
      /\ clients' = [clients EXCEPT !["connecting"] = @ - 1, !["requested"] = @ + 1]
      /\ UNCHANGED <<queue, active, requested, accessToken, conn, wire, inbox, enqueues,
                     callouts, stores, made, faults, answered, stopped>>
  BY DEF TokenRequested, histVars
<1>2. /\ queue # <<>> /\ ~ stopped /\ ~ requested /\ conn # "connecting"
      /\ callouts["startConnection"] = 0 /\ callouts["sendMessage"] = 0
      /\ callouts["getAccessToken"] = 0
      /\ clients["connecting"] = 1 /\ clients["requested"] = 0
      /\ stores["OK"] = 0 /\ stores["REJECTED"] = 0 /\ stores["FAILED"] = 0
  BY <1>1, TheThread, CountsByName
<1>3. /\ clients' \in [Stages -> Nat]
      /\ clients'["connecting"] = 0 /\ clients'["requested"] = 1
  BY <1>1, <1>2 DEF Inv, TypeOK, Stages
<1>4. TypeOK'
  BY <1>1, <1>3 DEF Inv, TypeOK
<1>5. OneThread'
  BY <1>1, <1>2, <1>3 DEF OneThread, Threads
<1> QED
  BY <1>1, <1>4, <1>5, TokenStep DEF Inv

\* oneshot.c: the client ends with one answer.
LEMMA InvTokenAnswer ==
  ASSUME Inv, NEW at \in Stages, NEW code \in TokenCodes, TokenAnswer(at, code)
  PROVE  Inv'
<1>1. /\ clients[at] > 0
      /\ clients' = [clients EXCEPT ![at] = @ - 1]
      /\ stores' = [stores EXCEPT ![code] = @ + 1]
      /\ UNCHANGED <<queue, active, requested, accessToken, conn, wire, inbox, enqueues,
                     callouts, made, answered, stopped>>
  BY DEF TokenAnswer
<1>2. faults' \in Nat
  BY DEF TokenAnswer, Fault, Inv, TypeOK
<1>3. at \in {"connecting", "requested"} /\ code \in {"OK", "REJECTED", "FAILED"}
  BY TokenCodesAssumption DEF Stages
<1>4. /\ queue # <<>> /\ ~ stopped /\ ~ requested /\ conn # "connecting"
      /\ callouts["startConnection"] = 0 /\ callouts["sendMessage"] = 0
      /\ callouts["getAccessToken"] = 0
      /\ clients[at] = 1
      /\ \A s \in {"connecting", "requested"} : s # at => clients[s] = 0
      /\ stores["OK"] = 0 /\ stores["REJECTED"] = 0 /\ stores["FAILED"] = 0
  BY <1>1, <1>3, TheThread, CountsByName
<1>5. /\ clients' \in [Stages -> Nat]
      /\ clients'["connecting"] = 0 /\ clients'["requested"] = 0
  BY <1>1, <1>3, <1>4 DEF Inv, TypeOK, Stages
<1>6. /\ stores' \in [{"OK", "REJECTED", "FAILED"} -> Nat]
      /\ \A c \in {"OK", "REJECTED", "FAILED"} : stores'[c] = IF c = code THEN 1 ELSE 0
  BY <1>1, <1>3, <1>4 DEF Inv, TypeOK
<1>7. stores'["OK"] + stores'["REJECTED"] + stores'["FAILED"] = 1
      /\ stores'["OK"] \in {0, 1} /\ stores'["REJECTED"] \in {0, 1} /\ stores'["FAILED"] \in {0, 1}
  BY <1>3, <1>6
<1>8. TypeOK'
  BY <1>1, <1>2, <1>5, <1>6 DEF Inv, TypeOK
<1>9. OneThread'
  <2>1. /\ queue' # <<>> /\ ~ stopped' /\ ~ requested' /\ conn' # "connecting"
        /\ callouts'["startConnection"] = 0 /\ callouts'["sendMessage"] = 0
        /\ callouts'["getAccessToken"] = 0
    BY <1>1, <1>4
  <2> QED
    BY <1>5, <1>7, <2>1 DEF OneThread, Threads
<1> QED
  BY <1>1, <1>8, <1>9, TokenStep DEF Inv

\* storeAccessToken(): the message is sent, the sender stops, or another request
\* for a token is queued.
LEMMA InvStoreAccessToken ==
  ASSUME Inv, NEW code \in TokenCodes, StoreAccessToken(code)
  PROVE  Inv'
<1>1. /\ stores[code] > 0
      /\ stores' = [stores EXCEPT ![code] = @ - 1]
      /\ UNCHANGED <<queue, active, enqueues, clients, made, faults, answered>>
  BY DEF StoreAccessToken
<1>2. code \in {"OK", "REJECTED", "FAILED"}
  BY TokenCodesAssumption
<1>3. /\ queue # <<>> /\ ~ stopped /\ ~ requested /\ conn # "connecting"
      /\ callouts["startConnection"] = 0 /\ callouts["sendMessage"] = 0
      /\ callouts["getAccessToken"] = 0
      /\ clients["connecting"] = 0 /\ clients["requested"] = 0
      /\ stores[code] = 1
      /\ \A c \in {"OK", "REJECTED", "FAILED"} : c # code => stores[c] = 0
  BY <1>1, <1>2, TheThread, CountsByName
<1>4. /\ stores' \in [{"OK", "REJECTED", "FAILED"} -> Nat]
      /\ stores'["OK"] = 0 /\ stores'["REJECTED"] = 0 /\ stores'["FAILED"] = 0
  BY <1>1, <1>2, <1>3 DEF Inv, TypeOK
<1>5. queue \in Seq(Message)
  BY DEF Inv, TypeOK
<1>6. CASE code = "OK"
  <2>1. accessToken' = TRUE /\ SendMessage(queue) /\ UNCHANGED callouts
    BY <1>6 DEF StoreAccessToken
  <2>2. /\ conn' \in {"none", "connecting", "up", "dead"} /\ wire' \in Nat
        /\ inbox' \in Seq(Event) /\ requested' \in BOOLEAN /\ stopped' \in BOOLEAN
        /\ \/ conn' = "connecting" /\ ~ requested' /\ ~ stopped'
           \/ conn' # "connecting" /\ requested' /\ ~ stopped'
           \/ conn' # "connecting" /\ ~ requested' /\ stopped'
        /\ wire' # 0 => requested' /\ Head(queue).id = wire'
        /\ \A i \in DOMAIN inbox' : inbox'[i].type = "disconnected"
        /\ InboxShape' /\ WireShape'
    BY <1>3, <1>5, <2>1, SendMessageDoes
  <2>3. TypeOK'
    BY <1>1, <1>4, <2>1, <2>2 DEF Inv, TypeOK
  <2>4. OneThread'
    <3>1. /\ queue' # <<>>
          /\ callouts'["startConnection"] = 0 /\ callouts'["sendMessage"] = 0
          /\ callouts'["getAccessToken"] = 0
          /\ clients'["connecting"] = 0 /\ clients'["requested"] = 0
      BY <1>1, <1>3, <2>1
    <3> QED
      BY <1>4, <2>2, <3>1 DEF OneThread, Threads
  <2> QED
    BY <1>1, <1>3, <2>2, <2>3, <2>4 DEF Inv, AnswerIsForHead, StopShape
<1>7. CASE code = "REJECTED"
  <2>1. stopped' = TRUE /\ UNCHANGED <<requested, accessToken, conn, wire, inbox, callouts>>
    BY <1>7 DEF StoreAccessToken
  <2>2. TypeOK'
    BY <1>1, <1>4, <2>1 DEF Inv, TypeOK
  <2>3. OneThread'
    <3>1. /\ stopped' /\ ~ requested' /\ conn' # "connecting"
          /\ callouts'["startConnection"] = 0 /\ callouts'["sendMessage"] = 0
          /\ callouts'["getAccessToken"] = 0
          /\ clients'["connecting"] = 0 /\ clients'["requested"] = 0
      BY <1>1, <1>3, <2>1
    <3> QED
      BY <1>4, <3>1 DEF OneThread, Threads
  <2> QED
    BY <1>1, <1>3, <2>1, <2>2, <2>3 DEF Inv, AnswerIsForHead, InboxShape, WireShape, StopShape
<1>8. CASE code = "FAILED"
  <2>1. /\ callouts' = [callouts EXCEPT !["getAccessToken"] = @ + 1]
        /\ UNCHANGED <<requested, accessToken, conn, wire, inbox, stopped>>
    BY <1>8 DEF StoreAccessToken, CallOut
  <2>2. /\ callouts' \in [Functions -> Nat]
        /\ callouts'["startConnection"] = 0 /\ callouts'["sendMessage"] = 0
        /\ callouts'["getAccessToken"] = 1
    BY <1>3, <2>1 DEF Inv, TypeOK, Functions
  <2>3. TypeOK'
    BY <1>1, <1>4, <2>1, <2>2 DEF Inv, TypeOK
  <2>4. OneThread'
    <3>1. /\ queue' # <<>> /\ ~ stopped' /\ ~ requested' /\ conn' # "connecting"
          /\ clients'["connecting"] = 0 /\ clients'["requested"] = 0
      BY <1>1, <1>3, <2>1
    <3> QED
      BY <1>4, <2>2, <3>1 DEF OneThread, Threads
  <2> QED
    BY <1>1, <2>1, <2>3, <2>4, TokenStep DEF Inv
<1> QED
  BY <1>2, <1>6, <1>7, <1>8

\* Inv is inductive.
LEMMA InvStep == Inv /\ [Next]_vars => Inv'
<1> SUFFICES ASSUME Inv, [Next]_vars PROVE Inv'
  OBVIOUS
<1>1. ASSUME NEW target \in Targets, Notify(target) PROVE Inv'
  BY <1>1, InvNotify
<1>2. ASSUME NEW m \in enqueues, Enqueue(m) PROVE Inv'
  BY <1>2, InvEnqueue
<1>3. CASE Tasks
  BY <1>2, <1>3, InvStartConnectionTask, InvSendMessageTask, InvResponse, InvClose,
     InvGetAccessTokenTask, InvStoreAccessToken DEF Tasks
<1>4. CASE Remote
  BY <1>4, InvStarted, InvAnswer, InvTokenRequested, InvTokenAnswer DEF Remote
<1>5. CASE UNCHANGED vars
  <2>1. UNCHANGED <<queue, active, requested, accessToken, conn, wire, inbox, enqueues,
                    callouts, clients, stores, made, faults, answered, stopped>>
    BY <1>5 DEF vars, taskVars, histVars
  <2>2. TypeOK'
    BY <2>1 DEF Inv, TypeOK
  <2>3. OneThread'
    BY <2>1 DEF Inv, OneThread, Threads
  <2> QED
    BY <2>1, <2>2, <2>3, TokenStep DEF Inv
<1> QED
  BY <1>1, <1>3, <1>4, <1>5, InvDrop DEF Next

\* Inv holds in every reachable state.
LEMMA InvAlways == Spec => []Inv
BY InvInit, InvStep, PTL DEF Spec

(***************************************************************************)
(* The theorems                                                            *)
(***************************************************************************)

\* Type correctness; a message in the queue always has an attempt left, though
\* response() only counts down.
THEOREM TypeCorrect == Spec => []TypeOK
<1>1. Inv => TypeOK
  BY DEF Inv
<1> QED
  BY <1>1, InvAlways, PTL

\* Whatever the connection, Firebase and the token service do, fcm_sender.c has
\* one thing under way for a queue that is not empty, and none for an empty one.
THEOREM OneThreadAlways == Spec => []OneThread
<1>1. Inv => OneThread
  BY DEF Inv
<1> QED
  BY <1>1, InvAlways, PTL

\* response() never charges an answer to a message that it was not for, not even
\* after reconnecting with an answer outstanding.
THEOREM AnswersMatch == Spec => []AnswerIsForHead
<1>1. Inv => AnswerIsForHead
  BY DEF Inv
<1> QED
  BY <1>1, InvAlways, PTL

(***************************************************************************)
(* The benchmark                                                           *)
(***************************************************************************)

\* A number and its quotient
LEMMA Quotient ==
  ASSUME NEW s \in Int, s > 0, NEW b \in Int, b % s = 0
  PROVE  b \div s \in Int /\ b = s * (b \div s)
  OBVIOUS

\* A number of steps that has not reached one that is a whole number of steps can take
\* another one.
LEMMA NextMultiple ==
  ASSUME NEW s \in Nat \ {0}, NEW a \in Nat, NEW b \in Nat, b % s = 0,
         NEW k \in Nat, a = k * s, a < b
  PROVE  a + s <= b /\ a + s = (k + 1) * s
<1>1. s \in Int /\ s > 0 /\ b \in Int
  OBVIOUS
<1>2. PICK q \in Int : b = s * q
  BY <1>1, Quotient
<1>3. ASSUME q <= k PROVE FALSE
  <2>1. s * q <= s * k
    BY <1>1, <1>3
  <2> QED
    BY <1>1, <1>2, <2>1
<1>4. k + 1 <= q
  BY <1>3
<1>5. s * (k + 1) <= s * q
  BY <1>1, <1>4
<1>6. s * (k + 1) = k * s + s /\ (k + 1) * s = k * s + s
  BY <1>1
<1> QED
  BY <1>1, <1>2, <1>5, <1>6

\* The correspondents of a client are put in a sequence.
LEMMA CorrespondentsInSequence ==
  ASSUME NEW S \in B!Correspondents
  PROVE  B!SetToSeq(S) \in Seq(B!Client)
<1>1. S \subseteq B!Client
  BY DEF B!Correspondents
<1>2. IsFiniteSet(S)
  <2>1. CLIENTS \in Int
    BY NumbersAssumption
  <2>2. IsFiniteSet(B!Client)
    BY <2>1, FS_Interval DEF B!Client
  <2> QED
    BY <1>1, <2>2, FS_Subset
<1>3. Cardinality(S) \in Nat /\ ExistsBijection(1..Cardinality(S), S)
  BY <1>2, FS_CardinalityType
<1>4. PICK f \in [1..Cardinality(S) -> S] : IsInjective(f)
  BY <1>3 DEF ExistsBijection, Bijection, Injection
<1>5. B!Cardinality(S) = Cardinality(S)
  BY DEF B!Cardinality, Cardinality
<1>6. B!IsInjective(f)
  BY <1>4 DEF B!IsInjective, IsInjective
<1>7. B!SetToSeq(S) \in [1..Cardinality(S) -> S]
  BY <1>4, <1>5, <1>6 DEF B!SetToSeq
<1> QED
  BY <1>1, <1>3, <1>7, SeqDef

\* The fields of a client.
ClientFields ==
  {"connected", "started", "websocket", "handle", "reading", "inbox", "chunk", "outgoing",
   "todo"}

\* The senders that setup() has started, and those of them that have no correspondent left.
StartedSenders == IF stage.fn = "build" THEN {} ELSE 1..stage.num
FinishedSenders == {c \in StartedSenders : client[c].todo = <<>>}

\* build() makes a whole number of steps, and so does setup(), for which all clients exist.
StageInv ==
  /\ stage = [fn |-> stage.fn, num |-> stage.num]
  /\ stage.fn \in {"build", "setup", "none"} /\ stage.num \in Nat
  /\ stage.fn = "build" =>
       /\ stage.num < ACCOUNTS /\ \E k \in Nat : stage.num = k * BuildStep
       /\ DOMAIN client = (1..stage.num) \cap B!Client
  /\ stage.fn # "build" => DOMAIN client = B!Client /\ stage.num <= SENDERS
  /\ stage.fn = "setup" => stage.num < SENDERS /\ \E k \in Nat : stage.num = k * SetupStep
  /\ stage.fn = "none" => stage.num = SENDERS

\* Only senders that were started have correspondents.
ClientOK(c, o, started) ==
  /\ o = [f \in ClientFields |-> o[f]]
  /\ o.todo \in Seq(B!Client)
  /\ o.todo # <<>> => c \in started
  /\ o.reading = "frame" => o.websocket

ClientsInv ==
  /\ client = [c \in DOMAIN client |-> client[c]]
  /\ \A c \in DOMAIN client : ClientOK(c, client[c], StartedSenders)

\* Every sender is counted once at most: when it has finished it is one of those that
\* done() was called for, that done() has counted, or that were reported.
Total == counter + summand + (IF reports = 0 THEN 0 ELSE SENDERS)

CountInv ==
  /\ counter \in 0..(SENDERS - 1) /\ summand \in Nat /\ reports \in {0, 1}
  /\ Total <= Cardinality(FinishedSenders)

BenchmarkInv == StageInv /\ ClientsInv /\ CountInv

\* The constants are numbers.
LEMMA Numbers ==
  /\ {CLIENTS, SENDERS, ACCOUNTS, CORRESPONDENTS, BuildStep, SetupStep} \subseteq Int
  /\ CLIENTS > 0 /\ SENDERS > 0 /\ BuildStep > 0 /\ SetupStep > 0
  /\ SENDERS <= CLIENTS /\ CLIENTS <= ACCOUNTS
  /\ ACCOUNTS % BuildStep = 0 /\ SENDERS % SetupStep = 0
  BY NumbersAssumption

\* There are finitely many senders.
LEMMA SendersCounted == IsFiniteSet(1..SENDERS) /\ Cardinality(1..SENDERS) = SENDERS
<1>1. SENDERS \in Int /\ SENDERS > 0 /\ 1 \in Int
  BY Numbers
<1>2. /\ IsFiniteSet(1..SENDERS)
      /\ Cardinality(1..SENDERS) = IF 1 > SENDERS THEN 0 ELSE SENDERS - 1 + 1
  BY <1>1, FS_Interval
<1> QED
  BY <1>1, <1>2

\* The senders are clients, finitely many.
LEMMA SendersAreClients ==
  ASSUME StageInv
  PROVE  /\ StartedSenders \subseteq 1..SENDERS /\ 1..SENDERS \subseteq B!Client
         /\ IsFiniteSet(1..SENDERS) /\ Cardinality(1..SENDERS) = SENDERS
         /\ IsFiniteSet(FinishedSenders) /\ Cardinality(FinishedSenders) \in Nat
         /\ Cardinality(FinishedSenders) <= SENDERS
<1>1. StartedSenders \subseteq 1..SENDERS
  BY Numbers DEF StageInv, StartedSenders
<1>2. 1..SENDERS \subseteq B!Client
  BY Numbers DEF B!Client
<1>3. IsFiniteSet(1..SENDERS) /\ Cardinality(1..SENDERS) = SENDERS
  BY SendersCounted
<1>4. FinishedSenders \in SUBSET (1..SENDERS)
  BY <1>1 DEF FinishedSenders
<1>5. IsFiniteSet(FinishedSenders) /\ Cardinality(FinishedSenders) <= SENDERS
  BY <1>3, <1>4, FS_Subset
<1> QED
  BY <1>1, <1>2, <1>3, <1>5, FS_CardinalityType

\* When no sender that had finished starts again, none is counted twice.
LEMMA CountKept ==
  ASSUME StageInv', CountInv, FinishedSenders \subseteq FinishedSenders',
         UNCHANGED <<counter, summand, reports>>
  PROVE  CountInv'
<1>1. IsFiniteSet(FinishedSenders') /\ Cardinality(FinishedSenders)' \in Nat
  <2>1. StartedSenders' \subseteq 1..SENDERS
    BY Numbers DEF StageInv, StartedSenders
  <2>2. FinishedSenders' \in SUBSET (1..SENDERS)
    BY <2>1 DEF FinishedSenders
  <2> QED
    BY <2>2, SendersCounted, FS_Subset, FS_CardinalityType
<1> DEFINE K == FinishedSenders
           L == FinishedSenders'
<1>2. K \in SUBSET L
  OBVIOUS
<1>3. Cardinality(K) <= Cardinality(L) /\ Cardinality(L) \in Nat /\ Cardinality(K) \in Nat
  BY <1>1, <1>2, FS_Subset, FS_CardinalityType
<1>4. Total \in Int /\ Total' = Total
  BY Numbers DEF CountInv, Total
<1>5. Total' <= Cardinality(L)
  BY <1>3, <1>4 DEF CountInv
<1> QED
  BY <1>5 DEF CountInv

\* One client becomes o.  It gets no further correspondent, and when it has lost the last
\* one it has finished.
LEMMA OneClientMoves ==
  ASSUME StageInv, ClientsInv, NEW c \in DOMAIN client, NEW o,
         client' = [client EXCEPT ![c] = o], UNCHANGED stage,
         o = [f \in ClientFields |-> o[f]], o.todo \in Seq(B!Client),
         o.reading = "frame" => o.websocket,
         o.todo # <<>> => client[c].todo # <<>>
  PROVE  /\ StageInv' /\ ClientsInv' /\ FinishedSenders \subseteq FinishedSenders'
         /\ o.todo = <<>> /\ client[c].todo # <<>> =>
              c \in FinishedSenders' /\ c \notin FinishedSenders
<1>1. /\ DOMAIN client' = DOMAIN client /\ client'[c] = o
      /\ \A x \in DOMAIN client : x # c => client'[x] = client[x]
      /\ client' = [x \in DOMAIN client' |-> client'[x]]
  BY DEF ClientsInv
<1>2. StartedSenders' = StartedSenders
  BY DEF StartedSenders
<1>3. StageInv'
  BY <1>1 DEF StageInv
<1>4. ASSUME NEW x \in DOMAIN client' PROVE ClientOK(x, client'[x], StartedSenders')
  <2>1. /\ ClientOK(c, client[c], StartedSenders)
        /\ ClientOK(x, client[x], StartedSenders)
    BY <1>1 DEF ClientsInv
  <2> QED
    BY <1>1, <1>2, <2>1 DEF ClientOK
<1>5. ClientsInv'
  BY <1>1, <1>4 DEF ClientsInv
<1>6. FinishedSenders \subseteq FinishedSenders'
  <2> SUFFICES ASSUME NEW x \in FinishedSenders PROVE x \in FinishedSenders'
    OBVIOUS
  <2>1. x \in StartedSenders /\ client[x].todo = <<>>
    BY DEF FinishedSenders
  <2>2. x \in DOMAIN client
    BY <2>1, SendersAreClients DEF StartedSenders, StageInv
  <2>3. client'[x].todo = <<>>
    BY <1>1, <2>1, <2>2
  <2> QED
    BY <1>2, <2>1, <2>3 DEF FinishedSenders
<1>7. ASSUME o.todo = <<>>, client[c].todo # <<>>
      PROVE  c \in FinishedSenders' /\ c \notin FinishedSenders
  <2>1. c \in StartedSenders
    BY <1>7 DEF ClientsInv, ClientOK
  <2> QED
    BY <1>1, <1>2, <1>7, <2>1 DEF FinishedSenders
<1> QED
  BY <1>3, <1>5, <1>6, <1>7

\* The same, of one that sends nothing
LEMMA ClientMoves ==
  ASSUME BenchmarkInv, NEW c \in DOMAIN client, NEW o,
         client' = [client EXCEPT ![c] = o], UNCHANGED <<stage, counter, summand, reports>>,
         o = [f \in ClientFields |-> o[f]], o.todo \in Seq(B!Client),
         o.reading = "frame" => o.websocket,
         o.todo # <<>> => client[c].todo # <<>>
  PROVE  BenchmarkInv'
<1>1. StageInv' /\ ClientsInv' /\ FinishedSenders \subseteq FinishedSenders'
  BY OneClientMoves DEF BenchmarkInv
<1> QED
  BY <1>1, CountKept DEF BenchmarkInv

\* Initially there is no client.
LEMMA BenchmarkInit == ASSUME B!Init PROVE BenchmarkInv
<1>1. /\ stage = [fn |-> "build", num |-> 0] /\ client = <<>>
      /\ counter = 0 /\ summand = 0 /\ reports = 0
  BY DEF B!Init
<1>2. DOMAIN client = {} /\ client = [c \in DOMAIN client |-> client[c]]
  BY <1>1
<1>3. 0 = 0 * BuildStep /\ 0 < ACCOUNTS /\ 1..0 = {}
  BY Numbers
<1>4. StageInv
  BY <1>1, <1>2, <1>3 DEF StageInv
<1>5. FinishedSenders = {}
  BY <1>1 DEF FinishedSenders, StartedSenders
<1>6. Cardinality(FinishedSenders) = 0
  BY <1>5, FS_EmptySet
<1> QED
  BY <1>1, <1>2, <1>4, <1>6, Numbers DEF BenchmarkInv, ClientsInv, CountInv, Total

\* build(): further clients, which have no correspondents.
LEMMA BenchmarkBuild == ASSUME BenchmarkInv, B!Build PROVE BenchmarkInv'
<1> DEFINE num == stage.num + BuildStep
           D == (1..num) \cap B!Client
<1>1. /\ stage.fn = "build" /\ UNCHANGED <<counter, summand, reports>>
      /\ client' = [c \in D |-> IF c \in DOMAIN client THEN client[c] ELSE B!NewClient]
      /\ stage' = IF num < ACCOUNTS THEN [stage EXCEPT !.num = num]
                  ELSE [fn |-> "setup", num |-> 0]
  BY DEF B!Build
<1>2. PICK k \in Nat : stage.num = k * BuildStep
  BY <1>1 DEF BenchmarkInv, StageInv
<1>3. /\ stage = [fn |-> "build", num |-> stage.num] /\ stage.num \in Nat
      /\ stage.num < ACCOUNTS
  BY <1>1 DEF BenchmarkInv, StageInv
<1>4. num <= ACCOUNTS /\ num = (k + 1) * BuildStep /\ num \in Nat
  <2>1. BuildStep \in Nat \ {0} /\ ACCOUNTS \in Nat /\ ACCOUNTS % BuildStep = 0
    BY NumbersAssumption
  <2> QED
    BY <1>2, <1>3, <2>1, NextMultiple
<1>5. DOMAIN client' = D /\ client' = [c \in DOMAIN client' |-> client'[c]]
  BY <1>1
<1> HIDE DEF num
<1>6. StageInv'
  <2>1. CASE num < ACCOUNTS
    <3>1. stage' = [fn |-> "build", num |-> num]
      BY <1>1, <1>3, <2>1
    <3> QED
      BY <1>4, <1>5, <2>1, <3>1 DEF StageInv
  <2>2. CASE ~ (num < ACCOUNTS)
    <3>1. stage' = [fn |-> "setup", num |-> 0] /\ num = ACCOUNTS
      BY <1>1, <1>4, <2>2, Numbers
    <3>2. D = B!Client
      BY <3>1, Numbers DEF B!Client
    <3>3. 0 = 0 * SetupStep
      BY Numbers
    <3> QED
      BY <1>5, <3>1, <3>2, <3>3, Numbers DEF StageInv
  <2> QED
    BY <2>1, <2>2
<1>7. StartedSenders = {} /\ StartedSenders' = {}
  <2>1. stage'.fn = "build" \/ stage'.num = 0
    BY <1>1, <1>3
  <2> QED
    BY <1>1, <2>1 DEF StartedSenders
<1>8. ClientsInv'
  <2>1. ClientOK(1, B!NewClient, {})
    BY EmptySeq DEF ClientOK, ClientFields, B!NewClient
  <2>2. ASSUME NEW c \in DOMAIN client' PROVE ClientOK(c, client'[c], {})
    <3>1. CASE c \in DOMAIN client
      <4>1. ClientOK(c, client[c], {})
        BY <1>7, <3>1 DEF BenchmarkInv, ClientsInv
      <4> QED
        BY <1>1, <1>5, <2>2, <3>1, <4>1
    <3>2. CASE c \notin DOMAIN client
      <4>1. client'[c] = B!NewClient
        BY <1>1, <1>5, <2>2, <3>2
      <4> QED
        BY <2>1, <4>1 DEF ClientOK
    <3> QED
      BY <3>1, <3>2
  <2> QED
    BY <1>5, <1>7, <2>2 DEF ClientsInv
<1>9. FinishedSenders \subseteq FinishedSenders'
  BY <1>7 DEF FinishedSenders
<1> QED
  BY <1>1, <1>6, <1>8, <1>9, CountKept DEF BenchmarkInv

\* setup(): further senders, which were not started before.
LEMMA BenchmarkSetup == ASSUME BenchmarkInv, B!Setup PROVE BenchmarkInv'
<1> DEFINE num == stage.num + SetupStep
           senders == (stage.num + 1)..num
<1>1. /\ stage.fn = "setup" /\ UNCHANGED <<counter, summand, reports>>
      /\ stage' = IF num < SENDERS THEN [stage EXCEPT !.num = num]
                  ELSE [fn |-> "none", num |-> num]
  BY DEF B!Setup
<1>2. PICK chosen \in [senders -> B!Correspondents] :
        client' = [c \in B!Client |->
                     IF c \in senders
                     THEN [client[c] EXCEPT !.todo = B!SetToSeq(chosen[c])]
                     ELSE client[c]]
  BY DEF B!Setup
<1>3. PICK k \in Nat : stage.num = k * SetupStep
  BY <1>1 DEF BenchmarkInv, StageInv
<1>4. /\ stage = [fn |-> "setup", num |-> stage.num] /\ stage.num \in Nat
      /\ stage.num < SENDERS /\ DOMAIN client = B!Client
  BY <1>1 DEF BenchmarkInv, StageInv
<1>5. num <= SENDERS /\ num = (k + 1) * SetupStep /\ num \in Nat
  <2>1. SetupStep \in Nat \ {0} /\ SENDERS \in Nat /\ SENDERS % SetupStep = 0
    BY NumbersAssumption
  <2> QED
    BY <1>3, <1>4, <2>1, NextMultiple
<1>6. DOMAIN client' = B!Client /\ client' = [c \in DOMAIN client' |-> client'[c]]
  BY <1>2
<1>7. /\ stage' = [fn |-> IF num < SENDERS THEN "setup" ELSE "none", num |-> num]
      /\ (num < SENDERS \/ num = SENDERS)
  BY <1>1, <1>4, <1>5, Numbers
<1>8. StageInv'
  BY <1>5, <1>6, <1>7 DEF StageInv
<1>9. StartedSenders = 1..stage.num /\ StartedSenders' = 1..num
  BY <1>1, <1>7 DEF StartedSenders
<1>10. num >= stage.num
  BY <1>4, Numbers
<1> HIDE DEF num
<1>11. ASSUME NEW c \in B!Client
       PROVE  ClientOK(c, client'[c], 1..num)
  <2>1. ClientOK(c, client[c], 1..stage.num)
    BY <1>4, <1>9 DEF BenchmarkInv, ClientsInv
  <2>2. CASE c \in senders
    <3> DEFINE todo == B!SetToSeq(chosen[c])
    <3>1. client'[c] = [client[c] EXCEPT !.todo = todo]
      BY <1>2, <2>2
    <3>2. todo \in Seq(B!Client)
      BY <2>2, CorrespondentsInSequence
    <3>3. c \in 1..num
      BY <1>4, <2>2
    <3> HIDE DEF todo
    <3> QED
      BY <2>1, <3>1, <3>2, <3>3 DEF ClientOK, ClientFields
  <2>3. CASE c \notin senders
    <3>1. client'[c] = client[c]
      BY <1>2, <2>3
    <3>2. 1..stage.num \subseteq 1..num
      BY <1>4, <1>5, <1>10
    <3> QED
      BY <2>1, <3>1, <3>2 DEF ClientOK
  <2> QED
    BY <2>2, <2>3
<1>12. ClientsInv'
  BY <1>6, <1>9, <1>11 DEF ClientsInv
<1>13. FinishedSenders \subseteq FinishedSenders'
  <2> SUFFICES ASSUME NEW c \in FinishedSenders PROVE c \in FinishedSenders'
    OBVIOUS
  <2>1. c \in 1..stage.num /\ client[c].todo = <<>>
    BY <1>9 DEF FinishedSenders
  <2>2. c \in B!Client /\ c \notin senders /\ c \in 1..num
    BY <1>4, <1>5, <1>10, <2>1, Numbers DEF B!Client
  <2>3. client'[c] = client[c]
    BY <1>2, <2>2
  <2> QED
    BY <1>9, <2>1, <2>2, <2>3 DEF FinishedSenders
<1> QED
  BY <1>1, <1>8, <1>12, <1>13, CountKept DEF BenchmarkInv

\* done(): what it was called for is counted, or reported.
LEMMA BenchmarkDone == ASSUME BenchmarkInv, B!Done PROVE BenchmarkInv'
<1>1. /\ summand > 0 /\ summand' = 0 /\ UNCHANGED <<stage, client>>
      /\ IF counter + summand = SENDERS
         THEN counter' = 0 /\ reports' = reports + 1
         ELSE counter' = counter + summand /\ UNCHANGED reports
  BY DEF B!Done, B!Counted
<1>2. /\ counter \in 0..(SENDERS - 1) /\ summand \in Nat /\ reports \in {0, 1}
      /\ Total <= Cardinality(FinishedSenders)
      /\ Cardinality(FinishedSenders) \in Nat /\ Cardinality(FinishedSenders) <= SENDERS
  BY SendersAreClients DEF BenchmarkInv, CountInv
<1>3. reports = 0 /\ counter + summand <= SENDERS
  BY <1>1, <1>2, Numbers DEF Total
<1>4. StageInv' /\ ClientsInv' /\ FinishedSenders' = FinishedSenders
  BY <1>1 DEF BenchmarkInv, StageInv, ClientsInv, StartedSenders, FinishedSenders
<1>5. Total' = Total
  <2>1. SENDERS \in Int /\ SENDERS > 0
    BY Numbers
  <2>2. Total = counter + summand
    BY <1>2, <1>3 DEF Total
  <2>3. CASE counter + summand = SENDERS
    <3>1. counter' = 0 /\ summand' = 0 /\ reports' = 1
      BY <1>1, <1>3, <2>3
    <3>2. Total' = SENDERS
      BY <2>1, <3>1 DEF Total
    <3> QED
      BY <2>2, <2>3, <3>2
  <2>4. CASE counter + summand # SENDERS
    <3>1. counter' = counter + summand /\ summand' = 0 /\ reports' = 0
      BY <1>1, <1>3, <2>4
    <3>2. Total' = counter + summand
      BY <1>2, <3>1 DEF Total
    <3> QED
      BY <2>2, <3>2
  <2> QED
    BY <2>3, <2>4
<1>6. /\ counter' \in 0..(SENDERS - 1) /\ summand' \in Nat /\ reports' \in {0, 1}
  BY <1>1, <1>2, <1>3, Numbers
<1> QED
  BY <1>2, <1>4, <1>5, <1>6 DEF BenchmarkInv, CountInv

\* benchmark(): the last message of a sender finishes it, and so does an error.
LEMMA BenchmarkSend ==
  ASSUME BenchmarkInv, NEW c \in DOMAIN client, B!Send(c)
  PROVE  BenchmarkInv'
<1> DEFINE p == client[c]
           rest == Tail(p.todo)
<1>1. /\ p = [f \in ClientFields |-> p[f]] /\ p.todo \in Seq(B!Client) /\ p.todo # <<>>
      /\ p.reading = "frame" => p.websocket
  BY DEF BenchmarkInv, ClientsInv, ClientOK, B!Send
<1>2. /\ <<>> \in Seq(B!Client) /\ rest \in Seq(B!Client)
      /\ Len(p.todo) = 1 <=> rest = <<>>
  <2>1. <<>> \in Seq(B!Client)
    BY EmptySeq
  <2>2. rest \in Seq(B!Client) /\ Len(rest) = Len(p.todo) - 1 /\ Len(p.todo) \in Nat
    BY <1>1, HeadTailProperties, LenProperties
  <2> HIDE DEF rest
  <2>3. Len(rest) = 0 <=> rest = <<>>
    BY <2>2, EmptySeq
  <2> QED
    BY <2>1, <2>2, <2>3
<1>3. UNCHANGED <<stage, counter, reports>>
  BY DEF B!Send
<1>4. PICK o :
        /\ client' = [client EXCEPT ![c] = o]
        /\ o = [f \in ClientFields |-> o[f]]
        /\ o.reading = p.reading /\ o.websocket = p.websocket
        /\ \/ o.todo = <<>> /\ summand' = summand
           \/ o.todo = rest /\ summand' = IF Len(p.todo) = 1 THEN summand + 1 ELSE summand
  <2> DEFINE context == B!Cardinality({s \in sent : s[1] = c})
             q == [p EXCEPT !.todo = rest, !.outgoing = @ \cup {context},
                            !.inbox = Append(@, "response")]
             r == [p EXCEPT !.todo = rest, !.handle = "ignoredResponse",
                            !.inbox = Append(@, "response")]
             n == [p EXCEPT !.todo = <<>>]
  <2>1. \/ client' = [client EXCEPT ![c] = n] /\ summand' = summand
        \/ /\ client' = [client EXCEPT ![c] = q] \/ client' = [client EXCEPT ![c] = r]
           /\ summand' = IF Len(p.todo) = 1 THEN summand + 1 ELSE summand
    BY <1>1 DEF B!Send, B!Finished, ClientFields
  <2> HIDE DEF context
  <2>2. /\ n = [f \in ClientFields |-> n[f]] /\ n.todo = <<>>
        /\ n.reading = p.reading /\ n.websocket = p.websocket
    BY <1>1 DEF ClientFields
  <2>3. /\ q = [f \in ClientFields |-> q[f]] /\ q.todo = rest
        /\ q.reading = p.reading /\ q.websocket = p.websocket
    BY <1>1 DEF ClientFields
  <2>4. /\ r = [f \in ClientFields |-> r[f]] /\ r.todo = rest
        /\ r.reading = p.reading /\ r.websocket = p.websocket
    BY <1>1 DEF ClientFields
  <2> HIDE DEF n, q, r, p, rest
  <2> QED
    BY <2>1, <2>2, <2>3, <2>4
<1> HIDE DEF rest
<1>5. /\ StageInv' /\ ClientsInv' /\ FinishedSenders \subseteq FinishedSenders'
      /\ o.todo = <<>> => c \in FinishedSenders' /\ c \notin FinishedSenders
  BY <1>1, <1>2, <1>3, <1>4, OneClientMoves DEF BenchmarkInv
<1>6. CASE summand' = summand
  BY <1>3, <1>5, <1>6, CountKept DEF BenchmarkInv
<1>7. CASE summand' = summand + 1 /\ o.todo = <<>>
  <2> DEFINE K == FinishedSenders
             L == FinishedSenders'
  <2>1. c \notin K /\ K \cup {c} \subseteq L
    BY <1>5, <1>7
  <2>2. IsFiniteSet(K) /\ Cardinality(K) \in Nat
    BY SendersAreClients DEF BenchmarkInv
  <2>3. Cardinality(K \cup {c}) = Cardinality(K) + 1
    BY <2>1, <2>2, FS_AddElement
  <2>4. IsFiniteSet(L)
    <3>1. StartedSenders' = StartedSenders
      BY <1>3 DEF StartedSenders
    <3>2. L \in SUBSET (1..SENDERS)
      BY <3>1, SendersAreClients DEF BenchmarkInv, FinishedSenders
    <3> QED
      BY <3>2, SendersCounted, FS_Subset
  <2>5. Cardinality(K \cup {c}) <= Cardinality(L) /\ Cardinality(L) \in Nat
    BY <2>1, <2>4, FS_Subset, FS_CardinalityType
  <2>6. Total \in Int /\ Total' = Total + 1 /\ Total <= Cardinality(K) /\ summand' \in Nat
    BY <1>3, <1>7, Numbers DEF BenchmarkInv, CountInv, Total
  <2>7. Total' <= Cardinality(L)
    BY <2>2, <2>3, <2>5, <2>6
  <2> QED
    BY <1>3, <1>5, <2>6, <2>7 DEF BenchmarkInv, CountInv
<1> QED
  BY <1>2, <1>4, <1>6, <1>7

\* The other steps of a client and its connection.
LEMMA BenchmarkClient ==
  ASSUME BenchmarkInv, NEW c \in DOMAIN client,
         \/ B!Connected(c) \/ B!Start(c) \/ B!ReceiveResponse(c) \/ B!Push(c)
         \/ B!ReceiveWsFrame(c) \/ B!ReceiveWsChunk(c)
  PROVE  BenchmarkInv'
<1> DEFINE p == client[c]
<1>1. /\ p = [f \in ClientFields |-> p[f]] /\ p.todo \in Seq(B!Client)
      /\ p.reading = "frame" => p.websocket
  BY DEF BenchmarkInv, ClientsInv, ClientOK
<1>2. UNCHANGED <<stage, counter, summand, reports>>
  BY DEF B!Connected, B!Start, B!ReceiveResponse, B!Push, B!ReceiveWsFrame, B!ReceiveWsChunk
<1>3. PICK o :
        /\ client' = [client EXCEPT ![c] = o]
        /\ o = [f \in ClientFields |-> o[f]]
        /\ o.reading = "frame" => o.websocket
        /\ o.todo = p.todo
  <2>1. CASE B!Connected(c)
    <3> DEFINE o == [p EXCEPT !.connected = TRUE]
    <3>1. client' = [client EXCEPT ![c] = o]
      BY <2>1 DEF B!Connected
    <3>2. /\ o = [f \in ClientFields |-> o[f]] /\ o.todo = p.todo
          /\ o.reading = "frame" => o.websocket
      BY <1>1 DEF ClientFields
    <3> HIDE DEF o, p
    <3> QED
      BY <3>1, <3>2
  <2>2. CASE B!Start(c)
    <3> DEFINE o == [p EXCEPT !.started = TRUE, !.handle = "establish",
                              !.inbox = Append(@, "switching")]
    <3>1. client' = [client EXCEPT ![c] = o]
      BY <1>1, <2>2 DEF B!Start, ClientFields
    <3>2. /\ o = [f \in ClientFields |-> o[f]] /\ o.todo = p.todo
          /\ o.reading = "frame" => o.websocket
      BY <1>1 DEF ClientFields
    <3> HIDE DEF o, p
    <3> QED
      BY <3>1, <3>2
  <2>3. CASE B!ReceiveResponse(c)
    <3> DEFINE u == p.handle = "establish" /\ Head(p.inbox) = "switching"
               o == [p EXCEPT !.inbox = Tail(@), !.websocket = u,
                              !.reading = IF u THEN "frame" ELSE "none"]
    <3>1. client' = [client EXCEPT ![c] = o]
      BY <2>3 DEF B!ReceiveResponse
    <3> HIDE DEF u
    <3>2. /\ o = [f \in ClientFields |-> o[f]] /\ o.todo = p.todo
          /\ o.reading = "frame" => o.websocket
      BY <1>1 DEF ClientFields
    <3> HIDE DEF o, p
    <3> QED
      BY <3>1, <3>2
  <2>4. CASE B!Push(c)
    <3> DEFINE o == [p EXCEPT !.inbox = Append(@, "message")]
    <3>1. client' = [client EXCEPT ![c] = o]
      BY <2>4 DEF B!Push
    <3>2. /\ o = [f \in ClientFields |-> o[f]] /\ o.todo = p.todo
          /\ o.reading = "frame" => o.websocket
      BY <1>1 DEF ClientFields
    <3> HIDE DEF o, p
    <3> QED
      BY <3>1, <3>2
  <2>5. CASE B!ReceiveWsFrame(c)
    <3> DEFINE o == [p EXCEPT !.reading = "none", !.inbox = Tail(@), !.chunk = <<Head(p.inbox)>>]
    <3>1. client' = [client EXCEPT ![c] = o]
      BY <2>5 DEF B!ReceiveWsFrame
    <3>2. /\ o = [f \in ClientFields |-> o[f]] /\ o.todo = p.todo
          /\ o.reading = "frame" => o.websocket
      BY <1>1 DEF ClientFields
    <3> HIDE DEF o, p
    <3> QED
      BY <3>1, <3>2
  <2>6. CASE B!ReceiveWsChunk(c)
    <3> DEFINE o == [p EXCEPT !.chunk = <<>>]
    <3>1. client' = [client EXCEPT ![c] = o]
      BY <2>6 DEF B!ReceiveWsChunk, B!PreviousObject
    <3>2. /\ o = [f \in ClientFields |-> o[f]] /\ o.todo = p.todo
          /\ o.reading = "frame" => o.websocket
      BY <1>1 DEF ClientFields
    <3> HIDE DEF o, p
    <3> QED
      BY <3>1, <3>2
  <2> QED
    BY <2>1, <2>2, <2>3, <2>4, <2>5, <2>6
<1> QED
  BY <1>1, <1>2, <1>3, ClientMoves

\* Every step of the benchmark
LEMMA BenchmarkStep == ASSUME BenchmarkInv, B!Next PROVE BenchmarkInv'
<1>1. ASSUME NEW c \in B!Client, B!ClientNext(c) PROVE BenchmarkInv'
  <2>1. c \in DOMAIN client
    BY <1>1 DEF B!ClientNext, B!Connected, B!Start, B!ReceiveResponse, B!Send, B!Push,
                B!ReceiveWsFrame, B!ReceiveWsChunk
  <2> QED
    BY <1>1, <2>1, BenchmarkSend, BenchmarkClient DEF B!ClientNext
<1> QED
  BY <1>1, BenchmarkBuild, BenchmarkSetup, BenchmarkDone DEF B!Next

\* The benchmark keeps count of its senders in every exchange.
LEMMA BenchmarkInvHolds == ExchangesSpec => []BenchmarkInv
<1>1. ExchangesInit => BenchmarkInv
  BY BenchmarkInit DEF ExchangesInit
<1>2. BenchmarkInv /\ [ExchangesNext]_allVars => BenchmarkInv'
  <2> SUFFICES ASSUME BenchmarkInv, [ExchangesNext]_allVars PROVE BenchmarkInv'
    OBVIOUS
  <2>1. CASE B!Next
    BY <2>1, BenchmarkStep
  <2>2. CASE UNCHANGED benchmarkVars
    BY <2>2 DEF benchmarkVars, BenchmarkInv, StageInv, ClientsInv, CountInv, Total,
                StartedSenders, FinishedSenders
  <2> QED
    BY <2>1, <2>2 DEF ExchangesNext, allVars
<1> QED
  BY <1>1, <1>2, PTL DEF ExchangesSpec

\* The exchanges take the steps of FcmSender in its variables.
LEMMA ExchangesImplementFcmSender == ExchangesSpec => Spec
<1>1. ExchangesInit => Init
  BY DEF ExchangesInit
<1>2. [ExchangesNext]_allVars => [Next]_vars
  BY DEF ExchangesNext, allVars
<1> QED
  BY <1>1, <1>2, PTL DEF ExchangesSpec, Spec

\* The type invariants of FcmSender and of Benchmark: done() is never called for more
\* senders than there are, and a client of the benchmark reads frames only from a
\* WebSocket.
THEOREM TypesCorrect == ExchangesSpec => []TypesOK
<1>1. BenchmarkInv => B!TypeOK
  <2> SUFFICES ASSUME BenchmarkInv PROVE B!TypeOK
    OBVIOUS
  <2>1. stage.num \in 0..ACCOUNTS /\ DOMAIN client \subseteq B!Client
    BY Numbers DEF BenchmarkInv, StageInv
  <2>2. counter \in 0..(SENDERS - 1) /\ summand \in 0..SENDERS
    BY SendersAreClients, Numbers DEF BenchmarkInv, CountInv, Total
  <2> QED
    BY <2>1, <2>2 DEF B!TypeOK, BenchmarkInv, StageInv, ClientsInv, ClientOK
<1>2. TypeOK /\ B!TypeOK => TypesOK
  BY DEF TypesOK
<1> QED
  BY <1>1, <1>2, BenchmarkInvHolds, ExchangesImplementFcmSender, TypeCorrect, PTL

\* benchmark.c reports its end at most once, and when it does no sender has a
\* correspondent left: the safety part of DoneOnceAtTheEnd.
THEOREM ReportedOnceAtTheEnd == ExchangesSpec => []B!DoneAfterAll
<1>1. BenchmarkInv => B!DoneAfterAll
  <2> SUFFICES ASSUME BenchmarkInv PROVE B!DoneAfterAll
    OBVIOUS
  <2>1. reports \in {0, 1}
    BY DEF BenchmarkInv, CountInv
  <2>2. ASSUME reports = 1
        PROVE  stage.fn = "none" /\ \A c \in DOMAIN client : client[c].todo = <<>>
    <3>1. /\ Cardinality(FinishedSenders) = SENDERS
          /\ FinishedSenders \in SUBSET (1..SENDERS)
      BY <2>2, SendersAreClients, Numbers
      DEF BenchmarkInv, CountInv, Total, FinishedSenders
    <3>2. FinishedSenders = 1..SENDERS
      BY <3>1, SendersCounted, FS_Subset
    <3>3. StartedSenders = 1..SENDERS
      BY <3>2, SendersAreClients DEF BenchmarkInv, FinishedSenders
    <3>4. SENDERS \in 1..SENDERS
      BY Numbers
    <3>5. stage.fn # "build" /\ stage.num >= SENDERS
      BY <3>3, <3>4, Numbers DEF StartedSenders, BenchmarkInv, StageInv
    <3>6. stage.fn = "none"
      BY <3>5, Numbers DEF BenchmarkInv, StageInv
    <3>7. \A c \in DOMAIN client : client[c].todo = <<>>
      BY <3>2, <3>3 DEF BenchmarkInv, ClientsInv, ClientOK, FinishedSenders
    <3> QED
      BY <3>6, <3>7
  <2> QED
    BY <2>1, <2>2 DEF B!DoneAfterAll
<1> QED
  BY <1>1, BenchmarkInvHolds, PTL
=============================================================================
