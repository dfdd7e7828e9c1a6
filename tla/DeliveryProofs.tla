--------------------------- MODULE DeliveryProofs ---------------------------
(* Proofs of the safety properties of Delivery, for every instance. *)
EXTENDS Delivery, FiniteSetTheorems, SequenceTheorems, TLAPS

(***************************************************************************)
(* Lists of envelopes                                                      *)
(***************************************************************************)

\* An enumeration of a finite set is a sequence of its elements.
LEMMA ListingType ==
  ASSUME NEW T, IsFiniteSet(T), NEW s \in SetToSeqs(T)
  PROVE  s \in Seq(T) /\ ToSet(s) \subseteq T
<1>1. Cardinality(T) \in Nat
  BY FS_CardinalityType
<1>2. s \in [1..Cardinality(T) -> T]
  BY DEF SetToSeqs
<1>3. s \in Seq(T)
  BY <1>1, <1>2, IsASeq
<1> QED
  BY <1>2, <1>3 DEF ToSet

\* A set of GUIDs of existing envelopes is finite.
LEMMA FiniteGuids ==
  ASSUME NEW E, NEW t \in Seq(E), NEW T \in SUBSET DOMAIN t
  PROVE  IsFiniteSet(T)
<1>1. DOMAIN t = 1..Len(t) /\ Len(t) \in Nat
  BY LenProperties
<1>2. IsFiniteSet(1..Len(t))
  BY <1>1, FS_Interval
<1> QED
  BY <1>1, <1>2, FS_Subset

\* Appending to a non-empty list keeps its head.
LEMMA HeadOfConcat ==
  ASSUME NEW S, NEW s \in Seq(S), NEW t \in Seq(S), s # <<>>
  PROVE  s \o t # <<>> /\ Head(s \o t) = Head(s)
<1>1. Len(s) \in Nat /\ Len(s) > 0 /\ Len(t) \in Nat
  BY EmptySeq, LenProperties
<1>2. /\ s \o t \in Seq(S) /\ Len(s \o t) = Len(s) + Len(t)
      /\ (s \o t)[1] = s[1]
  BY <1>1, ConcatProperties
<1>3. s \o t # <<>>
  BY <1>1, <1>2, EmptySeq
<1> QED
  BY <1>1, <1>2, <1>3, HeadTailProperties

\* What close() appends to the queue consists of the given lists.
LEMMA ConcatenationsType ==
  ASSUME NEW E, NEW t \in Seq(E), NEW S \in SUBSET Seq(DOMAIN t),
         NEW s \in Concatenations(S)
  PROVE  /\ s \in Seq(DOMAIN t)
         /\ \A i \in DOMAIN s : \E b \in S : \E j \in DOMAIN b : s[i] = b[j]
<1> DEFINE T == UNION {ToSet(b) : b \in S}
<1>1. T \subseteq DOMAIN t
  BY DEF ToSet
<1>2. IsFiniteSet(T)
  BY <1>1, FiniteGuids
<1>3. s \in SetToSeqs(T)
  BY DEF Concatenations
<1>4. s \in Seq(T) /\ ToSet(s) \subseteq T
  BY <1>2, <1>3, ListingType
<1>5. s \in Seq(DOMAIN t)
  BY <1>1, <1>4, SeqMonotonic
<1> QED
  BY <1>4, <1>5 DEF ToSet

\* send() hands over a sublist of the box.
LEMMA UnexpiredType ==
  ASSUME NEW box \in Seq(Guid), env \in Seq(Envelope), NEW s \in Unexpired(box)
  PROVE  /\ s \in Seq(Guid)
         /\ \A i \in DOMAIN s : \E j \in DOMAIN box : s[i] = box[j]
<1> DEFINE T == ToSet(box) \cap messages
<1>1. T \in SUBSET DOMAIN env
  BY DEF ToSet, Guid
<1>2. IsFiniteSet(T)
  BY <1>1, FiniteGuids
<1>3. s \in SetToSeqs(T)
  BY DEF Unexpired
<1>4. s \in Seq(T) /\ ToSet(s) \subseteq T
  BY <1>2, <1>3, ListingType
<1>5. s \in Seq(Guid)
  BY <1>1, <1>4, SeqMonotonic DEF Guid
<1> QED
  BY <1>4, <1>5 DEF ToSet

\* Envelopes are immutable and never deleted: while the table grows, what
\* refers to it stays well-typed.
LEMMA TableGrows ==
  ASSUME TypeOK, env' \in Seq(Envelope), Guid \subseteq Guid'
  PROVE  /\ Seq(Guid) \subseteq Seq(Guid')
         /\ queue \in [Endpoint -> Seq(Guid')]
         /\ outgoing \in [Endpoint -> SUBSET Guid']
         /\ messages \subseteq Guid'
         /\ mboxes \in [Box -> Seq(Guid')]
         /\ delivers \subseteq [ep : Endpoint, envs : Seq(Guid')]
         /\ delivereds \subseteq [ep : Endpoint, env : Guid', code : Codes]
         /\ stacks \subseteq Seq(Guid')
         /\ acked \subseteq Guid'
<1>1. Seq(Guid) \subseteq Seq(Guid')
  BY SeqMonotonic
<1> QED
  BY <1>1 DEF TypeOK

(***************************************************************************)
(* Type correctness                                                        *)
(***************************************************************************)

\* The initial state is well-typed.
LEMMA TypeInit == Init => TypeOK
<1> SUFFICES ASSUME Init PROVE TypeOK
  OBVIOUS
<1> QED
  BY MaxRequestsAssumption
  DEF Init, TypeOK, Status, Guid, Alive

\* Steps that do not make envelopes.
LEMMA TypeConnection ==
  ASSUME TypeOK, NEW e \in Endpoint,
         \/ Connect(e) \/ GetWebsocketLogin(e) \/ ReceiveClose(e) \/ Disconnect(e)
         \/ \E success \in BOOLEAN : GetWebsocketLogin3(e, success)
         \/ \E a \in Account, list \in MessageLists : PutMessages(e, a, list)
  PROVE  TypeOK'
<1>1. CASE Connect(e)
  BY <1>1 DEF Connect, TypeOK, Status, Guid, Alive, epVars, connVars, mailVars, taskVars, histVars
<1>2. CASE GetWebsocketLogin(e)
  BY <1>2 DEF GetWebsocketLogin, TypeOK, Guid, Alive, epVars, connVars, mailVars, histVars
<1>3. CASE ReceiveClose(e)
  BY <1>3 DEF ReceiveClose, TypeOK, Status, Guid, Alive, epVars, connVars, mailVars, taskVars, histVars
<1>4. CASE Disconnect(e)
  BY <1>4 DEF Disconnect, TypeOK, Status, Guid, Alive, epVars, connVars, mailVars, taskVars, histVars
<1>5. CASE \E success \in BOOLEAN : GetWebsocketLogin3(e, success)
  BY <1>5 DEF GetWebsocketLogin3, Register, TypeOK, Status, Guid, Alive, epVars, connVars, mailVars, histVars
<1>6. CASE \E a \in Account, list \in MessageLists : PutMessages(e, a, list)
  BY <1>6 DEF PutMessages, TypeOK, Guid, Alive, epVars, connVars, mailVars
<1> QED
  BY <1>1, <1>2, <1>3, <1>4, <1>5, <1>6

\* close() keeps the types.
LEMMA TypeDisconnected ==
  ASSUME TypeOK, NEW e \in Endpoint, Disconnected(e)
  PROVE  TypeOK'
<1> DEFINE S == {d.envs : d \in {x \in delivers : x.ep = e}}
<1>1. PICK pending \in Concatenations(S) :
        stacks' = stacks \cup (IF queue[e] \o pending # <<>>
                               THEN {queue[e] \o pending} ELSE {})
  BY DEF Disconnected
<1>2. pending \in Seq(Guid)
  <2>1. S \in SUBSET Seq(DOMAIN env)
    BY DEF TypeOK, Guid
  <2> QED
    BY <2>1, ConcatenationsType DEF TypeOK, Guid
<1>3. queue[e] \o pending \in Seq(Guid)
  BY <1>2, ConcatProperties DEF TypeOK
<1>4. stacks' \subseteq Seq(Guid)
  BY <1>1, <1>3 DEF TypeOK
<1>5. queue' \in [Endpoint -> Seq(Guid)]
  BY DEF Disconnected, TypeOK
<1> QED
  BY <1>4, <1>5 DEF Disconnected, Forget, TypeOK, Status, Alive, Guid, mailVars, histVars

\* deliver() and the answer of a client keep the types.
LEMMA TypeDeliver ==
  ASSUME TypeOK, NEW d \in delivers, Deliver(d)
  PROVE  TypeOK'
<1> DEFINE q == queue[d.ep] \o d.envs
<1>1. q \in Seq(Guid)
  BY ConcatProperties DEF TypeOK
<1>2. q # <<>> => Head(q) \in Guid
  BY <1>1, HeadTailProperties
<1>3. queue' \in [Endpoint -> Seq(Guid)]
  BY <1>1 DEF Deliver, TypeOK
<1>4. /\ state' \in [Endpoint -> {"READY", "AWAIT_RESPONSE"}]
      /\ outgoing' \in [Endpoint -> SUBSET Guid]
  <2>1. CASE state[d.ep] = "READY" /\ q # <<>> /\ ep[d.ep] = "ws"
    <3>1. /\ outgoing' = [outgoing EXCEPT ![d.ep] = @ \cup {Head(q)}]
          /\ state' = [state EXCEPT ![d.ep] = "AWAIT_RESPONSE"]
      BY <2>1 DEF Deliver, SendFirst
    <3> QED
      BY <1>2, <2>1, <3>1 DEF TypeOK
  <2>2. CASE ~(state[d.ep] = "READY" /\ q # <<>> /\ ep[d.ep] = "ws")
    <3>1. /\ UNCHANGED outgoing
          /\ UNCHANGED state \/ state' = [state EXCEPT ![d.ep] = "READY"]
      BY <2>2 DEF Deliver, SendFirst
    <3> QED
      BY <3>1 DEF TypeOK
  <2> QED
    BY <2>1, <2>2
<1> QED
  BY <1>3, <1>4 DEF Deliver, TypeOK, Alive, Guid, epVars, mailVars, histVars

\* The answer of a client keeps the types: chatReceiveResponse() queues the
\* continuation of a delivery that was sent.
LEMMA TypeChatReceiveResponse ==
  ASSUME TypeOK, NEW e \in Endpoint, NEW g \in outgoing[e], NEW code \in Codes,
         ChatReceiveResponse(e, g, code)
  PROVE  TypeOK'
BY DEF ChatReceiveResponse, TypeOK, Alive, Guid, epVars, mailVars, histVars

\* The mail boxes keep the types.
LEMMA TypeMailbox ==
  ASSUME TypeOK,
         \/ \E s \in stacks : Stack(s)
         \/ \E e \in Endpoint : Send(e)
         \/ \E g \in messages : Expire(g)
  PROVE  TypeOK'
<1>1. ASSUME NEW s \in stacks, Stack(s)
      PROVE  TypeOK'
  <2>1. s \in Seq(Guid) /\ ToSet(s) \subseteq Guid
    BY DEF TypeOK, ToSet
  <2>2. mboxes' \in [Box -> Seq(Guid)] /\ messages' \subseteq Guid
    <3>1. \A b \in Box : mboxes[b] \o s \in Seq(Guid)
      BY <2>1, ConcatProperties DEF TypeOK
    <3> QED
      BY <1>1, <2>1, <3>1 DEF Stack, TypeOK, mailVars
  <2> QED
    BY <1>1, <2>2 DEF Stack, TypeOK, Alive, Guid, epVars, connVars, histVars
<1>2. ASSUME NEW e \in Endpoint, Send(e)
      PROVE  TypeOK'
  <2>1. Owner[e] \in Box
    BY OwnerAssumption DEF Client, Box
  <2>2. \A envs \in Unexpired(mboxes[Owner[e]]) : envs \in Seq(Guid)
    BY <2>1, UnexpiredType DEF TypeOK
  <2>3. mboxes' \in [Box -> Seq(Guid)]
    <3>1. mboxes' = mboxes \/ mboxes' = [mboxes EXCEPT ![Owner[e]] = <<>>]
      BY <1>2 DEF Send
    <3>2. <<>> \in Seq(Guid)
      OBVIOUS
    <3> DEFINE SG == Seq(Guid)
    <3>3. mboxes \in [Box -> SG]
      BY DEF TypeOK
    <3>4. <<>> \in SG
      BY <3>2
    <3> HIDE DEF SG
    <3>5. mboxes' \in [Box -> SG]
      BY <3>1, <3>3, <3>4
    <3> QED
      BY <3>5 DEF SG
  <2>4. delivers' \subseteq [ep : Endpoint, envs : Seq(Guid)]
    BY <1>2, <2>2 DEF Send, TypeOK
  <2> QED
    BY <1>2, <2>3, <2>4 DEF Send, TypeOK, Alive, Guid, epVars, connVars, histVars
<1>3. ASSUME NEW g \in messages, Expire(g)
      PROVE  TypeOK'
  BY <1>3 DEF Expire, TypeOK, Alive, Guid, epVars, connVars, taskVars, histVars
<1> QED
  BY <1>1, <1>2, <1>3

\* What a run of putMessages2 that handles m messages does: one new envelope
\* for each, delivered or stacked.
Handles(p, m) ==
  /\ p.messages \in Seq(DeviceId) /\ p.ep \in Endpoint /\ p.account \in Account
  /\ m \in Nat /\ m <= Len(p.messages)
  /\ env' \in Seq(Envelope)
  /\ Guid = 1..Len(env) /\ Guid' = 1..(Len(env) + m)
  /\ \A g \in Guid : env'[g] = env[g]
  /\ \A i \in 1..m : env'[Len(env) + i] =
       NewEnvelope(p.ep, "MESSAGE", Owner[p.ep], p.account,
                   EnvelopeDeviceId(p.messages, i), p.messages[i])
  /\ delivers' = delivers \cup
       UNION {{[ep |-> x, envs |-> <<Len(env) + i>>] :
                 x \in Present(p.account, p.messages[i])} : i \in 1..m}
  /\ stacks' = stacks \cup
       {<<Len(env) + i>> :
          i \in {j \in 1..m : Present(p.account, p.messages[j]) = {}}}
  /\ notified' = notified \cup
       {[id |-> p.account, deviceId |-> p.messages[i]] :
          i \in {j \in 1..m : Present(p.account, p.messages[j]) = {}}}

\* putMessages2() handles some first part of the list, one envelope each.
LEMMA PutMessages2Handles ==
  ASSUME TypeOK, NEW p \in puts, PutMessages2(p)
  PROVE  \E m \in Nat : Handles(p, m)
<1>1. PICK m \in 0..Len(p.messages) :
       /\ env' = env \o [i \in 1..m |->
            NewEnvelope(p.ep, "MESSAGE", Owner[p.ep], p.account,
                        EnvelopeDeviceId(p.messages, i), p.messages[i])]
       /\ delivers' = delivers \cup
            UNION {{[ep |-> x, envs |-> <<Len(env) + i>>] :
                      x \in Present(p.account, p.messages[i])} : i \in 1..m}
       /\ stacks' = stacks \cup
            {<<Len(env) + i>> :
               i \in {j \in 1..m : Present(p.account, p.messages[j]) = {}}}
       /\ notified' = notified \cup
            {[id |-> p.account, deviceId |-> p.messages[i]] :
               i \in {j \in 1..m : Present(p.account, p.messages[j]) = {}}}
  BY DEF PutMessages2
<1> DEFINE list == p.messages
           new == [i \in 1..m |->
             NewEnvelope(p.ep, "MESSAGE", Owner[p.ep], p.account,
                         EnvelopeDeviceId(list, i), list[i])]
<1>2. p.ep \in Endpoint /\ p.account \in Account /\ list \in MessageLists
  BY DEF TypeOK
<1>3. list \in Seq(DeviceId)
  BY <1>2, MessageListsAssumption
<1>4. m \in Nat /\ Len(list) \in Nat /\ m <= Len(list)
  BY <1>3, LenProperties
<1>5. \A i \in 1..m : list[i] \in DeviceId
                      /\ EnvelopeDeviceId(list, i) \in DeviceId \cup {0}
  BY <1>3, <1>4 DEF EnvelopeDeviceId
<1>6. \A i \in 1..m : new[i] \in Envelope
  BY <1>2, <1>5, OwnerAssumption DEF NewEnvelope, Envelope, Client
<1>7. new \in Seq(Envelope) /\ Len(new) = m
  BY <1>4, <1>6, IsASeq
<1>8. env \in Seq(Envelope)
  BY DEF TypeOK
<1> HIDE DEF new
<1>9. /\ env \o new \in Seq(Envelope)
      /\ Len(env \o new) = Len(env) + m
      /\ \A i \in 1..Len(env) : (env \o new)[i] = env[i]
      /\ \A i \in 1..m : (env \o new)[Len(env) + i] = new[i]
  BY <1>4, <1>7, <1>8
<1>10. Guid = 1..Len(env) /\ Guid' = 1..(Len(env) + m)
  BY <1>1, <1>8, <1>9 DEF Guid, new
<1>11. Handles(p, m)
  BY <1>1, <1>2, <1>3, <1>4, <1>9, <1>10 DEF Handles, new
<1> QED
  BY <1>4, <1>11

\* putMessages2() keeps the types.
LEMMA TypePutMessages2 ==
  ASSUME TypeOK, NEW p \in puts, PutMessages2(p)
  PROVE  TypeOK'
<1>1. PICK m \in Nat : Handles(p, m)
  BY PutMessages2Handles
<1>2. Guid \subseteq Guid' /\ env' \in Seq(Envelope) /\ Len(env) \in Nat
  BY <1>1, LenProperties DEF Handles, TypeOK
<1>3. \A i \in 1..m : <<Len(env) + i>> \in Seq(Guid')
  BY <1>1, <1>2 DEF Handles
<1>4. delivers' \subseteq [ep : Endpoint, envs : Seq(Guid')]
  <2>1. \A i \in 1..m : Present(p.account, p.messages[i]) \subseteq Endpoint
    BY DEF Present, TypeOK
  <2>2. delivers \subseteq [ep : Endpoint, envs : Seq(Guid')]
    BY <1>2, TableGrows
  <2>3. ASSUME NEW d \in delivers'
        PROVE  d \in [ep : Endpoint, envs : Seq(Guid')]
    <3>1. CASE d \in delivers
      BY <2>2, <3>1
    <3>2. CASE d \notin delivers
      <4>1. PICK i \in 1..m : \E x \in Present(p.account, p.messages[i]) :
               d = [ep |-> x, envs |-> <<Len(env) + i>>]
        BY <1>1, <2>3, <3>2 DEF Handles
      <4> QED
        BY <1>3, <2>1, <4>1
    <3> QED
      BY <3>1, <3>2
  <2> QED
    BY <2>3
<1>5. stacks' \subseteq Seq(Guid')
  <2>1. stacks \subseteq Seq(Guid')
    BY <1>2, TableGrows
  <2> QED
    BY <1>1, <1>3, <2>1 DEF Handles
<1>6. notified' \subseteq Client
  BY <1>1 DEF Handles, TypeOK, Client
<1>7. /\ queue' \in [Endpoint -> Seq(Guid')]
      /\ outgoing' \in [Endpoint -> SUBSET Guid']
      /\ messages' \subseteq Guid'
      /\ mboxes' \in [Box -> Seq(Guid')]
      /\ delivereds' \subseteq [ep : Endpoint, env : Guid', code : Codes]
      /\ acked' \subseteq Guid'
  BY <1>2, TableGrows DEF PutMessages2, connVars, mailVars
<1> QED
  BY <1>2, <1>4, <1>5, <1>6, <1>7
  DEF PutMessages2, TypeOK, Alive, epVars, connVars

\* The fields of an existing envelope.
LEMMA EnvelopeAt ==
  ASSUME TypeOK, NEW g \in Guid
  PROVE  /\ env[g] \in Envelope /\ env[g].origin \in Endpoint
         /\ env[g].sourceId \in Account /\ env[g].destinationId \in Account
<1>1. env \in Seq(Envelope) /\ g \in 1..Len(env)
  BY LenProperties DEF TypeOK, Guid
<1>2. env[g] \in Envelope
  BY <1>1
<1> QED
  BY <1>2 DEF Envelope

\* What delivered() does with an answer of code OK: the receipt.
LEMMA SendReceiptFacts ==
  ASSUME TypeOK, NEW e \in Endpoint, NEW g \in Guid, SendReceipt(e, g)
  PROVE  /\ env' \in Seq(Envelope) /\ Guid \subseteq Guid'
         /\ \A h \in Guid : env'[h] = env[h]
         /\ \/ Guid' = Guid /\ delivers' = delivers /\ stacks' = stacks
            \/ /\ env[g].type = "MESSAGE"
               /\ Len(env) + 1 \in Guid' /\ Guid' = Guid \cup {Len(env) + 1}
               /\ env'[Len(env) + 1] = Receipt(e, g)
               /\ \/ /\ delivers' = delivers \cup
                          {[ep |-> env[g].origin, envs |-> <<Len(env) + 1>>]}
                     /\ stacks' = stacks
                  \/ /\ stacks' = stacks \cup {<<Len(env) + 1>>}
                     /\ delivers' = delivers
<1>1. env \in Seq(Envelope) /\ Guid = 1..Len(env) /\ Len(env) \in Nat
  BY LenProperties DEF TypeOK, Guid
<1>2. env[g] \in Envelope
  BY <1>1
<1>3. CASE env[g].type = "RECEIPT"
  BY <1>1, <1>3 DEF SendReceipt, Guid
<1>4. CASE env[g].type # "RECEIPT"
  <2>1. env[g].type = "MESSAGE"
    BY <1>2, <1>4 DEF Envelope
  <2>2. Receipt(e, g) \in Envelope
    BY <1>2 DEF Receipt, NewEnvelope, Envelope
  <2>3. env' = Append(env, Receipt(e, g))
    BY <1>4 DEF SendReceipt
  <2>4. /\ env' \in Seq(Envelope) /\ Len(env') = Len(env) + 1
        /\ \A h \in 1..Len(env) : env'[h] = env[h]
        /\ env'[Len(env) + 1] = Receipt(e, g)
    BY <1>1, <2>2, <2>3, AppendProperties
  <2>5. Guid' = 1..(Len(env) + 1)
    BY <2>4, LenProperties DEF Guid
  <2> QED
    BY <1>1, <1>4, <2>1, <2>4, <2>5 DEF SendReceipt
<1> QED
  BY <1>3, <1>4

\* delivered() keeps the types.
LEMMA TypeDelivered ==
  ASSUME TypeOK, HeadOutstanding, NEW d \in delivereds, Delivered(d)
  PROVE  TypeOK'
<1>1. CASE d.code = "OK"
  <2>1. d.ep \in Endpoint /\ d.env \in Guid
    BY DEF TypeOK
  <2>2. SendReceipt(d.ep, d.env) /\ SendFirst(d.ep, Tail(queue[d.ep]))
    BY <1>1 DEF Delivered
  <2>3. Guid \subseteq Guid' /\ env' \in Seq(Envelope)
    BY <2>1, <2>2, SendReceiptFacts
  <2>4. queue[d.ep] \in Seq(Guid) /\ queue[d.ep] # <<>>
    BY <2>1 DEF TypeOK, HeadOutstanding
  <2>5. /\ Tail(queue[d.ep]) \in Seq(Guid)
        /\ Tail(queue[d.ep]) # <<>> => Head(Tail(queue[d.ep])) \in Guid
    BY <2>4, HeadTailProperties
  <2>6. Seq(Guid) \subseteq Seq(Guid')
    BY <2>3, TableGrows
  <2>7. queue' \in [Endpoint -> Seq(Guid')]
    BY <1>1, <2>3, <2>5, <2>6, TableGrows DEF Delivered
  <2>8. /\ outgoing' \in [Endpoint -> SUBSET Guid']
        /\ state' \in [Endpoint -> {"READY", "AWAIT_RESPONSE"}]
    <3>1. outgoing \in [Endpoint -> SUBSET Guid']
      BY <2>3, TableGrows
    <3>2. CASE Tail(queue[d.ep]) # <<>> /\ ep[d.ep] = "ws"
      <4> DEFINE h == Head(Tail(queue[d.ep]))
      <4>1. /\ outgoing' = [outgoing EXCEPT ![d.ep] = @ \cup {h}]
            /\ state' = [state EXCEPT ![d.ep] = "AWAIT_RESPONSE"]
            /\ h \in Guid'
        BY <2>2, <2>3, <2>5, <3>2 DEF SendFirst
      <4> HIDE DEF h
      <4> QED
        BY <2>1, <3>1, <4>1 DEF TypeOK
    <3>3. CASE ~(Tail(queue[d.ep]) # <<>> /\ ep[d.ep] = "ws")
      BY <2>1, <2>2, <3>1, <3>3 DEF SendFirst, TypeOK
    <3> QED
      BY <3>2, <3>3
  <2>9. /\ delivers' \subseteq [ep : Endpoint, envs : Seq(Guid')]
        /\ stacks' \subseteq Seq(Guid')
    <3>1. /\ delivers \subseteq [ep : Endpoint, envs : Seq(Guid')]
          /\ stacks \subseteq Seq(Guid')
      BY <2>3, TableGrows
    <3>2. env[d.env].origin \in Endpoint
      BY <2>1, EnvelopeAt
    <3>3. Len(env) + 1 \in Guid' => <<Len(env) + 1>> \in Seq(Guid')
      OBVIOUS
    <3>4. \/ Guid' = Guid /\ delivers' = delivers /\ stacks' = stacks
          \/ /\ Len(env) + 1 \in Guid'
             /\ \/ /\ delivers' = delivers \cup
                        {[ep |-> env[d.env].origin, envs |-> <<Len(env) + 1>>]}
                   /\ stacks' = stacks
                \/ /\ stacks' = stacks \cup {<<Len(env) + 1>>}
                   /\ delivers' = delivers
      BY <2>1, <2>2, SendReceiptFacts
    <3> DEFINE new == <<Len(env) + 1>>
               SG == Seq(Guid')
    <3>5. CASE Guid' = Guid /\ delivers' = delivers /\ stacks' = stacks
      BY <3>1, <3>5
    <3>6. CASE Len(env) + 1 \in Guid' /\ stacks' = stacks \cup {new}
               /\ delivers' = delivers
      BY <3>1, <3>3, <3>6
    <3>7. CASE Len(env) + 1 \in Guid' /\ stacks' = stacks
               /\ delivers' = delivers \cup {[ep |-> env[d.env].origin, envs |-> new]}
      <4>1. new \in SG /\ delivers \subseteq [ep : Endpoint, envs : SG] /\ stacks \subseteq SG
        BY <3>1, <3>3, <3>7
      <4> HIDE DEF new, SG
      <4>2. delivers' \subseteq [ep : Endpoint, envs : SG] /\ stacks' \subseteq SG
        BY <3>2, <3>7, <4>1
      <4> QED
        BY <4>2 DEF SG
    <3> QED
      BY <3>4, <3>5, <3>6, <3>7
  <2>10. /\ messages' \subseteq Guid' /\ mboxes' \in [Box -> Seq(Guid')]
         /\ delivereds' \subseteq [ep : Endpoint, env : Guid', code : Codes]
         /\ acked' \subseteq Guid'
    BY <1>1, <2>1, <2>3, TableGrows DEF Delivered, mailVars
  <2> QED
    BY <2>3, <2>7, <2>8, <2>9, <2>10
    DEF Delivered, TypeOK, Alive, epVars
<1>2. CASE d.code # "OK"
  BY <1>2 DEF Delivered, TypeOK, Alive, Guid, epVars, connVars, mailVars
<1> QED
  BY <1>1, <1>2

(***************************************************************************)
(* One delivery at a time                                                  *)
(***************************************************************************)

\* deliver(): a connection that is READY has nothing out, so it may send.
LEMMA HeadDeliver ==
  ASSUME TypeOK, HeadOutstanding, NEW d \in delivers, Deliver(d)
  PROVE  HeadOutstanding'
<1> DEFINE q == queue[d.ep] \o d.envs
<1>1. /\ d.ep \in Endpoint /\ d.envs \in Seq(Guid) /\ queue[d.ep] \in Seq(Guid)
      /\ queue' = [queue EXCEPT ![d.ep] = q] /\ delivereds' = delivereds
  BY DEF Deliver, TypeOK
<1>2. queue[d.ep] # <<>> => q # <<>> /\ Head(q) = Head(queue[d.ep])
  BY <1>1, HeadOfConcat
<1> HIDE DEF q
<1>3. \A e \in Endpoint : queue[e] # <<>> =>
        queue'[e] # <<>> /\ Head(queue'[e]) = Head(queue[e])
  BY <1>1, <1>2 DEF TypeOK
<1>4. CASE state[d.ep] = "READY" /\ q # <<>> /\ ep[d.ep] = "ws"
  <2>1. /\ outgoing' = [outgoing EXCEPT ![d.ep] = @ \cup {Head(q)}]
        /\ state' = [state EXCEPT ![d.ep] = "AWAIT_RESPONSE"]
    BY <1>4 DEF Deliver, SendFirst, q
  <2>2. outgoing[d.ep] = {} /\ \A x \in delivereds : x.ep # d.ep
    BY <1>1, <1>4 DEF HeadOutstanding
  <2>3. queue'[d.ep] = q /\ outgoing'[d.ep] = {Head(q)}
        /\ state'[d.ep] = "AWAIT_RESPONSE"
    BY <1>1, <2>1, <2>2 DEF TypeOK
  <2>4. \A e \in Endpoint : e # d.ep =>
          outgoing'[e] = outgoing[e] /\ state'[e] = state[e]
    BY <1>1, <2>1 DEF TypeOK
  <2>5. \A x \in delivereds : x.ep \in Endpoint
    BY DEF TypeOK
  <2> QED
    BY <1>1, <1>3, <1>4, <2>2, <2>3, <2>4, <2>5 DEF HeadOutstanding
<1>5. CASE ~(state[d.ep] = "READY" /\ q # <<>> /\ ep[d.ep] = "ws")
  <2>1. outgoing' = outgoing
    BY <1>5 DEF Deliver, SendFirst, q
  <2>2. \A e \in Endpoint : state'[e] = state[e]
    BY <1>1, <1>5 DEF Deliver, SendFirst, TypeOK, q
  <2>3. \A x \in delivereds : x.ep \in Endpoint
    BY DEF TypeOK
  <2> QED
    BY <1>1, <1>3, <2>1, <2>2, <2>3 DEF HeadOutstanding
<1> QED
  BY <1>4, <1>5

\* The answer moves the one delivery that is out from outgoing to delivereds.
LEMMA HeadChatReceiveResponse ==
  ASSUME TypeOK, HeadOutstanding, NEW e \in Endpoint, NEW g \in outgoing[e],
         NEW code \in Codes, ChatReceiveResponse(e, g, code)
  PROVE  HeadOutstanding'
<1> DEFINE new == [ep |-> e, env |-> g, code |-> code]
<1>1. /\ outgoing' = [outgoing EXCEPT ![e] = @ \ {g}] /\ UNCHANGED <<queue, state>>
      /\ delivereds' = delivereds \cup {new}
  BY DEF ChatReceiveResponse
<1>2. state[e] = "AWAIT_RESPONSE" /\ queue[e] # <<>> /\ Head(queue[e]) = g
  BY DEF HeadOutstanding
<1>3. \A x \in delivereds : x.ep \in Endpoint /\ x.ep # e
  BY DEF HeadOutstanding, TypeOK
<1>4. outgoing'[e] = {} /\ \A x \in Endpoint : x # e => outgoing'[x] = outgoing[x]
  BY <1>1, <1>2 DEF HeadOutstanding, TypeOK
<1>5. \A d \in delivereds' : d \in delivereds \/ (d.ep = e /\ d.env = g /\ d = new)
  BY <1>1
<1> HIDE DEF new
<1>6. \A d1, d2 \in delivereds' : d1.ep = d2.ep => d1 = d2
  BY <1>3, <1>5 DEF HeadOutstanding
<1> QED
  BY <1>1, <1>2, <1>3, <1>4, <1>5, <1>6 DEF HeadOutstanding

\* delivered() drops the head, which was the only delivery that was out.
LEMMA HeadDelivered ==
  ASSUME TypeOK, HeadOutstanding, NEW d \in delivereds, Delivered(d)
  PROVE  HeadOutstanding'
<1>1. d.ep \in Endpoint /\ delivereds' = delivereds \ {d} /\ outgoing[d.ep] = {}
  BY DEF Delivered, TypeOK, HeadOutstanding
<1>2. \A x \in delivereds' : x \in delivereds /\ x.ep \in Endpoint /\ x.ep # d.ep
  BY <1>1 DEF HeadOutstanding, TypeOK
<1>3. CASE d.code = "OK"
  <2> DEFINE t == Tail(queue[d.ep])
  <2>1. queue' = [queue EXCEPT ![d.ep] = t] /\ SendFirst(d.ep, t)
    BY <1>3 DEF Delivered, TypeOK
  <2> HIDE DEF t
  <2>2. queue'[d.ep] = t /\ \A e \in Endpoint : e # d.ep => queue'[e] = queue[e]
    BY <1>1, <2>1 DEF TypeOK
  <2>3. \A e \in Endpoint : e # d.ep => state'[e] = state[e] /\ outgoing'[e] = outgoing[e]
    BY <1>1, <2>1 DEF SendFirst, TypeOK
  <2>4. \A g \in outgoing'[d.ep] :
          state'[d.ep] = "AWAIT_RESPONSE" /\ t # <<>> /\ Head(t) = g
    BY <1>1, <2>1 DEF SendFirst, TypeOK
  <2> QED
    BY <1>1, <1>2, <2>2, <2>3, <2>4 DEF HeadOutstanding
<1>4. CASE d.code # "OK"
  <2>1. UNCHANGED <<queue, state, outgoing>>
    BY <1>4 DEF Delivered, connVars
  <2> QED
    BY <1>1, <1>2, <2>1 DEF HeadOutstanding
<1> QED
  BY <1>3, <1>4

\* close() takes queue, state and continuations along.
LEMMA HeadDisconnected ==
  ASSUME TypeOK, HeadOutstanding, NEW e \in Endpoint, Disconnected(e)
  PROVE  HeadOutstanding'
<1>1. /\ queue' = [queue EXCEPT ![e] = <<>>]
      /\ state' = [state EXCEPT ![e] = "READY"]
      /\ outgoing' = [outgoing EXCEPT ![e] = {}]
      /\ delivereds' = {d \in delivereds : d.ep # e}
  BY DEF Disconnected
<1>2. outgoing'[e] = {} /\ \A x \in Endpoint : x # e =>
        queue'[x] = queue[x] /\ state'[x] = state[x] /\ outgoing'[x] = outgoing[x]
  BY <1>1 DEF TypeOK
<1>3. \A d \in delivereds' : d \in delivereds /\ d.ep \in Endpoint /\ d.ep # e
  BY <1>1 DEF TypeOK
<1> QED
  BY <1>2, <1>3 DEF HeadOutstanding

(***************************************************************************)
(* Mail stays with its account                                             *)
(***************************************************************************)

\* A receipt goes back to the connection of a client of the sending account,
\* because putMessages2 records both.
OriginConfined ==
  \A g \in Guid : env[g].type = "MESSAGE" =>
    env[g].sourceId = Owner[env[g].origin].id

\* AccountConfined, index by index.
Confined ==
  /\ \A e \in Endpoint : \A i \in DOMAIN queue[e] :
       env[queue[e][i]].destinationId = Owner[e].id
  /\ \A d \in delivers : \A i \in DOMAIN d.envs :
       env[d.envs[i]].destinationId = Owner[d.ep].id
  /\ \A b \in Box : \A i \in DOMAIN mboxes[b] :
       env[mboxes[b][i]].destinationId = b.id
  /\ \A s \in stacks : \A i, j \in DOMAIN s :
       env[s[i]].destinationId = env[s[j]].destinationId

\* The stronger form of confinement implies the property that TLC checks.
LEMMA ConfinedImpliesAccountConfined ==
  ASSUME TypeOK, Confined PROVE AccountConfined
BY DEF Confined, AccountConfined, Towards, ToSet, TypeOK

\* stack() is never called without envelopes: it looks at the first.
StacksNonEmpty == \A s \in stacks : s # <<>>

\* The inductive invariant.
Inv ==
  TypeOK /\ HeadOutstanding /\ OriginConfined /\ Confined /\ StacksNonEmpty

\* What is old stays confined while the table of envelopes grows.
LEMMA OldConfined ==
  ASSUME TypeOK, Confined, \A g \in Guid : env'[g] = env[g]
  PROVE  /\ \A e \in Endpoint : \A i \in DOMAIN queue[e] :
              env'[queue[e][i]].destinationId = Owner[e].id
         /\ \A d \in delivers : \A i \in DOMAIN d.envs :
              env'[d.envs[i]].destinationId = Owner[d.ep].id
         /\ \A b \in Box : \A i \in DOMAIN mboxes[b] :
              env'[mboxes[b][i]].destinationId = b.id
         /\ \A s \in stacks : \A i, j \in DOMAIN s :
              env'[s[i]].destinationId = env'[s[j]].destinationId
<1>1. \A e \in Endpoint : \A i \in DOMAIN queue[e] : queue[e][i] \in Guid
  BY DEF TypeOK
<1>2. \A d \in delivers : \A i \in DOMAIN d.envs : d.envs[i] \in Guid
  BY DEF TypeOK
<1>3. \A b \in Box : \A i \in DOMAIN mboxes[b] : mboxes[b][i] \in Guid
  BY DEF TypeOK
<1>4. \A s \in stacks : \A i \in DOMAIN s : s[i] \in Guid
  BY DEF TypeOK
<1> QED
  BY <1>1, <1>2, <1>3, <1>4 DEF Confined

\* putMessages2 addresses an envelope to the account whose connection, or whose
\* mail box, it then chooses: only the device in it can be another one.
LEMMA ConfinedPutMessages2 ==
  ASSUME TypeOK, OriginConfined, Confined, NEW p \in puts, PutMessages2(p)
  PROVE  OriginConfined' /\ Confined'
<1>1. PICK m \in Nat : Handles(p, m)
  BY PutMessages2Handles
<1>2. Len(env) \in Nat /\ \A g \in Guid : env'[g] = env[g]
  BY <1>1, LenProperties DEF Handles, TypeOK
<1>3. \A i \in 1..m : /\ env'[Len(env) + i].destinationId = p.account
                      /\ env'[Len(env) + i].sourceId = Owner[p.ep].id
                      /\ env'[Len(env) + i].origin = p.ep
  <2> TAKE i \in 1..m
  <2>1. env'[Len(env) + i] =
          NewEnvelope(p.ep, "MESSAGE", Owner[p.ep], p.account,
                      EnvelopeDeviceId(p.messages, i), p.messages[i])
    BY <1>1 DEF Handles
  <2> QED
    BY <2>1 DEF NewEnvelope
<1>4. OriginConfined'
  <2> SUFFICES ASSUME NEW g \in Guid', env'[g].type = "MESSAGE"
               PROVE  env'[g].sourceId = Owner[env'[g].origin].id
    BY DEF OriginConfined
  <2>1. CASE g \in Guid
    BY <1>2, <2>1 DEF OriginConfined
  <2>2. CASE g \notin Guid
    <3>1. \E i \in 1..m : g = Len(env) + i
      <4>1. g \in 1..(Len(env) + m) /\ g \notin 1..Len(env)
        BY <1>1, <2>2 DEF Handles
      <4>2. g - Len(env) \in 1..m /\ g = Len(env) + (g - Len(env))
        BY <1>2, <4>1
      <4> QED
        BY <4>2
    <3> QED
      BY <1>3, <3>1
  <2> QED
    BY <2>1, <2>2
<1>5. \A d \in delivers' : \A i \in DOMAIN d.envs :
        env'[d.envs[i]].destinationId = Owner[d.ep].id
  <2> SUFFICES ASSUME NEW d \in delivers', NEW i \in DOMAIN d.envs
               PROVE  env'[d.envs[i]].destinationId = Owner[d.ep].id
    OBVIOUS
  <2>1. CASE d \in delivers
    BY <1>2, <2>1, OldConfined
  <2>2. CASE d \notin delivers
    <3>1. PICK k \in 1..m : \E x \in Present(p.account, p.messages[k]) :
             d = [ep |-> x, envs |-> <<Len(env) + k>>]
      BY <1>1, <2>2 DEF Handles
    <3>2. d.envs = <<Len(env) + k>> /\ Owner[d.ep].id = p.account
      BY <3>1 DEF Present
    <3> QED
      BY <1>3, <3>2
  <2> QED
    BY <2>1, <2>2
<1>6. \A s \in stacks' : \A i, j \in DOMAIN s :
        env'[s[i]].destinationId = env'[s[j]].destinationId
  <2> SUFFICES ASSUME NEW s \in stacks', NEW i \in DOMAIN s, NEW j \in DOMAIN s
               PROVE  env'[s[i]].destinationId = env'[s[j]].destinationId
    OBVIOUS
  <2>1. CASE s \in stacks
    BY <1>2, <2>1, OldConfined
  <2>2. CASE s \notin stacks
    <3>1. PICK k \in 1..m : s = <<Len(env) + k>>
      BY <1>1, <2>2 DEF Handles
    <3> QED
      BY <3>1
  <2> QED
    BY <2>1, <2>2
<1>7. queue' = queue /\ mboxes' = mboxes
  BY DEF PutMessages2, connVars, mailVars
<1>8. Confined'
  BY <1>2, <1>5, <1>6, <1>7, OldConfined DEF Confined
<1> QED
  BY <1>4, <1>8

\* delivered() takes the head off the queue, and sends the receipt back to the
\* connection the message came from or to the sender's mail box.
LEMMA ConfinedDelivered ==
  ASSUME TypeOK, HeadOutstanding, OriginConfined, Confined,
         NEW d \in delivereds, Delivered(d)
  PROVE  OriginConfined' /\ Confined'
<1>1. CASE d.code = "OK"
  <2> DEFINE g == d.env
             new == Len(env) + 1
  <2>1. /\ d.ep \in Endpoint /\ g \in Guid /\ SendReceipt(d.ep, g)
        /\ queue[d.ep] \in Seq(Guid) /\ queue[d.ep] # <<>>
        /\ queue' = [queue EXCEPT ![d.ep] = Tail(queue[d.ep])]
        /\ mboxes' = mboxes
    BY <1>1 DEF Delivered, TypeOK, HeadOutstanding, mailVars
  <2>2. \A h \in Guid : env'[h] = env[h]
    BY <2>1, SendReceiptFacts
  <2>3. \A e \in Endpoint : \A i \in DOMAIN queue'[e] :
          env'[queue'[e][i]].destinationId = Owner[e].id
    <3> SUFFICES ASSUME NEW e \in Endpoint, NEW i \in DOMAIN queue'[e]
                 PROVE  env'[queue'[e][i]].destinationId = Owner[e].id
      OBVIOUS
    <3>1. \E j \in DOMAIN queue[e] : queue'[e][i] = queue[e][j]
      <4>1. CASE e # d.ep
        BY <2>1, <4>1 DEF TypeOK
      <4>2. CASE e = d.ep
        <5>1. queue'[e] = Tail(queue[e])
          BY <2>1, <4>2 DEF TypeOK
        <5>2. /\ Len(Tail(queue[e])) = Len(queue[e]) - 1
              /\ \A k \in 1..Len(Tail(queue[e])) : Tail(queue[e])[k] = queue[e][k + 1]
              /\ DOMAIN Tail(queue[e]) = 1..Len(Tail(queue[e]))
              /\ DOMAIN queue[e] = 1..Len(queue[e]) /\ Len(queue[e]) \in Nat
          BY <2>1, <4>2, HeadTailProperties, LenProperties
        <5>3. i + 1 \in DOMAIN queue[e] /\ queue'[e][i] = queue[e][i + 1]
          BY <5>1, <5>2
        <5> QED
          BY <5>3
      <4> QED
        BY <4>1, <4>2
    <3> QED
      BY <2>2, <3>1, OldConfined
  <2>4. CASE Guid' = Guid /\ delivers' = delivers /\ stacks' = stacks
    <3>1. OriginConfined'
      BY <2>2, <2>4 DEF OriginConfined
    <3>2. Confined'
      BY <2>1, <2>2, <2>3, <2>4, OldConfined DEF Confined
    <3> QED
      BY <3>1, <3>2
  <2>5. CASE /\ env[g].type = "MESSAGE" /\ Guid' = Guid \cup {new}
             /\ env'[new] = Receipt(d.ep, g)
             /\ \/ /\ delivers' = delivers \cup {[ep |-> env[g].origin, envs |-> <<new>>]}
                   /\ stacks' = stacks
                \/ /\ stacks' = stacks \cup {<<new>>}
                   /\ delivers' = delivers
    <3>1. env'[new].type = "RECEIPT" /\ env'[new].destinationId = env[g].sourceId
      BY <2>5 DEF Receipt, NewEnvelope
    <3>2. env[g].sourceId = Owner[env[g].origin].id
      BY <2>1, <2>5 DEF OriginConfined
    <3>3. OriginConfined'
      BY <2>2, <2>5, <3>1 DEF OriginConfined
    <3> HIDE DEF new
    <3>4. \A x \in delivers' : \A i \in DOMAIN x.envs :
            env'[x.envs[i]].destinationId = Owner[x.ep].id
      <4> SUFFICES ASSUME NEW x \in delivers', NEW i \in DOMAIN x.envs
                   PROVE  env'[x.envs[i]].destinationId = Owner[x.ep].id
        OBVIOUS
      <4>1. CASE x \in delivers
        BY <2>2, <4>1, OldConfined
      <4>2. CASE x \notin delivers
        <5>1. x = [ep |-> env[g].origin, envs |-> <<new>>]
          BY <2>5, <4>2
        <5> QED
          BY <3>1, <3>2, <5>1
      <4> QED
        BY <4>1, <4>2
    <3>5. \A s \in stacks' : \A i, j \in DOMAIN s :
            env'[s[i]].destinationId = env'[s[j]].destinationId
      <4> SUFFICES ASSUME NEW s \in stacks', NEW i \in DOMAIN s, NEW j \in DOMAIN s
                   PROVE  env'[s[i]].destinationId = env'[s[j]].destinationId
        OBVIOUS
      <4>1. CASE s \in stacks
        BY <2>2, <4>1, OldConfined
      <4>2. CASE s \notin stacks
        <5>1. s = <<new>>
          BY <2>5, <4>2
        <5> QED
          BY <5>1
      <4> QED
        BY <4>1, <4>2
    <3>6. Confined'
      BY <2>1, <2>2, <2>3, <3>4, <3>5, OldConfined DEF Confined
    <3> QED
      BY <3>3, <3>6
  <2> QED
    BY <2>1, <2>4, <2>5, SendReceiptFacts
<1>2. CASE d.code # "OK"
  BY <1>2 DEF Delivered, OriginConfined, Confined, Guid, connVars, mailVars
<1> QED
  BY <1>1, <1>2

\* For(s, a): all envelopes in the list s are for account a.
For(s, a) == \A i \in DOMAIN s : env[s[i]].destinationId = a

\* Lists for one account concatenate to a list for that account.
LEMMA ForConcat ==
  ASSUME NEW s \in Seq(Guid), NEW t \in Seq(Guid), NEW a, For(s, a), For(t, a)
  PROVE  For(s \o t, a)
<1> DEFINE u == s \o t
<1>1. /\ DOMAIN s = 1..Len(s) /\ DOMAIN t = 1..Len(t)
      /\ Len(s) \in Nat /\ Len(t) \in Nat
      /\ DOMAIN u = 1..(Len(s) + Len(t))
      /\ \A i \in 1..(Len(s) + Len(t)) :
           u[i] = IF i <= Len(s) THEN s[i] ELSE t[i - Len(s)]
  BY LenProperties, ConcatProperties
<1> HIDE DEF u
<1>2. ASSUME NEW i \in DOMAIN u
      PROVE  env[u[i]].destinationId = a
  <2>1. CASE i <= Len(s)
    BY <1>1, <2>1 DEF For
  <2>2. CASE i > Len(s)
    <3>1. i - Len(s) \in DOMAIN t /\ u[i] = t[i - Len(s)]
      BY <1>1, <2>2
    <3> QED
      BY <3>1 DEF For
  <2> QED
    BY <1>1, <2>1, <2>2
<1> QED
  BY <1>2 DEF For, u

\* deliver() moves envelopes from a task to the queue of the same connection.
LEMMA ConfinedDeliver ==
  ASSUME TypeOK, OriginConfined, Confined, NEW d \in delivers, Deliver(d)
  PROVE  OriginConfined' /\ Confined'
<1>1. /\ d.ep \in Endpoint /\ d.envs \in Seq(Guid) /\ queue[d.ep] \in Seq(Guid)
      /\ queue' = [queue EXCEPT ![d.ep] = queue[d.ep] \o d.envs]
      /\ delivers' \subseteq delivers
      /\ UNCHANGED <<env, mboxes, stacks>>
  BY DEF Deliver, TypeOK, mailVars
<1>2. \A e \in Endpoint : \A i \in DOMAIN queue'[e] :
        env[queue'[e][i]].destinationId = Owner[e].id
  <2> SUFFICES ASSUME NEW e \in Endpoint, NEW i \in DOMAIN queue'[e]
               PROVE  env[queue'[e][i]].destinationId = Owner[e].id
    OBVIOUS
  <2>1. CASE e # d.ep
    BY <1>1, <2>1 DEF Confined, TypeOK
  <2>2. CASE e = d.ep
    <3>1. queue'[e] = queue[d.ep] \o d.envs
      BY <1>1, <2>2 DEF TypeOK
    <3>2. For(queue[d.ep], Owner[d.ep].id) /\ For(d.envs, Owner[d.ep].id)
      BY <1>1 DEF For, Confined
    <3>3. For(queue[d.ep] \o d.envs, Owner[d.ep].id)
      BY <1>1, <3>2, ForConcat
    <3> QED
      BY <2>2, <3>1, <3>3 DEF For
  <2> QED
    BY <2>1, <2>2
<1> QED
  BY <1>1, <1>2 DEF OriginConfined, Confined, Guid

\* close() stacks what was on its way to one connection, so to one account.
LEMMA ConfinedDisconnected ==
  ASSUME TypeOK, OriginConfined, Confined, NEW e \in Endpoint, Disconnected(e)
  PROVE  OriginConfined' /\ Confined'
<1> DEFINE S == {d.envs : d \in {x \in delivers : x.ep = e}}
<1>1. PICK pending \in Concatenations(S) :
        stacks' = stacks \cup (IF queue[e] \o pending # <<>>
                               THEN {queue[e] \o pending} ELSE {})
  BY DEF Disconnected
<1>2. pending \in Seq(Guid) /\ For(pending, Owner[e].id)
  <2>1. S \in SUBSET Seq(DOMAIN env) /\ env \in Seq(Envelope)
    BY DEF TypeOK, Guid
  <2>2. \A b \in S : For(b, Owner[e].id)
    BY DEF Confined, For
  <2> HIDE DEF S
  <2>3. pending \in Seq(DOMAIN env)
    BY <2>1, ConcatenationsType
  <2>4. \A i \in DOMAIN pending : \E b \in S : \E j \in DOMAIN b : pending[i] = b[j]
    BY <2>1, ConcatenationsType
  <2> QED
    BY <2>2, <2>3, <2>4 DEF For, Guid
<1>3. queue[e] \in Seq(Guid) /\ For(queue[e], Owner[e].id)
  BY DEF TypeOK, Confined, For
<1> DEFINE saved == queue[e] \o pending
<1>5. For(saved, Owner[e].id)
  BY <1>2, <1>3, ForConcat
<1> HIDE DEF saved
<1>6. \A s \in stacks' : \A i, j \in DOMAIN s :
        env[s[i]].destinationId = env[s[j]].destinationId
  <2>1. \A s \in stacks' : s \in stacks \/ s = saved
    BY <1>1 DEF saved
  <2>2. \A i \in DOMAIN saved : env[saved[i]].destinationId = Owner[e].id
    BY <1>5 DEF For
  <2> QED
    BY <2>1, <2>2 DEF Confined
<1>7. /\ queue' = [queue EXCEPT ![e] = <<>>]
      /\ delivers' \subseteq delivers /\ UNCHANGED <<env, mboxes>>
  BY DEF Disconnected, mailVars
<1>8. \A x \in Endpoint : \A i \in DOMAIN queue'[x] :
        env[queue'[x][i]].destinationId = Owner[x].id
  <2> SUFFICES ASSUME NEW x \in Endpoint, NEW i \in DOMAIN queue'[x]
               PROVE  env[queue'[x][i]].destinationId = Owner[x].id
    OBVIOUS
  <2>1. CASE x = e
    <3>1. queue'[x] = <<>>
      BY <1>7, <2>1 DEF TypeOK
    <3> QED
      BY <3>1
  <2>2. CASE x # e
    BY <1>7, <2>2 DEF Confined, TypeOK
  <2> QED
    BY <2>1, <2>2
<1>9. OriginConfined'
  BY <1>7 DEF OriginConfined, Guid
<1>10. \A d \in delivers' : \A i \in DOMAIN d.envs :
         env'[d.envs[i]].destinationId = Owner[d.ep].id
  BY <1>7 DEF Confined
<1>11. \A b \in Box : \A i \in DOMAIN mboxes'[b] :
         env'[mboxes'[b][i]].destinationId = b.id
  BY <1>7 DEF Confined
<1>12. /\ \A x \in Endpoint : \A i \in DOMAIN queue'[x] :
            env'[queue'[x][i]].destinationId = Owner[x].id
       /\ \A s \in stacks' : \A i, j \in DOMAIN s :
            env'[s[i]].destinationId = env'[s[j]].destinationId
  BY <1>6, <1>7, <1>8
<1>13. Confined'
  BY <1>10, <1>11, <1>12, Zenon DEF Confined
<1> QED
  BY <1>9, <1>13

\* stack() files a list under its first envelope, which has the account of all.
LEMMA ConfinedStack ==
  ASSUME TypeOK, OriginConfined, Confined, NEW s \in stacks, s # <<>>, Stack(s)
  PROVE  OriginConfined' /\ Confined'
<1> DEFINE box == [id |-> env[s[1]].destinationId,
                   deviceId |-> env[s[1]].destinationDeviceId]
<1>1. /\ s \in Seq(Guid) /\ stacks' \subseteq stacks
      /\ UNCHANGED <<env, queue, delivers>>
      /\ mboxes' = mboxes \/ mboxes' = [mboxes EXCEPT ![box] = @ \o s]
  BY DEF Stack, TypeOK, mailVars, connVars
<1>2. 1 \in DOMAIN s
  <2>1. s \in Seq(Guid)
    BY <1>1
  <2>2. Len(s) \in Nat /\ Len(s) # 0 /\ DOMAIN s = 1 .. Len(s)
    BY ONLY <2>1, s # <<>>, EmptySeq, LenProperties
  <2> QED
    BY ONLY <2>2
<1>3. \A i \in DOMAIN s : env[s[i]].destinationId = box.id
  BY <1>2 DEF Confined
<1> HIDE DEF box
<1>4. \A b \in Box : \A i \in DOMAIN mboxes'[b] :
        env[mboxes'[b][i]].destinationId = b.id
  <2> SUFFICES ASSUME NEW b \in Box, NEW i \in DOMAIN mboxes'[b]
               PROVE  env[mboxes'[b][i]].destinationId = b.id
    OBVIOUS
  <2>1. CASE mboxes'[b] = mboxes[b]
    BY <2>1 DEF Confined
  <2>2. CASE b = box /\ mboxes'[b] = mboxes[b] \o s
    <3>1. mboxes[b] \in Seq(Guid) /\ For(mboxes[b], b.id) /\ For(s, b.id)
      BY <1>3, <2>2 DEF TypeOK, Confined, For
    <3>2. For(mboxes[b] \o s, b.id)
      BY <1>1, <3>1, ForConcat
    <3> QED
      BY <2>2, <3>2 DEF For
  <2>3. mboxes'[b] = mboxes[b] \/ (b = box /\ mboxes'[b] = mboxes[b] \o s)
    BY <1>1 DEF TypeOK
  <2> QED
    BY <2>1, <2>2, <2>3
<1> QED
  BY <1>1, <1>4 DEF OriginConfined, Confined, Guid

\* send() takes what lies in the box of the client that logged in.
LEMMA ConfinedSend ==
  ASSUME TypeOK, OriginConfined, Confined, NEW e \in Endpoint, Send(e)
  PROVE  OriginConfined' /\ Confined'
<1>1. UNCHANGED <<env, queue, stacks>>
  BY DEF Send, connVars
<1>2. Owner[e] \in Box
  BY OwnerAssumption DEF Client, Box
<1>3. CASE Alive(e) /\ mboxes[Owner[e]] # <<>>
  <2> DEFINE box == mboxes[Owner[e]]
  <2>1. PICK envs \in Unexpired(box) :
          delivers' = delivers \cup (IF envs # <<>> THEN {[ep |-> e, envs |-> envs]} ELSE {})
    BY <1>3 DEF Send
  <2>2. \A i \in DOMAIN envs : \E j \in DOMAIN box : envs[i] = box[j]
    BY <1>2, UnexpiredType DEF TypeOK
  <2>3. \A i \in DOMAIN envs : env[envs[i]].destinationId = Owner[e].id
    BY <1>2, <2>2 DEF Confined
  <2>4. \A d \in delivers' : \A i \in DOMAIN d.envs :
          env[d.envs[i]].destinationId = Owner[d.ep].id
    BY <2>1, <2>3 DEF Confined
  <2>5. mboxes' = [mboxes EXCEPT ![Owner[e]] = <<>>]
    BY <1>3 DEF Send
  <2>6. \A b \in Box : \A i \in DOMAIN mboxes'[b] :
          env[mboxes'[b][i]].destinationId = b.id
    <3> SUFFICES ASSUME NEW b \in Box, NEW i \in DOMAIN mboxes'[b]
                 PROVE  env[mboxes'[b][i]].destinationId = b.id
      OBVIOUS
    <3>1. CASE b = Owner[e]
      <4>1. mboxes'[b] = <<>>
        BY <2>5, <3>1 DEF TypeOK
      <4> QED
        BY <4>1
    <3>2. CASE b # Owner[e]
      BY <2>5, <3>2 DEF Confined, TypeOK
    <3> QED
      BY <3>1, <3>2
  <2> QED
    BY <1>1, <2>4, <2>6 DEF OriginConfined, Confined, Guid
<1>4. CASE ~(Alive(e) /\ mboxes[Owner[e]] # <<>>)
  BY <1>1, <1>4 DEF Send, OriginConfined, Confined, Guid
<1> QED
  BY <1>3, <1>4

\* Nobody calls stack() without an envelope, so envelopes[0] exists.
LEMMA StacksNonEmptyStep ==
  ASSUME Inv, [Next]_vars PROVE StacksNonEmpty'
<1>1. ASSUME NEW p \in puts, PutMessages2(p) PROVE StacksNonEmpty'
  <2>1. PICK m \in Nat : Handles(p, m)
    BY <1>1, PutMessages2Handles DEF Inv
  <2>2. \A s \in stacks' : s \in stacks \/ \E i \in 1..m : s = <<Len(env) + i>>
    BY <2>1 DEF Handles
  <2> QED
    BY <2>2 DEF Inv, StacksNonEmpty
<1>2. ASSUME NEW d \in delivereds, Delivered(d) PROVE StacksNonEmpty'
  BY <1>2 DEF Delivered, SendReceipt, Inv, StacksNonEmpty
<1>3. ASSUME NEW e \in Endpoint, Disconnected(e) PROVE StacksNonEmpty'
  BY <1>3 DEF Disconnected, Inv, StacksNonEmpty
<1>4. CASE stacks' \subseteq stacks
  BY <1>4 DEF Inv, StacksNonEmpty
<1>5. \/ stacks' \subseteq stacks
      \/ \E p \in puts : PutMessages2(p)
      \/ \E d \in delivereds : Delivered(d)
      \/ \E e \in Endpoint : Disconnected(e)
  BY DEF Next, EnvironmentNext, ServerNext, Connect, GetWebsocketLogin, ReceiveClose,
     Disconnect, ChatReceiveResponse, PutMessages, Expire, GetWebsocketLogin3, Send,
     Deliver, Stack, vars, taskVars
<1> QED
  BY <1>1, <1>2, <1>3, <1>4, <1>5

\* The invariant holds initially.
LEMMA InvInit == Init => Inv
<1> SUFFICES ASSUME Init PROVE Inv
  OBVIOUS
<1>1. TypeOK
  BY TypeInit
<1>2. HeadOutstanding
  BY DEF Init, HeadOutstanding
<1>3. OriginConfined
  BY DEF Init, OriginConfined, Guid
<1>4. Confined /\ StacksNonEmpty
  BY DEF Init, Confined, StacksNonEmpty
<1> QED
  BY <1>1, <1>2, <1>3, <1>4 DEF Inv

\* Steps that touch neither queues nor mail boxes nor their tasks.
LEMMA InvQuiet ==
  ASSUME Inv, TypeOK', UNCHANGED <<queue, state, outgoing, delivereds, env>>,
         UNCHANGED <<delivers, mboxes, stacks>>
  PROVE  HeadOutstanding' /\ OriginConfined' /\ Confined'
<1>1. HeadOutstanding'
  BY DEF Inv, HeadOutstanding
<1>2. OriginConfined'
  BY DEF Inv, OriginConfined, Guid
<1>3. Confined'
  BY DEF Inv, Confined
<1> QED
  BY <1>1, <1>2, <1>3

\* Every step preserves the invariant: one case per action.
LEMMA InvStep == Inv /\ [Next]_vars => Inv'
<1> SUFFICES ASSUME Inv, [Next]_vars PROVE Inv'
  OBVIOUS
<1> DEFINE Goal == TypeOK' /\ HeadOutstanding' /\ OriginConfined' /\ Confined'
<1>0. TypeOK /\ HeadOutstanding /\ OriginConfined /\ Confined /\ StacksNonEmpty
  BY DEF Inv
<1>1. ASSUME NEW e \in Endpoint,
             \/ Connect(e) \/ GetWebsocketLogin(e) \/ ReceiveClose(e) \/ Disconnect(e)
             \/ \E success \in BOOLEAN : GetWebsocketLogin3(e, success)
             \/ \E a \in Account, list \in MessageLists : PutMessages(e, a, list)
      PROVE  Goal
  <2>1. TypeOK'
    BY <1>0, <1>1, TypeConnection
  <2>2. UNCHANGED <<queue, state, outgoing, delivereds, env, delivers, mboxes, stacks>>
    BY <1>1 DEF Connect, GetWebsocketLogin, ReceiveClose, Disconnect,
       GetWebsocketLogin3, PutMessages, connVars, mailVars, taskVars
  <2> QED
    BY <2>1, <2>2, InvQuiet
<1>2. ASSUME NEW e \in Endpoint, NEW g \in outgoing[e], NEW code \in Codes,
             ChatReceiveResponse(e, g, code)
      PROVE  Goal
  <2>1. TypeOK' /\ HeadOutstanding'
    BY <1>0, <1>2, TypeChatReceiveResponse, HeadChatReceiveResponse
  <2>2. OriginConfined' /\ Confined'
    BY <1>0, <1>2 DEF ChatReceiveResponse, OriginConfined, Confined, Guid, mailVars
  <2> QED
    BY <2>1, <2>2
<1>3. ASSUME NEW g \in messages, Expire(g)
      PROVE  Goal
  <2>1. TypeOK'
    BY <1>0, <1>3, TypeMailbox
  <2> QED
    BY <1>3, <2>1, InvQuiet DEF Expire, connVars, taskVars
<1>4. ASSUME NEW e \in Endpoint, Disconnected(e)
      PROVE  Goal
  BY <1>0, <1>4, TypeDisconnected, HeadDisconnected, ConfinedDisconnected
<1>5. ASSUME NEW e \in Endpoint, Send(e)
      PROVE  Goal
  <2>1. TypeOK' /\ OriginConfined' /\ Confined'
    BY <1>0, <1>5, TypeMailbox, ConfinedSend
  <2>2. HeadOutstanding'
    BY <1>0, <1>5 DEF Send, HeadOutstanding, connVars
  <2> QED
    BY <2>1, <2>2
<1>6. ASSUME NEW p \in puts, PutMessages2(p)
      PROVE  Goal
  <2>1. TypeOK' /\ OriginConfined' /\ Confined'
    BY <1>0, <1>6, TypePutMessages2, ConfinedPutMessages2
  <2>2. HeadOutstanding'
    BY <1>0, <1>6 DEF PutMessages2, HeadOutstanding, connVars
  <2> QED
    BY <2>1, <2>2
<1>7. ASSUME NEW d \in delivers, Deliver(d)
      PROVE  Goal
  BY <1>0, <1>7, TypeDeliver, HeadDeliver, ConfinedDeliver
<1>8. ASSUME NEW d \in delivereds, Delivered(d)
      PROVE  Goal
  BY <1>0, <1>8, TypeDelivered, HeadDelivered, ConfinedDelivered
<1>9. ASSUME NEW s \in stacks, Stack(s)
      PROVE  Goal
  <2>1. TypeOK'
    BY <1>0, <1>9, TypeMailbox
  <2>2. OriginConfined' /\ Confined'
    BY <1>0, <1>9, ConfinedStack DEF StacksNonEmpty
  <2>3. HeadOutstanding'
    BY <1>0, <1>9 DEF Stack, HeadOutstanding, connVars
  <2> QED
    BY <2>1, <2>2, <2>3
<1>10. CASE UNCHANGED vars
  <2>1. TypeOK'
    BY <1>0, <1>10 DEF TypeOK, Alive, Guid, vars, epVars, connVars, mailVars, taskVars, histVars
  <2>2. Goal
    BY <1>10, <2>1, InvQuiet DEF vars, connVars, mailVars, taskVars
  <2> QED
    BY <2>2, StacksNonEmptyStep DEF Inv
<1>11. CASE Next
  <2>1. Goal
    BY <1>1, <1>2, <1>3, <1>4, <1>5, <1>6, <1>7, <1>8, <1>9, <1>11
    DEF Next, EnvironmentNext, ServerNext
  <2> QED
    BY <2>1, StacksNonEmptyStep DEF Inv
<1> QED
  BY <1>10, <1>11

\* Inv holds in every reachable state.
LEMMA InvAlways == Spec => []Inv
<1>1. Init => Inv
  BY InvInit
<1>2. Inv /\ [Next]_vars => Inv'
  BY InvStep
<1> QED
  BY <1>1, <1>2, PTL DEF Spec

\* Every task, queue and mail box refers to envelopes that exist, whatever the
\* order in which queued tasks, logins and lost connections come.
THEOREM TypeCorrect == Spec => []TypeOK
<1>1. Inv => TypeOK
  BY DEF Inv
<1> QED
  BY <1>1, InvAlways, PTL

\* Messages.c delivered() always drops the envelope that was acknowledged.
THEOREM OneDeliveryAtATime == Spec => []HeadOutstanding
<1>1. Inv => HeadOutstanding
  BY DEF Inv
<1> QED
  BY <1>1, InvAlways, PTL

\* No queue, task or mail box ever holds mail for an account other than the one
\* whose connection or mail box it is, for any number of accounts, devices,
\* connections and requests.
THEOREM Confinement == Spec => []AccountConfined
<1>1. Inv => AccountConfined
  BY ConfinedImpliesAccountConfined DEF Inv
<1> QED
  BY <1>1, InvAlways, PTL

(***************************************************************************)
(* At most one place holds an envelope                                     *)
(***************************************************************************)

\* Envelope g is the i-th of a queue, of the argument of a deliver() or a
\* stack() task, or of a mail box.
InQueue(g, e, i) == e \in Endpoint /\ i \in DOMAIN queue[e] /\ queue[e][i] = g
InDeliver(g, d, i) == d \in delivers /\ i \in DOMAIN d.envs /\ d.envs[i] = g
InStack(g, s, i) == s \in stacks /\ i \in DOMAIN s /\ s[i] = g
InBox(g, b, i) == b \in Box /\ i \in DOMAIN mboxes[b] /\ mboxes[b][i] = g

\* x is one of the four kinds of places, and holds g.
AQueue(x, g) == \E e, i : InQueue(g, e, i) /\ x = <<"queue", e, i>>
ADeliver(x, g) == \E d, i : InDeliver(g, d, i) /\ x = <<"deliver", d, i>>
AStack(x, g) == \E s, i : InStack(g, s, i) /\ x = <<"stack", s, i>>
ABox(x, g) == \E b, i : InBox(g, b, i) /\ x = <<"mbox", b, i>>
PlaceOf(x, g) == AQueue(x, g) \/ ADeliver(x, g) \/ AStack(x, g) \/ ABox(x, g)

\* The places that hold an envelope.
LEMMA HolderPlaces == \A g, x : x \in Holders(g) <=> PlaceOf(x, g)
<1> SUFFICES ASSUME NEW g, NEW x PROVE x \in Holders(g) <=> PlaceOf(x, g)
  OBVIOUS
<1>1. x \in QueueHolders(g) <=> AQueue(x, g)
  <2>1. x \in QueueHolders(g) <=> \E e \in Endpoint :
          x \in {<<"queue", e, i>> : i \in {j \in DOMAIN queue[e] : queue[e][j] = g}}
    BY DEF QueueHolders
  <2>2. \A e \in Endpoint :
          x \in {<<"queue", e, i>> : i \in {j \in DOMAIN queue[e] : queue[e][j] = g}}
            <=> \E i : InQueue(g, e, i) /\ x = <<"queue", e, i>>
    BY DEF InQueue
  <2>3. x \in QueueHolders(g) <=> \E e \in Endpoint : \E i : InQueue(g, e, i) /\ x = <<"queue", e, i>>
    BY <2>1, <2>2
  <2> QED
    BY <2>3 DEF AQueue, InQueue
<1>2. x \in DeliverHolders(g) <=> ADeliver(x, g)
  <2>1. x \in DeliverHolders(g) <=> \E d \in delivers :
          x \in {<<"deliver", d, i>> : i \in {j \in DOMAIN d.envs : d.envs[j] = g}}
    BY DEF DeliverHolders
  <2>2. \A d \in delivers :
          x \in {<<"deliver", d, i>> : i \in {j \in DOMAIN d.envs : d.envs[j] = g}}
            <=> \E i : InDeliver(g, d, i) /\ x = <<"deliver", d, i>>
    BY DEF InDeliver
  <2>3. x \in DeliverHolders(g) <=> \E d \in delivers : \E i : InDeliver(g, d, i) /\ x = <<"deliver", d, i>>
    BY <2>1, <2>2
  <2> QED
    BY <2>3 DEF ADeliver, InDeliver
<1>3. x \in StackHolders(g) <=> AStack(x, g)
  <2>1. x \in StackHolders(g) <=> \E s \in stacks :
          x \in {<<"stack", s, i>> : i \in {j \in DOMAIN s : s[j] = g}}
    BY DEF StackHolders
  <2>2. \A s \in stacks :
          x \in {<<"stack", s, i>> : i \in {j \in DOMAIN s : s[j] = g}}
            <=> \E i : InStack(g, s, i) /\ x = <<"stack", s, i>>
    BY DEF InStack
  <2>3. x \in StackHolders(g) <=> \E s \in stacks : \E i : InStack(g, s, i) /\ x = <<"stack", s, i>>
    BY <2>1, <2>2
  <2> QED
    BY <2>3 DEF AStack, InStack
<1>4. x \in BoxHolders(g) <=> ABox(x, g)
  <2>1. x \in BoxHolders(g) <=> \E b \in Box :
          x \in {<<"mbox", b, i>> : i \in {j \in DOMAIN mboxes[b] : mboxes[b][j] = g}}
    BY DEF BoxHolders
  <2>2. \A b \in Box :
          x \in {<<"mbox", b, i>> : i \in {j \in DOMAIN mboxes[b] : mboxes[b][j] = g}}
            <=> \E i : InBox(g, b, i) /\ x = <<"mbox", b, i>>
    BY DEF InBox
  <2>3. x \in BoxHolders(g) <=> \E b \in Box : \E i : InBox(g, b, i) /\ x = <<"mbox", b, i>>
    BY <2>1, <2>2
  <2> QED
    BY <2>3 DEF ABox, InBox
<1> QED
  BY <1>1, <1>2, <1>3, <1>4 DEF Holders, PlaceOf

\* The same of the next state.
LEMMA NextHolderPlaces == \A g, x : x \in Holders(g)' <=> PlaceOf(x, g)'
<1>1. (\A g, x : x \in Holders(g) <=> PlaceOf(x, g))'
  BY HolderPlaces, PTL
<1> QED
  BY <1>1

\* Only one place holds g.
OnePlace(g) == \A x, y \in Holders(g) : x = y

\* A step that keeps g in one place, and brings back no g that was gone.
KeptOnce(g) ==
  /\ OnePlace(g)'
  /\ Holders(g)' # {} => Holders(g) # {}

\* Where an element of two appended lists comes from.
LEMMA ConcatSources ==
  ASSUME NEW S, NEW s \in Seq(S), NEW t \in Seq(S), NEW i \in DOMAIN (s \o t)
  PROVE  /\ i \in Nat /\ Len(s) \in Nat
         /\ \/ i \in DOMAIN s /\ (s \o t)[i] = s[i]
            \/ i > Len(s) /\ i - Len(s) \in DOMAIN t /\ (s \o t)[i] = t[i - Len(s)]
<1>1. /\ Len(s) \in Nat /\ Len(t) \in Nat
      /\ DOMAIN s = 1..Len(s) /\ DOMAIN t = 1..Len(t)
  BY LenProperties
<1>2. s \o t \in Seq(S) /\ Len(s \o t) = Len(s) + Len(t)
  BY ConcatProperties
<1>3. i \in 1..(Len(s) + Len(t))
  BY <1>2, LenProperties
<1>4. (s \o t)[i] = IF i <= Len(s) THEN s[i] ELSE t[i - Len(s)]
  BY <1>3, ConcatProperties
<1> QED
  BY <1>1, <1>3, <1>4

\* A place that holds g is a holder of g.
LEMMA Holds ==
  ASSUME NEW g, NEW o, NEW i
  PROVE  /\ InQueue(g, o, i) => <<"queue", o, i>> \in Holders(g)
         /\ InDeliver(g, o, i) => <<"deliver", o, i>> \in Holders(g)
         /\ InStack(g, o, i) => <<"stack", o, i>> \in Holders(g)
         /\ InBox(g, o, i) => <<"mbox", o, i>> \in Holders(g)
BY HolderPlaces DEF PlaceOf, AQueue, ADeliver, AStack, ABox

\* A step that touches no list of envelopes leaves the holders alone.
LEMMA HoldersQuiet ==
  ASSUME UNCHANGED <<queue, delivers, stacks, mboxes>>, NEW g
  PROVE  Holders(g)' = Holders(g)
BY DEF Holders, QueueHolders, DeliverHolders, StackHolders, BoxHolders

\* deliver() moves the envelopes of its argument to the end of the queue.
LEMMA OnceDeliver ==
  ASSUME TypeOK, NEW d \in delivers, Deliver(d), NEW g, OnePlace(g)
  PROVE  KeptOnce(g)
<1> DEFINE n == Len(queue[d.ep])
<1>1. /\ d.ep \in Endpoint /\ d.envs \in Seq(Guid) /\ queue[d.ep] \in Seq(Guid)
      /\ n \in Nat /\ Len(d.envs) \in Nat
      /\ DOMAIN d.envs = 1..Len(d.envs) /\ DOMAIN queue[d.ep] = 1..n
  BY LenProperties DEF TypeOK
<1>2. /\ queue' = [queue EXCEPT ![d.ep] = queue[d.ep] \o d.envs]
      /\ delivers' = delivers \ {d} /\ stacks' = stacks /\ mboxes' = mboxes
  BY DEF Deliver, mailVars
<1>3. DOMAIN queue = Endpoint
  BY DEF TypeOK
<1>4. ASSUME NEW x \in Holders(g)'
      PROVE  \/ x \in Holders(g) /\ \A i : x # <<"deliver", d, i>>
             \/ \E i \in Nat : x = <<"queue", d.ep, n + i>>
                               /\ <<"deliver", d, i>> \in Holders(g)
  <2>1. PlaceOf(x, g)'
    BY NextHolderPlaces
  <2>2. CASE AQueue(x, g)'
    <3>1. PICK e, i : InQueue(g, e, i)' /\ x = <<"queue", e, i>>
      BY <2>2 DEF AQueue
    <3>2. CASE InQueue(g, e, i)
      BY <3>1, <3>2, Holds
    <3>3. CASE ~ InQueue(g, e, i)
      <4>1. e = d.ep /\ i - n \in DOMAIN d.envs /\ d.envs[i - n] = g /\ i \in Int
        <5>1. e \in Endpoint /\ i \in DOMAIN queue'[e] /\ queue'[e][i] = g
          BY <3>1 DEF InQueue
        <5>2. e = d.ep
          BY <1>2, <1>3, <3>3, <5>1 DEF InQueue
        <5>3. queue'[e] = queue[d.ep] \o d.envs
          BY <1>1, <1>2, <1>3, <5>2
        <5>4. i \in DOMAIN (queue[d.ep] \o d.envs) /\ (queue[d.ep] \o d.envs)[i] = g
          BY <5>1, <5>3
        <5>5. ~(i \in DOMAIN queue[d.ep] /\ queue[d.ep][i] = g)
          BY <1>1, <3>3, <5>2 DEF InQueue
        <5>6. /\ i \in Nat
              /\ \/ i \in DOMAIN queue[d.ep]
                    /\ (queue[d.ep] \o d.envs)[i] = queue[d.ep][i]
                 \/ i - n \in DOMAIN d.envs
                    /\ (queue[d.ep] \o d.envs)[i] = d.envs[i - n]
          BY <1>1, <5>4, ConcatSources
        <5> QED
          BY <5>2, <5>4, <5>5, <5>6
      <4>2. <<"deliver", d, i - n>> \in Holders(g)
        BY <4>1, Holds DEF InDeliver
      <4>3. i - n \in Nat /\ i = n + (i - n)
        BY <1>1, <4>1
      <4> QED
        BY <3>1, <4>1, <4>2, <4>3
    <3> QED
      BY <3>2, <3>3
  <2>3. CASE ADeliver(x, g)'
    <3>1. PICK c, i : InDeliver(g, c, i)' /\ x = <<"deliver", c, i>>
      BY <2>3 DEF ADeliver
    <3>2. InDeliver(g, c, i) /\ c # d
      BY <1>2, <3>1 DEF InDeliver
    <3> QED
      BY <3>1, <3>2, Holds
  <2>4. CASE AStack(x, g)' \/ ABox(x, g)'
    <3>1. AStack(x, g) \/ ABox(x, g)
      BY <1>2, <2>4 DEF AStack, ABox, InStack, InBox
    <3>2. x \in Holders(g)
      BY <3>1, HolderPlaces DEF PlaceOf
    <3> QED
      BY <3>1, <3>2 DEF AStack, ABox
  <2> QED
    BY <2>1, <2>2, <2>3, <2>4 DEF PlaceOf
<1> QED
  BY <1>4 DEF OnePlace, KeptOnce

\* An enumeration of a set has no duplicates.
LEMMA ListingOnce ==
  ASSUME NEW T, NEW s \in SetToSeqs(T), NEW i \in DOMAIN s, NEW j \in DOMAIN s, s[i] = s[j]
  PROVE  i = j
BY DEF SetToSeqs

\* close() moves the envelopes of the queue and of the queued deliver() tasks
\* to the argument of one stack().
LEMMA OnceDisconnected ==
  ASSUME TypeOK, NEW e \in Endpoint, Disconnected(e), NEW g, OnePlace(g)
  PROVE  KeptOnce(g)
<1> DEFINE S == {d.envs : d \in {x \in delivers : x.ep = e}}
           n == Len(queue[e])
<1>1. PICK pending \in Concatenations(S) :
        stacks' = stacks \cup (IF queue[e] \o pending # <<>>
                               THEN {queue[e] \o pending} ELSE {})
  BY DEF Disconnected
<1> DEFINE new == queue[e] \o pending
<1>2. /\ pending \in Seq(Guid)
      /\ \A i \in DOMAIN pending : \E b \in S : \E j \in DOMAIN b : pending[i] = b[j]
  <2>1. S \in SUBSET Seq(DOMAIN env)
    BY DEF TypeOK, Guid
  <2>2. env \in Seq(Envelope)
    BY DEF TypeOK
  <2>3. /\ pending \in Seq(DOMAIN env)
        /\ \A i \in DOMAIN pending : \E b \in S : \E j \in DOMAIN b : pending[i] = b[j]
    BY <2>1, <2>2, ConcatenationsType
  <2> QED
    BY <2>3 DEF Guid
<1>3. \A i, j \in DOMAIN pending : pending[i] = pending[j] => i = j
  BY ListingOnce DEF Concatenations
<1>4. queue[e] \in Seq(Guid) /\ n \in Nat /\ DOMAIN queue[e] = 1..n /\ DOMAIN queue = Endpoint
  BY LenProperties DEF TypeOK
<1>5. /\ queue' = [queue EXCEPT ![e] = <<>>]
      /\ delivers' = {d \in delivers : d.ep # e} /\ mboxes' = mboxes
  BY DEF Disconnected, mailVars
<1> DEFINE Stays(x) == /\ x \in Holders(g)
                       /\ \A i : x # <<"queue", e, i>>
                       /\ \A c, j : c.ep = e => x # <<"deliver", c, j>>
           FromQueue(x, i) == /\ i \in Nat /\ i <= n /\ x = <<"stack", new, i>>
                              /\ <<"queue", e, i>> \in Holders(g)
           FromTask(x, i, c, j) == /\ i \in Nat /\ i > n /\ x = <<"stack", new, i>>
                                   /\ i - n \in DOMAIN pending /\ pending[i - n] = g
                                   /\ c.ep = e /\ <<"deliver", c, j>> \in Holders(g)
<1>6. ASSUME NEW x \in Holders(g)'
      PROVE  \/ Stays(x)
             \/ \E i : FromQueue(x, i)
             \/ \E i, c, j : FromTask(x, i, c, j)
  <2>1. PlaceOf(x, g)'
    BY NextHolderPlaces
  <2>2. CASE AQueue(x, g)'
    <3>1. PICK a, i : InQueue(g, a, i)' /\ x = <<"queue", a, i>>
      BY <2>2 DEF AQueue
    <3>2. InQueue(g, a, i) /\ a # e
      BY <1>4, <1>5, <3>1 DEF InQueue
    <3> QED
      BY <3>1, <3>2, Holds
  <2>3. CASE ADeliver(x, g)'
    <3>1. PICK c, i : InDeliver(g, c, i)' /\ x = <<"deliver", c, i>>
      BY <2>3 DEF ADeliver
    <3>2. InDeliver(g, c, i) /\ c.ep # e
      BY <1>5, <3>1 DEF InDeliver
    <3>3. x \in Holders(g)
      BY <3>1, <3>2, Holds
    <3> QED
      BY <3>1, <3>2, <3>3
  <2>4. CASE AStack(x, g)'
    <3>1. PICK s, i : InStack(g, s, i)' /\ x = <<"stack", s, i>>
      BY <2>4 DEF AStack
    <3>2. CASE s \in stacks
      <4>1. x \in Holders(g)
        BY <3>1, <3>2, Holds DEF InStack
      <4> QED
        BY <3>1, <4>1
    <3>3. CASE s \notin stacks
      <4>1. s = new /\ i \in DOMAIN new /\ new[i] = g
        BY <1>1, <3>1, <3>3 DEF InStack
      <4>2. /\ i \in Nat
            /\ \/ i \in DOMAIN queue[e] /\ new[i] = queue[e][i]
               \/ i > n /\ i - n \in DOMAIN pending /\ new[i] = pending[i - n]
        BY <1>2, <1>4, <4>1, ConcatSources
      <4>3. CASE i \in DOMAIN queue[e] /\ new[i] = queue[e][i]
        <5>1. <<"queue", e, i>> \in Holders(g)
          BY <4>1, <4>3, Holds DEF InQueue
        <5>2. i <= n
          BY <1>4, <4>3
        <5>3. FromQueue(x, i)
          BY <3>1, <4>1, <4>2, <5>1, <5>2
        <5> QED
          BY <5>3
      <4>4. CASE i > n /\ i - n \in DOMAIN pending /\ new[i] = pending[i - n]
        <5>1. PICK b \in S : \E j \in DOMAIN b : g = b[j]
          BY <1>2, <4>1, <4>4
        <5>2. PICK c \in delivers : c.ep = e /\ c.envs = b
          BY <5>1
        <5>3. PICK j : <<"deliver", c, j>> \in Holders(g)
          BY <5>1, <5>2, Holds DEF InDeliver
        <5>4. FromTask(x, i, c, j)
          BY <3>1, <4>1, <4>2, <4>4, <5>2, <5>3
        <5> QED
          BY <5>4
      <4> QED
        BY <4>2, <4>3, <4>4
    <3> QED
      BY <3>2, <3>3
  <2>5. CASE ABox(x, g)'
    <3>1. PICK b, i : InBox(g, b, i) /\ x = <<"mbox", b, i>>
      BY <1>5, <2>5 DEF ABox, InBox
    <3>2. x \in Holders(g)
      BY <3>1, Holds
    <3> QED
      BY <3>1, <3>2
  <2> QED
    BY <2>1, <2>2, <2>3, <2>4, <2>5 DEF PlaceOf
<1> QED
  <2>1. ASSUME NEW x \in Holders(g)', NEW y \in Holders(g)'
        PROVE  x = y
    <3>1. \A p, q \in Holders(g) : p = q
      BY DEF OnePlace
    <3>2. \A z, u, i, c, j : Stays(z) => ~ FromQueue(u, i) /\ ~ FromTask(u, i, c, j)
      BY <3>1
    <3>3. \A u, v, i, j : FromQueue(u, i) /\ FromQueue(v, j) => u = v
      BY <3>1
    <3>4. \A u, v, k, i, c, j : ~(FromQueue(u, k) /\ FromTask(v, i, c, j))
      BY <3>1
    <3>5. ASSUME NEW u, NEW v, NEW i, NEW c, NEW j, NEW k, NEW b, NEW l,
                 FromTask(u, i, c, j), FromTask(v, k, b, l)
          PROVE  u = v
      <4>1. i - n = k - n
        BY <1>3, <3>5
      <4> QED
        BY <1>4, <3>5, <4>1
    <3>6. Stays(x) /\ Stays(y) => x = y
      BY <3>1
    <3> HIDE DEF Stays, FromQueue, FromTask
    <3> QED
      BY <1>6, <3>2, <3>3, <3>4, <3>5, <3>6
  <2>2. Holders(g)' # {} => Holders(g) # {}
    BY <1>6
  <2> QED
    BY <2>1, <2>2 DEF OnePlace, KeptOnce

\* stack() moves the envelopes of its argument to the end of a mail box, or
\* fails and loses them.
LEMMA OnceStack ==
  ASSUME TypeOK, NEW s \in stacks, Stack(s), NEW g, OnePlace(g)
  PROVE  KeptOnce(g)
<1> DEFINE box == [id |-> env[s[1]].destinationId,
                   deviceId |-> env[s[1]].destinationDeviceId]
           n == Len(mboxes[box])
           Stays(x) == x \in Holders(g) /\ \A i : x # <<"stack", s, i>>
           FromStack(x, i) == i \in Nat /\ x = <<"mbox", box, n + i>>
                              /\ <<"stack", s, i>> \in Holders(g)
<1>1. /\ UNCHANGED <<queue, delivers>> /\ stacks' = stacks \ {s}
      /\ mboxes' = mboxes \/ mboxes' = [mboxes EXCEPT ![box] = @ \o s]
  BY DEF Stack, connVars, mailVars
<1>2. DOMAIN mboxes = Box /\ s \in Seq(Guid)
  BY DEF TypeOK
<1> HIDE DEF box
<1>3. ASSUME NEW x \in Holders(g)'
      PROVE  Stays(x) \/ \E i : FromStack(x, i)
  <2>1. PlaceOf(x, g)'
    BY NextHolderPlaces
  <2>2. CASE AQueue(x, g)' \/ ADeliver(x, g)'
    <3>1. AQueue(x, g) \/ ADeliver(x, g)
      BY <1>1, <2>2 DEF AQueue, ADeliver, InQueue, InDeliver
    <3>2. x \in Holders(g)
      BY <3>1, HolderPlaces DEF PlaceOf
    <3> QED
      BY <3>1, <3>2 DEF AQueue, ADeliver
  <2>3. CASE AStack(x, g)'
    <3>1. PICK t, i : InStack(g, t, i)' /\ x = <<"stack", t, i>>
      BY <2>3 DEF AStack
    <3>2. InStack(g, t, i) /\ t # s
      BY <1>1, <3>1 DEF InStack
    <3>3. x \in Holders(g)
      BY <3>1, <3>2, Holds
    <3> QED
      BY <3>1, <3>2, <3>3
  <2>4. CASE ABox(x, g)'
    <3>1. PICK b, i : InBox(g, b, i)' /\ x = <<"mbox", b, i>>
      BY <2>4 DEF ABox
    <3>2. CASE InBox(g, b, i)
      <4>1. x \in Holders(g)
        BY <3>1, <3>2, Holds
      <4> QED
        BY <3>1, <4>1
    <3>3. CASE ~ InBox(g, b, i)
      <4>1. b \in Box /\ i \in DOMAIN mboxes'[b] /\ mboxes'[b][i] = g
        BY <3>1 DEF InBox
      <4>2. b = box /\ mboxes'[box] = mboxes[box] \o s
        BY <1>1, <1>2, <3>3, <4>1 DEF InBox
      <4>3. mboxes[box] \in Seq(Guid)
        BY <4>1, <4>2 DEF TypeOK
      <4>4. /\ i \in Nat /\ n \in Nat
            /\ \/ i \in DOMAIN mboxes[box] /\ (mboxes[box] \o s)[i] = mboxes[box][i]
               \/ i > n /\ i - n \in DOMAIN s /\ (mboxes[box] \o s)[i] = s[i - n]
        BY <1>2, <4>1, <4>2, <4>3, ConcatSources
      <4>5. i > n /\ i - n \in DOMAIN s /\ s[i - n] = g
        BY <3>3, <4>1, <4>2, <4>4 DEF InBox
      <4>6. <<"stack", s, i - n>> \in Holders(g)
        BY <4>5, Holds DEF InStack
      <4>7. FromStack(x, i - n)
        BY <3>1, <4>2, <4>4, <4>5, <4>6
      <4> QED
        BY <4>7
    <3> QED
      BY <3>2, <3>3
  <2> QED
    BY <2>1, <2>2, <2>3, <2>4 DEF PlaceOf
<1> QED
  BY <1>3 DEF OnePlace, KeptOnce

\* send() moves the unexpired envelopes of a mail box to the argument of one
\* deliver(), and forgets the others.
LEMMA OnceSend ==
  ASSUME TypeOK, NEW e \in Endpoint, Send(e), NEW g, OnePlace(g)
  PROVE  KeptOnce(g)
<1> DEFINE box == Owner[e]
<1>1. UNCHANGED <<queue, stacks>>
  BY DEF Send, connVars
<1>2. DOMAIN mboxes = Box /\ mboxes[box] \in Seq(Guid) /\ env \in Seq(Envelope)
  BY OwnerAssumption DEF TypeOK, Client, Box
<1>3. CASE UNCHANGED <<mboxes, delivers>>
  BY <1>1, <1>3, HoldersQuiet DEF OnePlace, KeptOnce
<1>4. CASE ~ UNCHANGED <<mboxes, delivers>>
  <2>1. PICK envs \in Unexpired(mboxes[box]) :
          delivers' = delivers \cup
            (IF envs # <<>> THEN {[ep |-> e, envs |-> envs]} ELSE {})
    BY <1>4 DEF Send
  <2>2. mboxes' = [mboxes EXCEPT ![box] = <<>>]
    BY <1>4 DEF Send
  <2>3. \A i \in DOMAIN envs : \E j \in DOMAIN mboxes[box] : envs[i] = mboxes[box][j]
    BY <1>2, UnexpiredType
  <2>4. \A i, j \in DOMAIN envs : envs[i] = envs[j] => i = j
    BY ListingOnce DEF Unexpired
  <2> DEFINE new == [ep |-> e, envs |-> envs]
             Stays(x) == x \in Holders(g) /\ \A j : x # <<"mbox", box, j>>
             FromBox(x, i, j) == /\ x = <<"deliver", new, i>>
                                 /\ i \in DOMAIN envs /\ envs[i] = g
                                 /\ <<"mbox", box, j>> \in Holders(g)
  <2>5. new.envs = envs
    OBVIOUS
  <2>6. \A d \in delivers' : d \in delivers \/ d = new
    BY <2>1
  <2> HIDE DEF new, box
  <2>7. ASSUME NEW x \in Holders(g)'
        PROVE  Stays(x) \/ \E i, j : FromBox(x, i, j)
    <3>1. PlaceOf(x, g)'
      BY NextHolderPlaces
    <3>2. CASE AQueue(x, g)' \/ AStack(x, g)'
      <4>1. AQueue(x, g) \/ AStack(x, g)
        BY <1>1, <3>2 DEF AQueue, AStack, InQueue, InStack
      <4>2. x \in Holders(g)
        BY <4>1, HolderPlaces DEF PlaceOf
      <4> QED
        BY <4>1, <4>2 DEF AQueue, AStack
    <3>3. CASE ADeliver(x, g)'
      <4>1. PICK d, i : InDeliver(g, d, i)' /\ x = <<"deliver", d, i>>
        BY <3>3 DEF ADeliver
      <4>2. CASE d \in delivers
        <5>1. x \in Holders(g)
          BY <4>1, <4>2, Holds DEF InDeliver
        <5> QED
          BY <4>1, <5>1
      <4>3. CASE d \notin delivers
        <5>1. d = new /\ i \in DOMAIN envs /\ envs[i] = g
          BY <2>5, <2>6, <4>1, <4>3 DEF InDeliver
        <5>2. PICK j \in DOMAIN mboxes[box] : mboxes[box][j] = g
          BY <2>3, <5>1
        <5>3. box \in Box
          BY OwnerAssumption DEF Client, Box, box
        <5>4. <<"mbox", box, j>> \in Holders(g)
          BY <5>2, <5>3, Holds DEF InBox
        <5> QED
          BY <4>1, <5>1, <5>4
      <4> QED
        BY <4>2, <4>3
    <3>4. CASE ABox(x, g)'
      <4>1. PICK b, i : InBox(g, b, i)' /\ x = <<"mbox", b, i>>
        BY <3>4 DEF ABox
      <4>2. InBox(g, b, i) /\ b # box
        BY <1>2, <2>2, <4>1 DEF InBox
      <4>3. x \in Holders(g)
        BY <4>1, <4>2, Holds
      <4> QED
        BY <4>1, <4>2, <4>3
    <3> QED
      BY <3>1, <3>2, <3>3, <3>4 DEF PlaceOf
  <2> QED
    BY <2>4, <2>7 DEF OnePlace, KeptOnce
<1> QED
  BY <1>3, <1>4

\* Only existing envelopes are held.
LEMMA HeldExist ==
  ASSUME TypeOK, NEW g, NEW x \in Holders(g)
  PROVE  g \in Guid
<1>1. PlaceOf(x, g)
  BY HolderPlaces
<1>2. \A s \in Seq(Guid) : \A i \in DOMAIN s : s[i] \in Guid
  BY ElementOfSeq, LenProperties
<1>3. CASE AQueue(x, g)
  BY <1>2, <1>3 DEF AQueue, InQueue, TypeOK
<1>4. CASE ADeliver(x, g)
  BY <1>2, <1>4 DEF ADeliver, InDeliver, TypeOK
<1>5. CASE AStack(x, g)
  BY <1>2, <1>5 DEF AStack, InStack, TypeOK
<1>6. CASE ABox(x, g)
  BY <1>2, <1>6 DEF ABox, InBox, TypeOK
<1> QED
  BY <1>1, <1>3, <1>4, <1>5, <1>6 DEF PlaceOf

\* A task that holds the one envelope h holds it at index 1.
LEMMA Singleton ==
  ASSUME NEW h, NEW i \in DOMAIN <<h>>
  PROVE  i = 1 /\ <<h>>[i] = h
OBVIOUS

\* online.c keeps one connection per client.
OnePresent == \A a, b \in online : Owner[a] = Owner[b] => a = b

\* putMessages2() gives each new envelope to one connection or to stack(), and
\* moves no old one.
LEMMA OncePutMessages2 ==
  ASSUME TypeOK, OnePresent, NEW p \in puts, PutMessages2(p), NEW g, OnePlace(g)
  PROVE  OnePlace(g)' /\ (g \in Guid => KeptOnce(g))
<1>1. PICK m \in Nat : Handles(p, m)
  BY PutMessages2Handles
<1> DEFINE n == Len(env)
           to(i) == Present(p.account, p.messages[i])
           task(i, a) == [ep |-> a, envs |-> <<n + i>>]
           NewTask(x, i, a) == /\ i \in 1..m /\ a \in to(i) /\ g = n + i
                               /\ x = <<"deliver", task(i, a), 1>>
           NewStack(x, i) == /\ i \in 1..m /\ to(i) = {} /\ g = n + i
                             /\ x = <<"stack", <<n + i>>, 1>>
<1>2. /\ UNCHANGED <<queue, mboxes>> /\ n \in Nat /\ Guid = 1..n
      /\ \A d \in delivers' : d \in delivers \/ \E i \in 1..m : \E a \in to(i) : d = task(i, a)
      /\ \A s \in stacks' : s \in stacks \/ \E i \in 1..m : to(i) = {} /\ s = <<n + i>>
  <2>1. UNCHANGED <<queue, mboxes>> /\ n \in Nat /\ Guid = 1..n
    BY <1>1, LenProperties DEF Handles, PutMessages2, connVars, mailVars, TypeOK
  <2>2. \A d \in delivers' : d \in delivers \/ \E i \in 1..m : \E a \in to(i) : d = task(i, a)
    BY <1>1 DEF Handles
  <2>3. \A s \in stacks' : s \in stacks \/ \E i \in 1..m : to(i) = {} /\ s = <<n + i>>
    BY <1>1 DEF Handles
  <2> QED
    BY <2>1, <2>2, <2>3
<1>3. \A i, a : task(i, a).envs = <<n + i>>
  OBVIOUS
<1> HIDE DEF task, to
<1>4. ASSUME NEW x \in Holders(g)'
      PROVE  x \in Holders(g) \/ (\E i, a : NewTask(x, i, a)) \/ \E i : NewStack(x, i)
  <2>1. PlaceOf(x, g)'
    BY NextHolderPlaces
  <2>2. CASE AQueue(x, g)' \/ ABox(x, g)'
    <3>1. AQueue(x, g) \/ ABox(x, g)
      BY <1>2, <2>2 DEF AQueue, ABox, InQueue, InBox
    <3> QED
      BY <3>1, HolderPlaces DEF PlaceOf
  <2>3. CASE ADeliver(x, g)'
    <3>1. PICK d, j : InDeliver(g, d, j)' /\ x = <<"deliver", d, j>>
      BY <2>3 DEF ADeliver
    <3>2. CASE d \in delivers
      BY <3>1, <3>2, Holds DEF InDeliver
    <3>3. CASE d \notin delivers
      <4>1. PICK i \in 1..m : \E a \in to(i) : d = task(i, a)
        BY <1>2, <3>1, <3>3 DEF InDeliver
      <4>2. PICK a \in to(i) : d = task(i, a)
        BY <4>1
      <4>3. j \in DOMAIN <<n + i>> /\ <<n + i>>[j] = g
        BY <1>3, <3>1, <4>2 DEF InDeliver
      <4>4. j = 1 /\ g = n + i
        BY <4>3, Singleton
      <4> QED
        BY <3>1, <4>2, <4>4
    <3> QED
      BY <3>2, <3>3
  <2>4. CASE AStack(x, g)'
    <3>1. PICK s, j : InStack(g, s, j)' /\ x = <<"stack", s, j>>
      BY <2>4 DEF AStack
    <3>2. CASE s \in stacks
      BY <3>1, <3>2, Holds DEF InStack
    <3>3. CASE s \notin stacks
      <4>1. PICK i \in 1..m : to(i) = {} /\ s = <<n + i>>
        BY <1>2, <3>1, <3>3 DEF InStack
      <4>2. j = 1 /\ g = n + i
        BY <3>1, <4>1, Singleton DEF InStack
      <4> QED
        BY <3>1, <4>1, <4>2
    <3> QED
      BY <3>2, <3>3
  <2> QED
    BY <2>1, <2>2, <2>3, <2>4 DEF PlaceOf
<1>5. CASE g \in Guid
  <2>1. \A x, i, a : ~ NewTask(x, i, a) /\ ~ NewStack(x, i)
    BY <1>2, <1>5
  <2> QED
    BY <1>4, <2>1 DEF OnePlace, KeptOnce
<1>6. CASE g \notin Guid
  <2>1. Holders(g) = {}
    BY <1>6, HeldExist
  <2>2. \A i, a, b : a \in to(i) /\ b \in to(i) => a = b
    BY DEF OnePresent, Present, to
  <2>3. \A x, y, i, j, a, b : NewTask(x, i, a) /\ NewTask(y, j, b) => x = y
    <3>1. ASSUME NEW x, NEW y, NEW i, NEW j, NEW a, NEW b, NewTask(x, i, a), NewTask(y, j, b)
          PROVE  x = y
      <4>1. i = j
        BY <1>2, <3>1
      <4>2. a = b
        BY <2>2, <3>1, <4>1
      <4> QED
        BY <3>1, <4>1, <4>2
    <3> QED
      BY <3>1
  <2>4. \A x, y, i, j, a : ~(NewTask(x, i, a) /\ NewStack(y, j))
    <3>1. ASSUME NEW x, NEW y, NEW i, NEW j, NEW a, NewTask(x, i, a), NewStack(y, j)
          PROVE  FALSE
      <4>1. i = j
        BY <1>2, <3>1
      <4> QED
        BY <3>1, <4>1
    <3> QED
      BY <3>1
  <2>5. \A x, y, i, j : NewStack(x, i) /\ NewStack(y, j) => x = y
    <3>1. ASSUME NEW x, NEW y, NEW i, NEW j, NewStack(x, i), NewStack(y, j)
          PROVE  x = y
      <4>1. i = j
        BY <1>2, <3>1
      <4> QED
        BY <3>1, <4>1
    <3> QED
      BY <3>1
  <2> HIDE DEF NewTask, NewStack
  <2> QED
    BY <1>4, <1>6, <2>1, <2>3, <2>4, <2>5 DEF OnePlace
<1> QED
  BY <1>5, <1>6 DEF KeptOnce

\* delivered() drops the acknowledged envelope from its only place and gives
\* the receipt one place.
LEMMA OnceDelivered ==
  ASSUME TypeOK, HeadOutstanding, NEW d \in delivereds, Delivered(d), d.code = "OK",
         NEW g, OnePlace(g)
  PROVE  /\ OnePlace(g)' /\ (g \in Guid => KeptOnce(g))
         /\ g = d.env => Holders(g)' = {}
<1> DEFINE e == d.ep
           q == queue[e]
           n == Len(env)
           t == [ep |-> env[d.env].origin, envs |-> <<n + 1>>]
           w == IF delivers' = delivers THEN <<"stack", <<n + 1>>, 1>> ELSE <<"deliver", t, 1>>
           Stays(x) == x \in Holders(g) /\ \A i : x # <<"queue", e, i>>
           Shifts(x, i) == /\ i \in Nat \ {0} /\ x = <<"queue", e, i>>
                           /\ <<"queue", e, i + 1>> \in Holders(g)
           New(x) == g = n + 1 /\ x = w
<1>1. /\ e \in Endpoint /\ q \in Seq(Guid) /\ d.env \in Guid /\ DOMAIN queue = Endpoint
      /\ n \in Nat /\ Guid = 1..n
  BY LenProperties DEF TypeOK, Guid
<1>2. q # <<>> /\ Head(q) = d.env
  BY DEF HeadOutstanding
<1>3. /\ queue' = [queue EXCEPT ![e] = Tail(q)] /\ SendReceipt(e, d.env)
      /\ mboxes' = mboxes
  BY DEF Delivered, mailVars
<1>4. /\ Len(q) \in Nat /\ DOMAIN q = 1..Len(q) /\ q[1] = d.env
      /\ \A i \in DOMAIN Tail(q) : /\ i \in Nat \ {0} /\ i + 1 \in DOMAIN q
                                   /\ Tail(q)[i] = q[i + 1]
  <2>1. Len(q) \in Nat /\ DOMAIN q = 1..Len(q)
    BY <1>1, LenProperties
  <2>2. /\ Head(q) = q[1]
        /\ Tail(q) \in Seq(Guid) /\ Len(Tail(q)) = Len(q) - 1
        /\ \A i \in 1..Len(Tail(q)) : Tail(q)[i] = q[i + 1]
    <3> HIDE DEF q
    <3> QED
      BY <1>1, <1>2, HeadTailProperties
  <2>3. DOMAIN Tail(q) = 1..Len(Tail(q))
    BY <2>2, LenProperties
  <2> QED
    BY <1>2, <2>1, <2>2, <2>3
<1>5. \/ delivers' = delivers /\ stacks' = stacks
      \/ delivers' = delivers \cup {t} /\ stacks' = stacks
      \/ delivers' = delivers /\ stacks' = stacks \cup {<<n + 1>>}
  BY <1>1, <1>3, SendReceiptFacts
<1>6. t.envs = <<n + 1>>
  OBVIOUS
<1> HIDE DEF e, q, t
<1>7. ASSUME NEW x \in Holders(g)'
      PROVE  Stays(x) \/ (\E i : Shifts(x, i)) \/ New(x)
  <2>1. PlaceOf(x, g)'
    BY NextHolderPlaces
  <2>2. CASE AQueue(x, g)'
    <3>1. PICK a, i : InQueue(g, a, i)' /\ x = <<"queue", a, i>>
      BY <2>2 DEF AQueue
    <3>2. CASE a = e
      <4>1. i \in DOMAIN Tail(q) /\ Tail(q)[i] = g
        BY <1>1, <1>3, <3>1, <3>2 DEF InQueue
      <4>2. i \in Nat \ {0} /\ InQueue(g, e, i + 1)
        BY <1>1, <1>4, <4>1 DEF InQueue, q
      <4> QED
        BY <3>1, <3>2, <4>2, Holds
    <3>3. CASE a # e
      <4>1. InQueue(g, a, i)
        BY <1>1, <1>3, <3>1, <3>3 DEF InQueue
      <4> QED
        BY <3>1, <3>3, <4>1, Holds
    <3> QED
      BY <3>2, <3>3
  <2>3. CASE ADeliver(x, g)'
    <3>1. PICK c, j : InDeliver(g, c, j)' /\ x = <<"deliver", c, j>>
      BY <2>3 DEF ADeliver
    <3>2. CASE c \in delivers
      <4>1. x \in Holders(g)
        BY <3>1, <3>2, Holds DEF InDeliver
      <4> QED
        BY <3>1, <4>1
    <3>3. CASE c \notin delivers
      <4>1. c = t /\ delivers' # delivers
        BY <1>5, <3>1, <3>3 DEF InDeliver
      <4>2. j \in DOMAIN <<n + 1>> /\ <<n + 1>>[j] = g
        BY <1>6, <3>1, <4>1 DEF InDeliver
      <4>3. j = 1 /\ g = n + 1
        BY <4>2, Singleton
      <4> QED
        BY <3>1, <4>1, <4>3
    <3> QED
      BY <3>2, <3>3
  <2>4. CASE AStack(x, g)'
    <3>1. PICK s, j : InStack(g, s, j)' /\ x = <<"stack", s, j>>
      BY <2>4 DEF AStack
    <3>2. CASE s \in stacks
      <4>1. x \in Holders(g)
        BY <3>1, <3>2, Holds DEF InStack
      <4> QED
        BY <3>1, <4>1
    <3>3. CASE s \notin stacks
      <4>1. s = <<n + 1>> /\ delivers' = delivers
        BY <1>5, <3>1, <3>3 DEF InStack
      <4>2. j = 1 /\ g = n + 1
        BY <3>1, <4>1, Singleton DEF InStack
      <4> QED
        BY <3>1, <4>1, <4>2
    <3> QED
      BY <3>2, <3>3
  <2>5. CASE ABox(x, g)'
    <3>1. PICK b, i : InBox(g, b, i) /\ x = <<"mbox", b, i>>
      BY <1>3, <2>5 DEF ABox, InBox
    <3>2. x \in Holders(g)
      BY <3>1, Holds
    <3> QED
      BY <3>1, <3>2
  <2> QED
    BY <2>1, <2>2, <2>3, <2>4, <2>5 DEF PlaceOf
<1>8. \A x, y \in Holders(g) : x = y
  BY DEF OnePlace
<1> HIDE DEF w
<1>9. OnePlace(g)'
  <2>1. \A x, y, i : ~(Stays(x) /\ Shifts(y, i))
    BY <1>8
  <2>2. \A x, y, i, j : Shifts(x, i) /\ Shifts(y, j) => x = y
    BY <1>8
  <2>3. \A x, y, i : ~(New(x) /\ Stays(y)) /\ ~(New(x) /\ Shifts(y, i))
    BY <1>1, HeldExist
  <2>4. \A x, y : Stays(x) /\ Stays(y) => x = y
    BY <1>8
  <2>5. \A x, y : New(x) /\ New(y) => x = y
    OBVIOUS
  <2> HIDE DEF Stays, Shifts, New
  <2> QED
    <3>1. ASSUME NEW x \in Holders(g)', NEW y \in Holders(g)'
          PROVE  x = y
      <4>1. Stays(x) \/ (\E i : Shifts(x, i)) \/ New(x)
        BY <1>7 DEF Stays, Shifts, New
      <4>2. Stays(y) \/ (\E i : Shifts(y, i)) \/ New(y)
        BY <1>7 DEF Stays, Shifts, New
      <4>3. CASE Stays(x)
        BY <2>1, <2>3, <2>4, <4>2, <4>3
      <4>4. CASE \E i : Shifts(x, i)
        BY <2>1, <2>2, <2>3, <4>2, <4>4
      <4>5. CASE New(x)
        BY <2>3, <2>5, <4>2, <4>5
      <4> QED
        BY <4>1, <4>3, <4>4, <4>5
    <3> QED
      BY <3>1 DEF OnePlace
<1>10. ASSUME g \in Guid PROVE Holders(g)' # {} => Holders(g) # {}
  <2>1. g # n + 1
    BY <1>1, <1>10
  <2> QED
    BY <1>7, <2>1
<1>11. ASSUME g = d.env PROVE Holders(g)' = {}
  <2>1. <<"queue", e, 1>> \in Holders(g)
    <3>1. Len(q) # 0
      BY <1>1, <1>2, EmptySeq
    <3>2. InQueue(g, e, 1)
      BY <1>1, <1>4, <1>11, <3>1 DEF InQueue, q
    <3> QED
      BY <3>2, Holds
  <2>2. \A x, i : ~ Stays(x) /\ ~ Shifts(x, i) /\ ~ New(x)
    BY <1>1, <1>8, <1>11, <2>1
  <2> QED
    BY <1>7, <2>2
<1> QED
  BY <1>9, <1>10, <1>11 DEF KeptOnce

\* Every envelope is in at most one place, an acknowledged one in none.
Once ==
  /\ OnePresent
  /\ \A g \in Guid : OnePlace(g)
  /\ \A g \in acked : Holders(g) = {}

\* A registry that changes by login and destruction keeps one connection per
\* client (online.c register()).
LEMMA OnePresentStep ==
  ASSUME TypeOK, OnePresent,
         \/ UNCHANGED online
         \/ \E e \in Endpoint : online' = Register(e)
         \/ \E e \in Endpoint : online' = Forget(e)
  PROVE  OnePresent'
BY DEF OnePresent, Register, Forget

\* Which part of a step can touch the registry.
LEMMA RegistryStep ==
  ASSUME [Next]_vars
  PROVE  \/ UNCHANGED online
         \/ \E e \in Endpoint : online' = Register(e)
         \/ \E e \in Endpoint : online' = Forget(e)
BY DEF Next, EnvironmentNext, ServerNext, Connect, GetWebsocketLogin, ReceiveClose,
  Disconnect, ChatReceiveResponse, PutMessages, Expire, GetWebsocketLogin3, Disconnected,
  Send, PutMessages2, Deliver, Delivered, Stack, vars, epVars

\* A step that makes no envelope and acknowledges none keeps Once when it
\* keeps each envelope in one place.
LEMMA OnceFromKept ==
  ASSUME TypeOK, Once, OnePresent', Guid' = Guid, acked' = acked,
         \A g \in Guid : OnePlace(g) => KeptOnce(g)
  PROVE  Once'
<1>1. \A g \in Guid : OnePlace(g)' /\ (Holders(g) = {} => Holders(g)' = {})
  BY DEF Once, KeptOnce
<1>2. acked \subseteq Guid
  BY DEF TypeOK
<1> QED
  BY <1>1, <1>2 DEF Once

\* No step puts an envelope in a second place.
LEMMA OnceStep == Inv /\ Once /\ [Next]_vars => Once'
<1> SUFFICES ASSUME Inv, Once, [Next]_vars PROVE Once'
  OBVIOUS
<1>1. TypeOK /\ HeadOutstanding /\ OnePresent
  BY DEF Inv, Once
<1>2. OnePresent'
  BY <1>1, OnePresentStep, RegistryStep
<1>3. ASSUME UNCHANGED <<queue, delivers, stacks, mboxes, env, acked>> PROVE Once'
  <2>1. \A g \in Guid : OnePlace(g) => KeptOnce(g)
    BY <1>3, HoldersQuiet DEF OnePlace, KeptOnce
  <2> QED
    BY <1>1, <1>2, <1>3, <2>1, OnceFromKept DEF Guid
<1>4. ASSUME NEW e \in Endpoint, Disconnected(e) PROVE Once'
  <2>1. \A g \in Guid : OnePlace(g) => KeptOnce(g)
    BY <1>1, <1>4, OnceDisconnected
  <2> QED
    BY <1>1, <1>2, <1>4, <2>1, OnceFromKept DEF Guid, Disconnected, histVars
<1>5. ASSUME NEW e \in Endpoint, Send(e) PROVE Once'
  <2>1. \A g \in Guid : OnePlace(g) => KeptOnce(g)
    BY <1>1, <1>5, OnceSend
  <2> QED
    BY <1>1, <1>2, <1>5, <2>1, OnceFromKept DEF Guid, Send, histVars
<1>6. ASSUME NEW d \in delivers, Deliver(d) PROVE Once'
  <2>1. \A g \in Guid : OnePlace(g) => KeptOnce(g)
    BY <1>1, <1>6, OnceDeliver
  <2> QED
    BY <1>1, <1>2, <1>6, <2>1, OnceFromKept DEF Guid, Deliver, histVars
<1>7. ASSUME NEW s \in stacks, Stack(s) PROVE Once'
  <2>1. \A g \in Guid : OnePlace(g) => KeptOnce(g)
    BY <1>1, <1>7, OnceStack
  <2> QED
    BY <1>1, <1>2, <1>7, <2>1, OnceFromKept DEF Guid, Stack, histVars
<1>8. \A g : OnePlace(g)
  BY <1>1, HeldExist DEF Once, OnePlace
<1>9. ASSUME NEW p \in puts, PutMessages2(p) PROVE Once'
  <2>1. \A g : OnePlace(g)' /\ (g \in Guid => KeptOnce(g))
    BY <1>1, <1>8, <1>9, OncePutMessages2
  <2>2. acked' = acked /\ acked \subseteq Guid
    BY <1>1, <1>9 DEF PutMessages2, TypeOK
  <2>3. \A g \in acked : Holders(g)' = {}
    BY <2>1, <2>2 DEF Once, KeptOnce
  <2> QED
    BY <1>2, <2>1, <2>2, <2>3 DEF Once
<1>10. ASSUME NEW d \in delivereds, Delivered(d) PROVE Once'
  <2>1. CASE d.code = "OK"
    <3>1. \A g : /\ OnePlace(g)' /\ (g \in Guid => KeptOnce(g))
                 /\ g = d.env => Holders(g)' = {}
      BY <1>1, <1>8, <1>10, <2>1, OnceDelivered
    <3>2. acked' = acked \cup {d.env} /\ acked \subseteq Guid
      BY <1>1, <1>10, <2>1 DEF Delivered, TypeOK
    <3>3. \A g \in acked' : Holders(g)' = {}
      BY <3>1, <3>2 DEF Once, KeptOnce
    <3> QED
      BY <1>2, <3>1, <3>3 DEF Once
  <2>2. CASE d.code # "OK"
    BY <1>3, <1>10, <2>2 DEF Delivered, connVars, mailVars
  <2> QED
    BY <2>1, <2>2
<1>11. CASE UNCHANGED vars
  BY <1>3, <1>11 DEF vars, connVars, mailVars, taskVars, histVars
<1>12. ASSUME NEW e \in Endpoint,
              \/ Connect(e) \/ GetWebsocketLogin(e) \/ ReceiveClose(e) \/ Disconnect(e)
              \/ \E success \in BOOLEAN : GetWebsocketLogin3(e, success)
              \/ \E g \in outgoing[e], code \in Codes : ChatReceiveResponse(e, g, code)
              \/ \E a \in Account, list \in MessageLists : PutMessages(e, a, list)
       PROVE  Once'
  BY <1>3, <1>12 DEF Connect, GetWebsocketLogin, ReceiveClose, Disconnect,
    GetWebsocketLogin3, ChatReceiveResponse, PutMessages, connVars, mailVars, taskVars, histVars
<1>13. ASSUME NEW g \in messages, Expire(g) PROVE Once'
  BY <1>3, <1>13 DEF Expire, connVars, taskVars, histVars
<1> QED
  BY <1>4, <1>5, <1>6, <1>7, <1>9, <1>10, <1>11, <1>12, <1>13
  DEF Next, EnvironmentNext, ServerNext

\* Once holds at the start, when nothing is held.
LEMMA OnceInit == Init => Once
BY DEF Init, Once, OnePresent, Guid

\* Once holds in every reachable state.
LEMMA OnceAlways == Spec => []Once
<1>1. Init => Once
  BY OnceInit
<1>2. Inv /\ Once /\ [Next]_vars => Once'
  BY OnceStep
<1> QED
  BY <1>1, <1>2, InvAlways, PTL DEF Spec

\* A message has at most one copy in the server, and none once a client has
\* acknowledged it: no order of logins, lost connections, saved queues and
\* mail boxes delivers it again.
THEOREM DeliveredOnce == Spec => []AtMostOnce
<1>1. Inv /\ Once => AtMostOnce
  <2> SUFFICES ASSUME Once, NEW g \in Guid
               PROVE  Cardinality(Holders(g)) <= (IF g \in acked THEN 0 ELSE 1)
    BY DEF AtMostOnce
  <2>1. CASE Holders(g) = {}
    BY <2>1, FS_EmptySet
  <2>2. CASE Holders(g) # {}
    <3>1. PICK x : Holders(g) = {x}
      BY <2>2 DEF Once, OnePlace
    <3>2. Cardinality(Holders(g)) = 1
      BY <3>1, FS_Singleton
    <3>3. g \notin acked
      BY <2>2 DEF Once
    <3> QED
      BY <3>2, <3>3
  <2> QED
    BY <2>1, <2>2
<1> QED
  BY <1>1, InvAlways, OnceAlways, PTL

(***************************************************************************)
(* What leaves the server                                                  *)
(***************************************************************************)

\* An enumeration of a finite set lists all of it.
LEMMA ListingAll ==
  ASSUME NEW T, IsFiniteSet(T), NEW s \in SetToSeqs(T), NEW t \in T
  PROVE  \E i \in DOMAIN s : s[i] = t
<1> DEFINE c == Cardinality(T)
<1>1. c \in Nat
  BY FS_CardinalityType
<1>2. s \in [1..c -> T] /\ \A i, j \in 1..c : i # j => s[i] # s[j]
  BY DEF SetToSeqs
<1>3. IsFiniteSet(1..c) /\ Cardinality(1..c) = c
  BY <1>1, FS_Interval
<1>4. IsFiniteSet(T \ {t}) /\ Cardinality(T \ {t}) = c - 1
  BY FS_RemoveElement
<1> SUFFICES ASSUME \A i \in DOMAIN s : s[i] # t
             PROVE  FALSE
  OBVIOUS
<1>5. s \in [1..c -> T \ {t}]
  BY <1>2
<1>6. Cardinality(T \ {t}) < Cardinality(1..c)
  BY <1>1, <1>3, <1>4
<1> DEFINE D == 1..c
           R == T \ {t}
<1>7. IsFiniteSet(D) /\ IsFiniteSet(R) /\ Cardinality(R) < Cardinality(D) /\ s \in [D -> R]
  BY <1>3, <1>4, <1>5, <1>6
<1>8. \A i, j \in D : i # j => s[i] # s[j]
  BY <1>2
<1> HIDE DEF D, R
<1>9. \E i, j \in D : i # j /\ s[i] = s[j]
  BY <1>7, FS_PigeonHole
<1> QED
  BY <1>8, <1>9

\* The envelopes of an enumeration of a finite set.
LEMMA ListingElements ==
  ASSUME NEW T, IsFiniteSet(T), NEW s \in SetToSeqs(T)
  PROVE  ToSet(s) = T
BY ListingType, ListingAll DEF ToSet

\* close() saves exactly the envelopes of the given lists.
LEMMA ConcatenationsElements ==
  ASSUME NEW E, NEW t \in Seq(E), NEW S \in SUBSET Seq(DOMAIN t),
         NEW s \in Concatenations(S)
  PROVE  \A g : g \in ToSet(s) <=> \E b \in S : g \in ToSet(b)
<1> DEFINE T == UNION {ToSet(c) : c \in S}
<1>1. T \subseteq DOMAIN t
  BY DEF ToSet
<1>2. IsFiniteSet(T)
  BY <1>1, FiniteGuids
<1>3. s \in SetToSeqs(T)
  BY DEF Concatenations
<1>4. \A g : g \in T <=> \E b \in S : g \in ToSet(b)
  OBVIOUS
<1> HIDE DEF T
<1>5. ToSet(s) = T
  BY <1>2, <1>3, ListingElements
<1> QED
  BY <1>4, <1>5

\* send() takes exactly the unexpired envelopes of the box.
LEMMA UnexpiredElements ==
  ASSUME NEW box \in Seq(Guid), env \in Seq(Envelope), NEW s \in Unexpired(box)
  PROVE  ToSet(s) = ToSet(box) \cap messages
<1> DEFINE T == ToSet(box) \cap messages
<1>1. T \in SUBSET DOMAIN env
  BY DEF ToSet, Guid
<1>2. IsFiniteSet(T)
  BY <1>1, FiniteGuids
<1>3. s \in SetToSeqs(T)
  BY DEF Unexpired
<1> QED
  BY <1>2, <1>3, ListingElements

\* The envelopes of two appended lists.
LEMMA ConcatElements ==
  ASSUME NEW S, NEW s \in Seq(S), NEW t \in Seq(S)
  PROVE  ToSet(s \o t) = ToSet(s) \cup ToSet(t)
<1>1. ASSUME NEW i \in DOMAIN (s \o t)
      PROVE  (s \o t)[i] \in ToSet(s) \cup ToSet(t)
  BY ConcatSources DEF ToSet
<1>2. /\ Len(s) \in Nat /\ Len(t) \in Nat
      /\ DOMAIN s = 1..Len(s) /\ DOMAIN t = 1..Len(t)
  BY LenProperties
<1>3. /\ s \o t \in Seq(S) /\ Len(s \o t) = Len(s) + Len(t)
      /\ \A i \in 1..(Len(s) + Len(t)) :
           (s \o t)[i] = IF i <= Len(s) THEN s[i] ELSE t[i - Len(s)]
  BY ConcatProperties
<1>4. DOMAIN (s \o t) = 1..(Len(s) + Len(t))
  BY <1>3, LenProperties
<1>5. ASSUME NEW i \in DOMAIN s
      PROVE  s[i] \in ToSet(s \o t)
  BY <1>2, <1>3, <1>4 DEF ToSet
<1>6. ASSUME NEW i \in DOMAIN t
      PROVE  t[i] \in ToSet(s \o t)
  <2>1. /\ Len(s) + i \in DOMAIN (s \o t) /\ ~(Len(s) + i <= Len(s))
        /\ (Len(s) + i) - Len(s) = i
    BY <1>2, <1>4
  <2>2. (s \o t)[Len(s) + i] = t[i]
    BY <1>3, <1>4, <2>1
  <2> QED
    BY <2>1, <2>2 DEF ToSet
<1> QED
  BY <1>1, <1>5, <1>6 DEF ToSet

\* The envelopes of a list are its first and those of the rest.
LEMMA HeadTailElements ==
  ASSUME NEW S, NEW s \in Seq(S), s # <<>>
  PROVE  ToSet(s) = {Head(s)} \cup ToSet(Tail(s))
<1>1. Len(s) \in Nat /\ DOMAIN s = 1..Len(s) /\ Len(s) # 0
  BY EmptySeq, LenProperties
<1>2. /\ Tail(s) \in Seq(S) /\ Len(Tail(s)) = Len(s) - 1
      /\ \A i \in 1..Len(Tail(s)) : Tail(s)[i] = s[i + 1]
  BY HeadTailProperties
<1>3. DOMAIN Tail(s) = 1..(Len(s) - 1)
  BY <1>2, LenProperties
<1>4. Head(s) = s[1]
  OBVIOUS
<1>5. ASSUME NEW i \in DOMAIN s
      PROVE  s[i] \in {Head(s)} \cup ToSet(Tail(s))
  <2>1. CASE i = 1
    BY <1>4, <2>1
  <2>2. CASE i # 1
    <3>1. i - 1 \in DOMAIN Tail(s) /\ (i - 1) + 1 = i
      BY <1>1, <1>3, <2>2
    <3>2. Tail(s)[i - 1] = s[i]
      BY <1>2, <1>3, <3>1
    <3> QED
      BY <3>1, <3>2 DEF ToSet
  <2> QED
    BY <2>1, <2>2
<1>6. ASSUME NEW i \in DOMAIN Tail(s)
      PROVE  Tail(s)[i] \in ToSet(s)
  BY <1>1, <1>2, <1>3 DEF ToSet
<1>7. Head(s) \in ToSet(s)
  BY <1>1, <1>4 DEF ToSet
<1> QED
  BY <1>5, <1>6, <1>7 DEF ToSet

\* An envelope waits in a queue, in an argument, or in a mail box while the
\* message store still has it.
Waits(g) ==
  \/ \E e \in Endpoint : g \in ToSet(queue[e])
  \/ \E d \in delivers : g \in ToSet(d.envs)
  \/ \E s \in stacks : g \in ToSet(s)
  \/ g \in messages /\ \E b \in Box : g \in ToSet(mboxes[b])

\* The places of the envelopes that can still reach a client.
LEMMA WaitingPlaces == \A g : g \in Waiting <=> Waits(g)
BY DEF Waiting, Queued, Delivering, Stacking, Filed, Waits

\* The same of the next state.
LEMMA NextWaitingPlaces == \A g : g \in Waiting' <=> Waits(g)'
<1>1. (\A g : g \in Waiting <=> Waits(g))'
  BY WaitingPlaces, PTL
<1> QED
  BY <1>1

\* What waits is held.
LEMMA WaitsIsHeld == \A g : Waits(g) => Holders(g) # {}
<1> SUFFICES ASSUME NEW g, Waits(g) PROVE \E x : x \in Holders(g)
  OBVIOUS
<1>1. \/ \E e, i : InQueue(g, e, i)
      \/ \E d, i : InDeliver(g, d, i)
      \/ \E s, i : InStack(g, s, i)
      \/ \E b, i : InBox(g, b, i)
  BY DEF Waits, ToSet, InQueue, InDeliver, InStack, InBox
<1> QED
  BY <1>1, Holds

\* The same of the next state.
LEMMA NextWaitsIsHeld == \A g : Waits(g)' => Holders(g)' # {}
<1>1. (\A g : Waits(g) => Holders(g) # {})'
  BY WaitsIsHeld, PTL
<1> QED
  BY <1>1

\* What is about to be stacked is in the argument once.
LEMMA StackedOnce ==
  ASSUME NEW s \in stacks, \A g : OnePlace(g), NEW i \in DOMAIN s, NEW j \in DOMAIN s,
         s[i] = s[j]
  PROVE  i = j
<1>1. InStack(s[i], s, i) /\ InStack(s[i], s, j)
  BY DEF InStack
<1>2. <<"stack", s, i>> \in Holders(s[i]) /\ <<"stack", s, j>> \in Holders(s[i])
  BY <1>1, Holds
<1>3. <<"stack", s, i>> = <<"stack", s, j>>
  BY <1>2 DEF OnePlace
<1> QED
  BY <1>3

\* deliver() loses nothing.
LEMMA WaitsDeliver ==
  ASSUME TypeOK, NEW d \in delivers, Deliver(d), NEW g
  PROVE  Waits(g)' <=> Waits(g)
<1>1. /\ d.ep \in Endpoint /\ DOMAIN queue = Endpoint
      /\ queue' = [queue EXCEPT ![d.ep] = queue[d.ep] \o d.envs]
      /\ delivers' = delivers \ {d} /\ UNCHANGED <<stacks, mboxes, messages>>
  BY DEF Deliver, mailVars, TypeOK
<1>2. ToSet(queue[d.ep] \o d.envs) = ToSet(queue[d.ep]) \cup ToSet(d.envs)
  BY ConcatElements DEF TypeOK
<1>3. /\ ToSet(queue'[d.ep]) = ToSet(queue[d.ep]) \cup ToSet(d.envs)
      /\ \A e \in Endpoint : e # d.ep => queue'[e] = queue[e]
  BY <1>1, <1>2
<1> QED
  BY <1>1, <1>3 DEF Waits

\* close() loses nothing.
LEMMA WaitsDisconnected ==
  ASSUME TypeOK, NEW e \in Endpoint, Disconnected(e), NEW g
  PROVE  Waits(g)' <=> Waits(g)
<1> DEFINE S == {d.envs : d \in {x \in delivers : x.ep = e}}
<1>1. PICK pending \in Concatenations(S) :
        stacks' = stacks \cup (IF queue[e] \o pending # <<>>
                               THEN {queue[e] \o pending} ELSE {})
  BY DEF Disconnected
<1> DEFINE new == queue[e] \o pending
<1>2. S \in SUBSET Seq(DOMAIN env) /\ env \in Seq(Envelope)
  BY DEF TypeOK, Guid
<1>3. pending \in Seq(Guid)
  BY <1>2, ConcatenationsType DEF Guid
<1>4. g \in ToSet(pending) <=> \E b \in S : g \in ToSet(b)
  BY <1>2, ConcatenationsElements
<1>5. g \in ToSet(pending) <=> \E d \in delivers : d.ep = e /\ g \in ToSet(d.envs)
  BY <1>4
<1>6. ToSet(new) = ToSet(queue[e]) \cup ToSet(pending)
  BY <1>3, ConcatElements DEF TypeOK
<1>7. new = <<>> => ToSet(new) = {}
  BY DEF ToSet
<1>8. (\E s \in stacks' : g \in ToSet(s)) <=> (\E s \in stacks : g \in ToSet(s)) \/ g \in ToSet(new)
  <2> HIDE DEF new
  <2>1. stacks' = stacks \cup (IF new # <<>> THEN {new} ELSE {})
    BY <1>1 DEF new
  <2> QED
    BY <1>7, <2>1
<1>9. /\ ToSet(queue'[e]) = {} /\ \A a \in Endpoint : a # e => queue'[a] = queue[a]
      /\ delivers' = {d \in delivers : d.ep # e} /\ UNCHANGED <<mboxes, messages>>
  BY DEF Disconnected, mailVars, TypeOK, ToSet
<1> HIDE DEF new, S
<1> QED
  BY <1>5, <1>6, <1>8, <1>9 DEF Waits

\* send() loses nothing that has not expired.
LEMMA WaitsSend ==
  ASSUME TypeOK, NEW e \in Endpoint, Send(e), NEW g
  PROVE  Waits(g)' <=> Waits(g)
<1> DEFINE box == Owner[e]
<1>1. UNCHANGED <<queue, stacks, messages>>
  BY DEF Send, connVars
<1>2. DOMAIN mboxes = Box /\ mboxes[box] \in Seq(Guid) /\ env \in Seq(Envelope) /\ box \in Box
  BY OwnerAssumption DEF TypeOK, Client, Box
<1>3. CASE UNCHANGED <<mboxes, delivers>>
  BY <1>1, <1>3 DEF Waits
<1>4. CASE ~ UNCHANGED <<mboxes, delivers>>
  <2>1. PICK envs \in Unexpired(mboxes[box]) :
          delivers' = delivers \cup
            (IF envs # <<>> THEN {[ep |-> e, envs |-> envs]} ELSE {})
    BY <1>4 DEF Send
  <2>2. mboxes' = [mboxes EXCEPT ![box] = <<>>]
    BY <1>4 DEF Send
  <2>3. ToSet(envs) = ToSet(mboxes[box]) \cap messages
    BY <1>2, UnexpiredElements
  <2>4. ToSet(mboxes'[box]) = {} /\ \A b \in Box : b # box => mboxes'[b] = mboxes[b]
    BY <1>2, <2>2 DEF ToSet
  <2>5. envs = <<>> => ToSet(envs) = {}
    BY DEF ToSet
  <2>6. (\E d \in delivers' : g \in ToSet(d.envs)) <=>
          (\E d \in delivers : g \in ToSet(d.envs)) \/ g \in ToSet(envs)
    <3> DEFINE new == [ep |-> e, envs |-> envs]
    <3>1. delivers' = delivers \cup (IF envs # <<>> THEN {new} ELSE {}) /\ new.envs = envs
      BY <2>1
    <3> HIDE DEF new
    <3> QED
      BY <2>5, <3>1
  <2> HIDE DEF box
  <2> QED
    BY <1>1, <1>2, <2>3, <2>4, <2>6 DEF Waits
<1> QED
  BY <1>3, <1>4

\* stack() files its argument, or loses it because a part of it is still in
\* the message store.
LEMMA WaitsStack ==
  ASSUME TypeOK, StacksNonEmpty, \A g : OnePlace(g), NEW s \in stacks, Stack(s)
  PROVE  \/ \A g : Waits(g)' <=> Waits(g)
         \/ /\ \A g : Waits(g)' => Waits(g)
            /\ \A g : Waits(g) /\ ~ Waits(g)' => g \in ToSet(s)
            /\ s \in stacks \ stacks' /\ ToSet(s) \cap messages # {}
<1>1. stacks' = stacks \ {s} /\ UNCHANGED <<queue, delivers>>
  BY DEF Stack, connVars
<1>2. \A i, j \in DOMAIN s : s[i] = s[j] => i = j
  BY StackedOnce
<1>3. CASE ToSet(s) \cap messages = {}
  <2> DEFINE box == [id |-> env[s[1]].destinationId,
                     deviceId |-> env[s[1]].destinationDeviceId]
  <2>1. /\ mboxes' = [mboxes EXCEPT ![box] = mboxes[box] \o s]
        /\ messages' = messages \cup ToSet(s)
    BY <1>2, <1>3 DEF Stack
  <2>2. box \in Box
    <3>1. s \in Seq(Guid) /\ s # <<>> /\ Len(s) \in Nat
      BY LenProperties DEF TypeOK, StacksNonEmpty
    <3>2. Len(s) # 0
      BY <3>1, EmptySeq
    <3>3. s[1] \in Guid
      BY <3>1, <3>2, ElementOfSeq
    <3>4. env[s[1]] \in Envelope
      BY <3>3, EnvelopeAt
    <3> QED
      BY <3>4 DEF Envelope, Box
  <2>3. DOMAIN mboxes = Box /\ mboxes[box] \in Seq(Guid) /\ s \in Seq(Guid)
    BY <2>2 DEF TypeOK
  <2>4. ToSet(mboxes[box] \o s) = ToSet(mboxes[box]) \cup ToSet(s)
    BY <2>3, ConcatElements
  <2> HIDE DEF box
  <2>5. /\ ToSet(mboxes'[box]) = ToSet(mboxes[box]) \cup ToSet(s)
        /\ \A b \in Box : b # box => mboxes'[b] = mboxes[b]
    BY <2>1, <2>2, <2>3, <2>4
  <2>6. ASSUME NEW g PROVE Waits(g)' <=> Waits(g)
    <3>1. CASE g \in ToSet(s)
      BY <2>1, <2>2, <2>5, <3>1 DEF Waits
    <3>2. CASE g \notin ToSet(s)
      BY <1>1, <2>1, <2>2, <2>5, <3>2 DEF Waits
    <3> QED
      BY <3>1, <3>2
  <2> QED
    BY <2>6
<1>4. CASE ToSet(s) \cap messages # {}
  <2>1. UNCHANGED <<mboxes, messages>>
    BY <1>4 DEF Stack, mailVars
  <2>2. \A g : Waits(g)' => Waits(g)
    BY <1>1, <2>1 DEF Waits
  <2>3. \A g : Waits(g) /\ ~ Waits(g)' => g \in ToSet(s)
    BY <1>1, <2>1 DEF Waits
  <2> QED
    BY <1>1, <1>4, <2>2, <2>3
<1> QED
  BY <1>3, <1>4

\* putMessages2(): every new envelope waits, and nothing is lost.
LEMMA WaitsPutMessages2 ==
  ASSUME TypeOK, NEW p \in puts, PutMessages2(p)
  PROVE  /\ Guid \subseteq Guid' /\ acked' = acked
         /\ \A g : Waits(g)' <=> Waits(g) \/ g \in Guid' \ Guid
<1>1. PICK m \in Nat : Handles(p, m)
  BY PutMessages2Handles
<1> DEFINE n == Len(env)
           to(i) == Present(p.account, p.messages[i])
           task(i, a) == [ep |-> a, envs |-> <<n + i>>]
<1>2. /\ UNCHANGED <<queue, mboxes, messages, acked>> /\ n \in Nat
      /\ Guid = 1..n /\ Guid' = 1..(n + m)
  BY <1>1, LenProperties DEF Handles, PutMessages2, connVars, mailVars, TypeOK
<1>3. /\ delivers \subseteq delivers'
      /\ \A d \in delivers' : d \in delivers \/ \E i \in 1..m : \E a \in to(i) : d = task(i, a)
      /\ \A i \in 1..m : \A a \in to(i) : task(i, a) \in delivers'
  <2>1. delivers' = delivers \cup UNION {{task(i, a) : a \in to(i)} : i \in 1..m}
    BY <1>1 DEF Handles
  <2> HIDE DEF task, to
  <2> QED
    BY <2>1
<1>4. /\ stacks \subseteq stacks'
      /\ \A s \in stacks' : s \in stacks \/ \E i \in 1..m : to(i) = {} /\ s = <<n + i>>
      /\ \A i \in 1..m : to(i) = {} => <<n + i>> \in stacks'
  BY <1>1 DEF Handles
<1>5. \A i, a : ToSet(task(i, a).envs) = {n + i} /\ ToSet(<<n + i>>) = {n + i}
  BY DEF ToSet
<1> HIDE DEF task, to
<1>6. ASSUME NEW g, Waits(g)' PROVE Waits(g) \/ g \in Guid' \ Guid
  <2>1. CASE \E d \in delivers' : g \in ToSet(d.envs)
    <3>1. PICK d \in delivers' : g \in ToSet(d.envs)
      BY <2>1
    <3>2. CASE d \in delivers
      BY <3>1, <3>2 DEF Waits
    <3>3. CASE d \notin delivers
      <4>1. PICK i \in 1..m : \E a \in to(i) : d = task(i, a)
        BY <1>3, <3>1, <3>3
      <4>2. g = n + i
        BY <1>5, <3>1, <4>1
      <4> QED
        BY <1>2, <4>2
    <3> QED
      BY <3>2, <3>3
  <2>2. CASE \E s \in stacks' : g \in ToSet(s)
    <3>1. PICK s \in stacks' : g \in ToSet(s)
      BY <2>2
    <3>2. CASE s \in stacks
      BY <3>1, <3>2 DEF Waits
    <3>3. CASE s \notin stacks
      <4>1. \E i \in 1..m : g = n + i
        BY <1>4, <1>5, <3>1, <3>3
      <4> QED
        BY <1>2, <4>1
    <3> QED
      BY <3>2, <3>3
  <2> QED
    BY <1>2, <1>6, <2>1, <2>2 DEF Waits
<1>7. ASSUME NEW g, Waits(g) PROVE Waits(g)'
  BY <1>2, <1>3, <1>4, <1>7 DEF Waits
<1>8. ASSUME NEW g \in Guid' \ Guid PROVE Waits(g)'
  <2>1. PICK i \in 1..m : g = n + i
    <3>1. g - n \in 1..m /\ g = n + (g - n)
      BY <1>2
    <3> QED
      BY <3>1
  <2>2. (\E d \in delivers' : g \in ToSet(d.envs)) \/ (\E s \in stacks' : g \in ToSet(s))
    <3>1. CASE to(i) = {}
      BY <1>4, <1>5, <2>1, <3>1
    <3>2. CASE to(i) # {}
      BY <1>3, <1>5, <2>1, <3>2
    <3> QED
      BY <3>1, <3>2
  <2> QED
    BY <2>2 DEF Waits
<1> QED
  BY <1>2, <1>6, <1>7, <1>8

\* delivered(): the acknowledged envelope is gone, the receipt waits, and
\* nothing else is lost.
LEMMA WaitsDelivered ==
  ASSUME TypeOK, HeadOutstanding, \A g : OnePlace(g),
         NEW d \in delivereds, Delivered(d), d.code = "OK"
  PROVE  /\ Guid \subseteq Guid' /\ acked' = acked \cup {d.env} /\ Waits(d.env)
         /\ \A g : Waits(g)' <=> (Waits(g) /\ g # d.env) \/ g \in Guid' \ Guid
<1> DEFINE e == d.ep
           q == queue[e]
           n == Len(env)
           t == [ep |-> env[d.env].origin, envs |-> <<n + 1>>]
<1>1. /\ e \in Endpoint /\ q \in Seq(Guid) /\ d.env \in Guid /\ DOMAIN queue = Endpoint
      /\ n \in Nat /\ Guid = 1..n
  BY LenProperties DEF TypeOK, Guid
<1>2. q # <<>> /\ Head(q) = d.env
  BY DEF HeadOutstanding
<1>3. /\ queue' = [queue EXCEPT ![e] = Tail(q)] /\ SendReceipt(e, d.env)
      /\ UNCHANGED <<mboxes, messages>> /\ acked' = acked \cup {d.env}
  BY DEF Delivered, mailVars
<1>4. ToSet(q) = {d.env} \cup ToSet(Tail(q))
  BY <1>1, <1>2, HeadTailElements
<1>5. /\ Guid \subseteq Guid'
      /\ \/ Guid' = Guid /\ delivers' = delivers /\ stacks' = stacks
         \/ Guid' = Guid \cup {n + 1} /\ delivers' = delivers \cup {t} /\ stacks' = stacks
         \/ Guid' = Guid \cup {n + 1} /\ delivers' = delivers /\ stacks' = stacks \cup {<<n + 1>>}
  BY <1>1, <1>3, SendReceiptFacts
<1>6. ToSet(t.envs) = {n + 1} /\ ToSet(<<n + 1>>) = {n + 1} /\ n + 1 \notin Guid
  BY <1>1 DEF ToSet
<1>7. ~ Waits(d.env)'
  <2>1. Holders(d.env)' = {}
    BY OnceDelivered
  <2> QED
    BY <2>1, NextWaitsIsHeld
<1> DEFINE r == <<n + 1>>
<1>8. /\ \/ Guid' = Guid /\ delivers' = delivers /\ stacks' = stacks
         \/ Guid' = Guid \cup {n + 1} /\ delivers' = delivers \cup {t} /\ stacks' = stacks
         \/ Guid' = Guid \cup {n + 1} /\ delivers' = delivers /\ stacks' = stacks \cup {r}
      /\ ToSet(t.envs) = {n + 1} /\ ToSet(r) = {n + 1}
  BY <1>5, <1>6
<1> HIDE DEF e, q, t, n, r
<1>9. /\ ToSet(queue'[e]) = ToSet(Tail(q)) /\ ToSet(queue[e]) = {d.env} \cup ToSet(Tail(q))
      /\ \A a \in Endpoint : a # e => queue'[a] = queue[a]
  BY <1>1, <1>3, <1>4 DEF q
<1>10. Waits(d.env)
  BY <1>1, <1>9 DEF Waits
<1>11. ASSUME NEW g, g # d.env
       PROVE  /\ (\E a \in Endpoint : g \in ToSet(queue'[a])) <=>
                   \E a \in Endpoint : g \in ToSet(queue[a])
              /\ (\E c \in delivers' : g \in ToSet(c.envs)) \/ (\E s \in stacks' : g \in ToSet(s))
                   <=> \/ \E c \in delivers : g \in ToSet(c.envs)
                       \/ \E s \in stacks : g \in ToSet(s)
                       \/ g \in Guid' \ Guid
  <2>1. (\E a \in Endpoint : g \in ToSet(queue'[a])) <=> \E a \in Endpoint : g \in ToSet(queue[a])
    BY <1>1, <1>9, <1>11
  <2>2. (\E c \in delivers' : g \in ToSet(c.envs)) \/ (\E s \in stacks' : g \in ToSet(s))
          <=> \/ \E c \in delivers : g \in ToSet(c.envs)
              \/ \E s \in stacks : g \in ToSet(s)
              \/ g \in Guid' \ Guid
    BY <1>6, <1>8
  <2> QED
    BY <2>1, <2>2
<1>12. ASSUME NEW g, g # d.env
       PROVE  Waits(g)' <=> Waits(g) \/ g \in Guid' \ Guid
  BY <1>3, <1>11, <1>12 DEF Waits
<1>13. d.env \notin Guid' \ Guid
  BY <1>1
<1> QED
  BY <1>3, <1>5, <1>7, <1>10, <1>12, <1>13

\* The four kinds of steps, seen from the envelopes that wait: nothing
\* changes, some are dropped (expired, or part of a failed stack()), new ones
\* are accepted, or one is acknowledged and its receipt accepted.
WaitingKept == Waiting' = Waiting /\ Guid' = Guid /\ acked' = acked
WaitingDropped ==
  /\ Waiting' \subseteq Waiting /\ Guid' = Guid /\ acked' = acked
  /\ \A g \in Waiting \ Waiting' :
       \/ g \in messages /\ g \notin messages'
       \/ \E s \in stacks \ stacks' : g \in ToSet(s) /\ ToSet(s) \cap messages # {}
WaitingAccepted ==
  /\ Waiting' = Waiting \cup (Guid' \ Guid) /\ Guid \subseteq Guid' /\ acked' = acked
WaitingAcknowledged ==
  \E g \in Waiting \ acked :
    /\ Waiting' = (Waiting \ {g}) \cup (Guid' \ Guid)
    /\ Guid \subseteq Guid' /\ acked' = acked \cup {g}
WaitingStep ==
  WaitingKept \/ WaitingDropped \/ WaitingAccepted \/ WaitingAcknowledged

\* Every step is of one of the four kinds.
LEMMA EveryWaitingStep ==
  ASSUME Inv, Once, [Next]_vars
  PROVE  WaitingStep
<1>1. TypeOK /\ HeadOutstanding /\ StacksNonEmpty
  BY DEF Inv
<1>2. \A g : OnePlace(g)
  BY <1>1, HeldExist DEF Once, OnePlace
<1>3. ASSUME \A g : Waits(g)' <=> Waits(g), Guid' = Guid, acked' = acked
      PROVE  WaitingStep
  <2>1. \A g : g \in Waiting' <=> g \in Waiting
    BY <1>3, WaitingPlaces, NextWaitingPlaces
  <2> QED
    BY <1>3, <2>1 DEF WaitingStep, WaitingKept
<1>4. ASSUME UNCHANGED <<queue, delivers, stacks, mboxes, messages, env, acked>>
      PROVE  WaitingStep
  BY <1>3, <1>4 DEF Waits, Guid
<1>5. ASSUME NEW e \in Endpoint, Disconnected(e) PROVE WaitingStep
  BY <1>1, <1>3, <1>5, WaitsDisconnected DEF Disconnected, Guid, histVars
<1>6. ASSUME NEW e \in Endpoint, Send(e) PROVE WaitingStep
  BY <1>1, <1>3, <1>6, WaitsSend DEF Send, Guid, histVars
<1>7. ASSUME NEW d \in delivers, Deliver(d) PROVE WaitingStep
  BY <1>1, <1>3, <1>7, WaitsDeliver DEF Deliver, Guid, histVars
<1>8. ASSUME NEW s \in stacks, Stack(s) PROVE WaitingStep
  <2>1. Guid' = Guid /\ acked' = acked
    BY <1>8 DEF Stack, Guid, histVars
  <2>2. CASE \A g : Waits(g)' <=> Waits(g)
    BY <1>3, <2>1, <2>2
  <2>3. CASE /\ \A g : Waits(g)' => Waits(g)
             /\ \A g : Waits(g) /\ ~ Waits(g)' => g \in ToSet(s)
             /\ s \in stacks \ stacks' /\ ToSet(s) \cap messages # {}
    <3>1. Waiting' \subseteq Waiting
      BY <2>3, WaitingPlaces, NextWaitingPlaces
    <3>2. \A g \in Waiting \ Waiting' : g \in ToSet(s)
      BY <2>3, WaitingPlaces, NextWaitingPlaces
    <3> QED
      BY <2>1, <2>3, <3>1, <3>2 DEF WaitingStep, WaitingDropped
  <2> QED
    BY <1>1, <1>2, <1>8, <2>2, <2>3, WaitsStack
<1>9. ASSUME NEW g \in messages, Expire(g) PROVE WaitingStep
  <2>1. /\ UNCHANGED <<queue, delivers, stacks, mboxes, acked>> /\ Guid' = Guid
        /\ messages' = messages \ {g}
    BY <1>9 DEF Expire, Guid, connVars, taskVars, histVars
  <2>2. \A h : Waits(h)' => Waits(h)
    BY <2>1 DEF Waits
  <2>3. \A h : Waits(h) /\ ~ Waits(h)' => h = g
    BY <2>1 DEF Waits
  <2>4. Waiting' \subseteq Waiting /\ \A h \in Waiting \ Waiting' : h = g
    BY <2>2, <2>3, WaitingPlaces, NextWaitingPlaces
  <2> QED
    BY <2>1, <2>4 DEF WaitingStep, WaitingDropped
<1>10. ASSUME NEW p \in puts, PutMessages2(p) PROVE WaitingStep
  <2>1. /\ Guid \subseteq Guid' /\ acked' = acked
        /\ \A g : Waits(g)' <=> Waits(g) \/ g \in Guid' \ Guid
    BY <1>1, <1>10, WaitsPutMessages2
  <2>2. \A g : g \in Waiting' <=> g \in Waiting \/ g \in Guid' \ Guid
    BY <2>1, WaitingPlaces, NextWaitingPlaces
  <2> QED
    BY <2>1, <2>2 DEF WaitingStep, WaitingAccepted
<1>11. ASSUME NEW d \in delivereds, Delivered(d) PROVE WaitingStep
  <2>1. CASE d.code = "OK"
    <3>1. /\ Guid \subseteq Guid' /\ acked' = acked \cup {d.env} /\ Waits(d.env)
          /\ \A g : Waits(g)' <=> (Waits(g) /\ g # d.env) \/ g \in Guid' \ Guid
      BY <1>1, <1>2, <1>11, <2>1, WaitsDelivered
    <3>2. \A g : g \in Waiting' <=> (g \in Waiting /\ g # d.env) \/ g \in Guid' \ Guid
      BY <3>1, WaitingPlaces, NextWaitingPlaces
    <3>3. d.env \in Waiting
      BY <3>1, WaitingPlaces
    <3>4. d.env \notin acked
      BY <3>1, WaitsIsHeld DEF Once
    <3>5. Waiting' = (Waiting \ {d.env}) \cup (Guid' \ Guid)
      BY <3>2
    <3> QED
      BY <3>1, <3>3, <3>4, <3>5 DEF WaitingStep, WaitingAcknowledged
  <2>2. CASE d.code # "OK"
    BY <1>4, <1>11, <2>2 DEF Delivered, connVars, mailVars
  <2> QED
    BY <2>1, <2>2
<1>12. CASE UNCHANGED vars
  BY <1>4, <1>12 DEF vars, connVars, mailVars, taskVars, histVars
<1>13. ASSUME NEW e \in Endpoint,
              \/ Connect(e) \/ GetWebsocketLogin(e) \/ ReceiveClose(e) \/ Disconnect(e)
              \/ \E success \in BOOLEAN : GetWebsocketLogin3(e, success)
              \/ \E g \in outgoing[e], code \in Codes : ChatReceiveResponse(e, g, code)
              \/ \E a \in Account, list \in MessageLists : PutMessages(e, a, list)
       PROVE  WaitingStep
  BY <1>4, <1>13 DEF Connect, GetWebsocketLogin, ReceiveClose, Disconnect,
    GetWebsocketLogin3, ChatReceiveResponse, PutMessages, connVars, mailVars, taskVars, histVars
<1> QED
  BY <1>5, <1>6, <1>7, <1>8, <1>9, <1>10, <1>11, <1>12, <1>13
  DEF Next, EnvironmentNext, ServerNext

\* Only an acknowledgement, an expiry or a failed stack() takes a message out
\* of the server, whatever the order of logins, lost connections and tasks.
THEOREM LossesExplained == Spec => OnlyRestackLoses
<1> DEFINE Explained ==
      \A g \in Waiting \ Waiting' :
        \/ g \in acked'
        \/ g \in messages /\ g \notin messages'
        \/ \E s \in stacks \ stacks' : g \in ToSet(s) /\ ToSet(s) \cap messages # {}
<1>1. ASSUME Inv, Once, [Next]_vars
      PROVE  Explained
  BY <1>1, EveryWaitingStep
  DEF WaitingStep, WaitingKept, WaitingDropped, WaitingAccepted, WaitingAcknowledged
<1>2. Inv /\ Once /\ [Next]_vars => [Explained]_vars
  BY <1>1
<1> HIDE DEF Explained
<1>3. Spec => [][Explained]_vars
  BY <1>2, InvAlways, OnceAlways, PTL DEF Spec
<1> QED
  BY <1>3 DEF OnlyRestackLoses, Explained

\* The server of queues, tasks and mail boxes implements the abstract mail
\* service: messages are accepted once, and acknowledged or dropped once.
THEOREM MailRefinement == Spec => ImplementsMailService
<1>1. Init => Mail!MailInit
  <2> SUFFICES ASSUME Init PROVE Guid = {} /\ Waiting = {} /\ acked = {}
    BY DEF Mail!MailInit
  <2>1. \A g : ~ Waits(g)
    BY OwnerAssumption DEF Init, Waits, ToSet
  <2>2. Waiting = {}
    BY <2>1, WaitingPlaces
  <2> QED
    BY <2>2 DEF Init, Guid
<1>2. Inv /\ Once /\ [Next]_vars => [Mail!MailNext]_(Mail!mailVars)
  <2> SUFFICES ASSUME Inv, Once, [Next]_vars
               PROVE  Mail!MailNext \/ UNCHANGED <<Guid, Waiting, acked>>
    BY DEF Mail!mailVars
  <2>1. CASE WaitingKept
    BY <2>1 DEF WaitingKept
  <2>2. CASE WaitingDropped
    BY <2>2 DEF WaitingDropped, Mail!MailNext, Mail!Drop
  <2>3. CASE WaitingAccepted
    BY <2>3 DEF WaitingAccepted, Mail!MailNext, Mail!Accept
  <2>4. CASE WaitingAcknowledged
    BY <2>4 DEF WaitingAcknowledged, Mail!MailNext, Mail!Acknowledge
  <2> QED
    BY <2>1, <2>2, <2>3, <2>4, EveryWaitingStep DEF WaitingStep
<1> QED
  BY <1>1, <1>2, InvAlways, OnceAlways, PTL DEF Spec, ImplementsMailService, Mail!MailSpec
=============================================================================
