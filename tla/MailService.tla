----------------------------- MODULE MailService -----------------------------
(***************************************************************************)
(* What the message server promises, without connections, queues, tasks or *)
(* mail boxes: an accepted message waits until its client acknowledges it  *)
(* or it is dropped; both are final.  Delivery implements this.            *)
(***************************************************************************)
VARIABLES
  known,        \* accepted at some time
  waiting,      \* accepted, neither acknowledged nor dropped
  acked         \* acknowledged by the receiving client

mailVars == <<known, waiting, acked>>

MailInit == known = {} /\ waiting = {} /\ acked = {}

\* New messages S are accepted.
Accept(S) ==
  /\ S \cap known = {}
  /\ known' = known \cup S
  /\ waiting' = waiting \cup S
  /\ UNCHANGED acked

\* The client acknowledges g; receipts S for it are accepted.
Acknowledge(g, S) ==
  /\ g \in waiting
  /\ S \cap known = {}
  /\ known' = known \cup S
  /\ waiting' = (waiting \ {g}) \cup S
  /\ acked' = acked \cup {g}

\* Messages S are given up.
Drop(S) ==
  /\ S \subseteq waiting
  /\ waiting' = waiting \ S
  /\ UNCHANGED <<known, acked>>

MailNext ==
  \/ Accept(known' \ known)
  \/ Drop(waiting \ waiting')
  \/ \E g \in acked' \ acked : Acknowledge(g, known' \ known)

MailSpec == MailInit /\ [][MailNext]_mailVars
=============================================================================
