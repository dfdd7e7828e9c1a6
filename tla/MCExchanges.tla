---------------------------- MODULE MCExchanges ----------------------------
(***************************************************************************)
(* The exchanges in which each message waits for the answer to the one     *)
(* before, in small instances for TLC: notifications (FcmSender), messages *)
(* to clients (Delivery), and the messages of the benchmark (Benchmark).   *)
(* The first and the last are users of lib/rest/Client.c, the second of    *)
(* lib/rest/Server.c.  They share no state; a behaviour is one of the      *)
(* exchange named by exchange.                                             *)
(***************************************************************************)
EXTENDS FcmSender

CONSTANTS
  ACCOUNTS, CLIENTS, SENDERS, CORRESPONDENTS, BuildStep, SetupStep,   \* of Benchmark
  MaxRequests                                                         \* of Delivery

ASSUME NumbersAssumption ==
  /\ {ACCOUNTS, CLIENTS, SENDERS, CORRESPONDENTS, BuildStep, SetupStep} \subseteq Nat \ {0}
  /\ SENDERS <= CLIENTS /\ CLIENTS <= ACCOUNTS
  /\ ACCOUNTS % BuildStep = 0 /\ SENDERS % SetupStep = 0

VARIABLES
  exchange,           \* the exchange that is looked at
  stage, client, counter, summand, reports, mailbox, pushed, sent,
  ep, online, mail, state, outgoing, messages, mboxes, env, puts, delivers,
  delivereds, logins, sends, stacks, requests, acked, notified

B == INSTANCE Benchmark

\* alice and bob, with one connection each; bob has two devices.
M == INSTANCE Delivery WITH
  Account <- {"alice", "bob"},
  DeviceId <- {1, 2},
  Devices <- [a \in {"alice", "bob"} |-> IF a = "alice" THEN {1} ELSE {1, 2}],
  Endpoint <- {1, 2},
  Owner <- [e \in {1, 2} |-> [id |-> <<"alice", "bob">>[e], deviceId |-> 1]],
  MessageLists <- {<<1>>},
  Codes <- {"OK"},
  queue <- mail

benchmarkVars == <<stage, client, counter, summand, reports, mailbox, pushed, sent>>
mailVars == <<ep, online, mail, state, outgoing, messages, mboxes, env, puts, delivers,
              delivereds, logins, sends, stacks, requests, acked, notified>>
allVars == <<exchange, vars, benchmarkVars, mailVars>>

ExchangesInit ==
  exchange \in {"fcm", "benchmark", "mail"} /\ Init /\ B!Init /\ M!Init

ExchangesNext ==
  \/ exchange = "fcm" /\ Next /\ UNCHANGED <<exchange, benchmarkVars, mailVars>>
  \/ exchange = "benchmark" /\ B!Next /\ UNCHANGED <<exchange, vars, mailVars>>
  \/ exchange = "mail" /\ M!Next /\ UNCHANGED <<exchange, vars, benchmarkVars>>

\* The driver runs pending call_outs, and what is sent to or by a client of the
\* benchmark arrives.
BenchmarkFairness == WF_benchmarkVars(exchange = "benchmark" /\ B!Next)

\* The fairness of each exchange.  FcmSender and Delivery have nothing to do in their
\* initial states, so their fairness asks for nothing in the behaviours of another
\* exchange; the benchmark starts by itself, and is fair only when it is looked at.
ExchangesSpec ==
  /\ ExchangesInit /\ [][ExchangesNext]_allVars
  /\ Fairness /\ BenchmarkFairness /\ M!Fairness

(***************************************************************************)
(* Properties                                                              *)
(***************************************************************************)

\* The type invariants of FcmSender and Benchmark; that of Delivery is checked for a
\* larger instance.
TypesOK == TypeOK /\ B!TypeOK

\* Messages.c delivers everything that is queued for a connection.
QueueDrains == M!QueueDrains

\* benchmark.c reports its end once, when every sender has finished, however the calls
\* of done() are summed up.
DoneOnceAtTheEnd == B!DoneOnceAtTheEnd
=============================================================================
