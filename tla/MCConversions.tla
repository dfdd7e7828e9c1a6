---------------------------- MODULE MCConversions ----------------------------
(***************************************************************************)
(* What the server computes from a string, in small instances for TLC:     *)
(* phone numbers, days and UUIDs (Conversions), WebSocket messages (Proto) *)
(* and the function that handles a path (RestApi).  A behaviour is one of  *)
(* the kind that part names.                                               *)
(***************************************************************************)
EXTENDS Conversions, RestApi, Proto

CONSTANT Bodies     \* lengths of the bodies of messages; -1 for no body

VARIABLE part

allVars == <<part, vars, protoVars, apiVars>>

AllInit ==
  /\ part \in {"conversions", "proto", "api"}
  /\ Init /\ (part # "conversions" => time = 86400)
  /\ ProtoInit /\ ApiInit

AllNext ==
  \/ part = "conversions" /\ Next /\ UNCHANGED <<part, protoVars, apiVars>>
  \/ part = "proto" /\ ProtoNext /\ UNCHANGED <<part, vars, apiVars>>
  \/ part = "api" /\ ApiNext /\ UNCHANGED <<part, vars, protoVars>>

AllSpec == AllInit /\ [][AllNext]_allVars

\* The ends of days, and the places where a multiple of 128 begins.
MCTimes == {86400 * k + d : k \in {1, 675, 20000}, d \in {-1, 0, 1, 127, 128, 86272}}

\* The last length of one byte, and the first of two.
MCBodies == {-1, 0, 127, 128}

\* A string of one character, or of different bytes.
Char == <<{0, 1, 2, 6}>>
Data(len) == [i \in 1..len |-> {i % 8}]

\* Contexts with the lowest and highest bits of the first and the last of their bytes,
\* so that there are zeroes in front or none; codes are 200, 65 and the one that
\* has only the sign bit.
MCMessages ==
  LET bodies == {IF len = -1 THEN <<>> ELSE <<Data(len)>> : len \in Bodies}
      contexts == {{}, {0}, {7}, {56}, {63}, {0, 63}, {7, 56}}
      headers == {<<>>, <<Data(3)>>, <<Data(2), Char>>} IN
  [type : {"request"}, verb : {Char}, path : {Data(2)}, body : bodies,
   context : contexts, headers : headers]
  \cup [type : {"response"}, context : contexts, code : {{3, 6, 7}, {0, 6}, {31}},
        comment : {Char}, body : bodies, headers : headers]

\* In two, or into pieces of one size.
MCCuts ==
  {<<>>} \cup {<<i>> : i \in 1..180} \cup {[i \in 1..(180 \div k) |-> i * k] : k \in 1..3}
==============================================================================
