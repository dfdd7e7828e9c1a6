---------------------------- MODULE MCCredentials ----------------------------
(***************************************************************************)
(* What sys/credentials.c is for, in small instances for TLC: its keys and *)
(* passwords over restarts (Credentials), and the credentials that are     *)
(* issued with these keys (Zkp).  The latter depends on no more than that  *)
(* the keys stay what they are, which is a property of the former.  A      *)
(* behaviour is one of the module that part names.                         *)
(***************************************************************************)
EXTENDS Credentials

CONSTANTS
  Q,               \* bound: order of the group, prime
  Draws,           \* bound: what Sho may draw, 17 numbers or more
  Challenges,      \* bound: challenges that are drawn
  ProfileKeys      \* what profiles commit to: [j3, M3, M4]

ASSUME QAssumption ==
  /\ Q \in Nat /\ Q > 1
  /\ \A a, b \in 1..(Q - 1) : (a * b) % Q # 0    \* Q is prime
ASSUME DrawsAssumption == \A d \in Draws : d \in Seq(1..(Q - 1)) /\ Len(d) >= 17
ASSUME ChallengesAssumption == Challenges \subseteq 0..(Q - 1)
ASSUME ProfileKeysAssumption ==
  /\ ProfileKeys \subseteq [j3 : 0..(Q - 1), M3 : 0..(Q - 1), M4 : 0..(Q - 1)]
  /\ None \notin ProfileKeys

VARIABLES part, params, keys, stored, msg, outcome

Z == INSTANCE Zkp

\* Three sequences of draws, in which neighbours differ.
MCDraws == {[i \in 1..17 |-> 1 + ((i * i * i + 2 * i) % 6)],
            [i \in 1..17 |-> 1 + ((i * (i \div 3) + 1) % 6)],
            [i \in 1..17 |-> 1 + ((5 * i + 2 * (i \div 4)) % 6)]}

\* Three profile keys: the second and third differ from the first in one point.
MCProfileKeys == {[j3 |-> 2, M3 |-> 4, M4 |-> 3],
                  [j3 |-> 2, M3 |-> 4, M4 |-> 5],
                  [j3 |-> 2, M3 |-> 1, M4 |-> 3]}

zkpVars == <<params, keys, stored, msg, outcome>>
allVars == <<part, vars, zkpVars>>

\* Where a run of Zkp would start does not matter to Credentials.
AllInit ==
  /\ part \in {"credentials", "zkp"} /\ Init /\ Z!Init
  /\ part = "credentials" => params.cred[1] = 4 /\ params.pkc[1] = 4

AllNext ==
  \/ part = "credentials" /\ Next /\ UNCHANGED <<part, zkpVars>>
  \/ part = "zkp" /\ Z!Next /\ UNCHANGED <<part, vars>>

AllSpec == AllInit /\ [][AllNext]_allVars

(***************************************************************************)
(* Properties                                                              *)
(***************************************************************************)

\* Statement.c accepts what was proved, for the equations of all credentials but
\* those for call links.
ProvedIsAccepted == Z!ProvedIsAccepted

\* What ProfileKeyCredentialResponse.c encrypts is the credential of the profile key.
DecryptsToCredential == Z!DecryptsToCredential

\* Statement.c verify() refuses a proof in which any number was changed, and
\* RemoteProfileKeyCredentialRequest.c a request for another profile key than the one
\* that was committed to.
NothingElseIsAccepted == Z!NothingElseIsAccepted

\* CallLinkAuthCredentialResponse.c proves the same three equations, for a key with
\* seven attributes.
CallLinkIsAccepted == Z!CallLinkIsAccepted
==============================================================================
