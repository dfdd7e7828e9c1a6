------------------------------- MODULE MCChat -------------------------------
(***************************************************************************)
(* The stores behind the chat service, in small instances for TLC:         *)
(* accounts, identities and devices (Accounts), verification sessions      *)
(* (Registration), pre-keys (Keys), attributes and profiles (Profiles).    *)
(* Each of these has stores of its own, and no request writes to two: a    *)
(* behaviour is one of the requests for the stores that part names.        *)
(***************************************************************************)
EXTENDS Accounts, TLC

CONSTANTS
  p1, p2, u1, u2, u3, c1, c2,       \* phone numbers, ids, verification codes
  MaxSessions,                      \* bound: requests for a session
  Owner, OwnDevice, KeyId,          \* accounts, device ids and key ids of Keys
  MaxUploads, MaxQueries,           \* bounds of Keys
  Version, CapSets, GcmId,          \* constants of Profiles
  MaxUpdates                        \* bound: requests of Profiles

ASSUME MoreBoundsAssumption == {MaxSessions, MaxUploads, MaxQueries, MaxUpdates} \subseteq Nat

VARIABLES
  part,                             \* the stores that are looked at
  sessions, sessionIndex, sending, sent, sessionRequests, pushed,
  keys, identityKey, signedPreKey, stores, gets, uploads, queries, given,
  device, gcmId, account, profiles, tasks, updates, writes, announced,
  acknowledged, answers

R == INSTANCE Registration WITH
  SessionId <- Uuid,
  MaxRequests <- MaxSessions,
  phoneIndex <- sessionIndex,
  requests <- sessionRequests

K == INSTANCE Keys WITH
  Account <- Owner,
  DeviceId <- OwnDevice,
  answers <- given

P == INSTANCE Profiles WITH
  MaxRequests <- MaxUpdates,
  requests <- updates

ASSUME KeysAssumption == K!ConstantsOK
ASSUME SessionsAssumption == R!ConstantsOK
ASSUME ProfilesAssumption == P!ConstantsOK

sessionVars == <<sessions, sessionIndex, sending, sent, sessionRequests, pushed>>
keyVars == <<keys, identityKey, signedPreKey, stores, gets, uploads, queries, given>>
profileVars == <<device, gcmId, account, profiles, tasks, updates, writes, announced,
                 acknowledged, answers>>
allVars == <<part, vars, sessionVars, keyVars, profileVars>>

ChatInit ==
  /\ part \in {"accounts", "sessions", "keys", "profiles"}
  /\ Init /\ R!Init /\ K!Init /\ P!Init

ChatNext ==
  \/ part = "accounts" /\ Next /\ UNCHANGED <<part, sessionVars, keyVars, profileVars>>
  \/ part = "sessions" /\ R!Next /\ UNCHANGED <<part, vars, keyVars, profileVars>>
  \/ part = "keys" /\ K!Next /\ UNCHANGED <<part, vars, sessionVars, profileVars>>
  \/ part = "profiles" /\ P!Next /\ UNCHANGED <<part, vars, sessionVars, keyVars>>

ChatSpec == ChatInit /\ [][ChatNext]_allVars

MCSymmetry ==
  Permutations({p1, p2}) \cup Permutations({u1, u2, u3}) \cup Permutations({c1, c2})

(***************************************************************************)
(* Properties                                                              *)
(***************************************************************************)

\* The type invariants of the four modules.
TypesOK == TypeOK /\ R!TypeOK /\ K!TypeOK /\ P!TypeOK

\* The two stores of sys/registration.c agree.
OneSessionPerNumber == R!OneSessionPerNumber

\* A code is sent only for a session whose challenge was pushed (chat/Registration.c).
AcceptedAfterPush == R!AcceptedAfterPush

\* lib/Device.c keeps exactly the capabilities and flags that were announced last.
CapabilitiesKept == P!CapabilitiesKept

\* sys/keys.c gives a one-time pre-key away once, and chat/Keys.c never with older
\* signed keys.
KeysFit == K!KeysFit

\* What chat/Accounts.c and chat/Profile.c acknowledged is what they show, and a
\* credential belongs to the profile it comes with.
AnswersAreTrue == P!AnswersAreTrue
=============================================================================
