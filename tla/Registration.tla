---------------------------- MODULE Registration ----------------------------
(***************************************************************************)
(* Verification sessions: sys/registration.c and the session handlers of   *)
(* services/lib/chat/Registration.c.  A session proves, with a challenge   *)
(* pushed over FCM, that the client has the push token it gave; the SMS    *)
(* code is not sent, and any code is accepted.                             *)
(*                                                                         *)
(* The FCM relay calls fcmChallengeSent back in a task of its own, so the  *)
(* push can reach the client, and the client answer it, before the session *)
(* knows of the challenge.                                                 *)
(***************************************************************************)
EXTENDS Integers

CONSTANTS
  Phone,          \* phone numbers
  SessionId,      \* random strings of 16 bytes
  NONE,           \* nil
  MaxRequests     \* bound: requests for a new session

\* hex::format() and hex::decodeString(): a string of 32 hexadecimal digits,
\* which is never a string of 16 bytes.
Format(raw) == [hex |-> raw]
DecodeString(str) == str.hex

VARIABLES
  sessions,       \* sessions[raw id]: the session, or NONE
  phoneIndex,     \* phoneIndex[phone]: session id in hexadecimal, or NONE
  sending,        \* challenges given to the FCM relay
  sent,           \* tasks fcmChallengeSent
  requests,       \* number of requests for a session
  pushed          \* history: challenges that reached a client

vars == <<sessions, phoneIndex, sending, sent, requests, pushed>>

Challenge == 1..MaxRequests
Session == [phone : Phone, challenge : Challenge \cup {NONE}, acceptCode : BOOLEAN,
            nextCode : BOOLEAN, verified : BOOLEAN]
HexId == {Format(s) : s \in SessionId}

\* What the proofs assume of the constants: nil is no session, id or challenge.
ConstantsOK ==
  /\ NONE \notin Session \cup HexId \cup Challenge
  /\ MaxRequests \in Nat

Init ==
  /\ sessions = [s \in SessionId |-> NONE]
  /\ phoneIndex = [p \in Phone |-> NONE]
  /\ sending = {} /\ sent = {}
  /\ requests = 0 /\ pushed = {}

\* sessions[key], for a key in whatever form.
Lookup(key) == IF key \in SessionId THEN sessions[key] ELSE NONE

\* getSession(): the id in a request is in hexadecimal.
GetSession(sessionId) == Lookup(DecodeString(sessionId))

\* Mutant: a session is made for every request.
HasSessionNever(phone) == FALSE

HasSession(phone) == phoneIndex[phone] # NONE

\* getSessionId() of a number that has a session returns the id and what
\* sessions has under it.
GetSessionId(phone) ==
  [id |-> phoneIndex[phone], session |-> Lookup(phoneIndex[phone])]

\* A new session, and a challenge for it if the request has a push token.
NewSession(phone, raw, pushToken) ==
  /\ sessions[raw] = NONE
  /\ sessions' = [sessions EXCEPT ![raw] =
       [phone |-> phone, challenge |-> NONE, acceptCode |-> FALSE,
        nextCode |-> FALSE, verified |-> FALSE]]
  /\ phoneIndex' = [phoneIndex EXCEPT ![phone] = Format(raw)]
  /\ sending' = IF pushToken
                THEN sending \cup {[id |-> Format(raw), challenge |-> requests + 1]}
                ELSE sending

\* The session of a number that has one: another challenge, unless one is
\* outstanding or the session is verified.  No session is an error.
OldSession(phone, pushToken) ==
  LET old == GetSessionId(phone) IN
  /\ sending' = IF /\ old.session # NONE
                   /\ ~ old.session.verified /\ old.session.challenge = NONE
                   /\ pushToken
                THEN sending \cup {[id |-> old.id, challenge |-> requests + 1]}
                ELSE sending
  /\ UNCHANGED <<sessions, phoneIndex>>

PostVerificationNewSession(phone, pushToken) ==
  /\ requests < MaxRequests
  /\ requests' = requests + 1
  /\ IF HasSession(phone)
     THEN OldSession(phone, pushToken)
     ELSE \E raw \in SessionId : NewSession(phone, raw, pushToken)
  /\ UNCHANGED <<sent, pushed>>

\* The FCM relay is done with a challenge (external: Firebase pushes it).
Push(c, code) ==
  /\ c \in sending
  /\ sending' = sending \ {c}
  /\ pushed' = IF code = "OK" THEN pushed \cup {c} ELSE pushed
  /\ sent' = sent \cup {[id |-> c.id, challenge |-> c.challenge, code |-> code]}
  /\ UNCHANGED <<sessions, phoneIndex, requests>>

\* A session that has expired is an error.
FcmChallengeSent(c) ==
  /\ c \in sent
  /\ sent' = sent \ {c}
  /\ sessions' = IF c.code = "OK" /\ GetSession(c.id) # NONE
                 THEN [sessions EXCEPT ![DecodeString(c.id)].challenge = c.challenge]
                 ELSE sessions
  /\ UNCHANGED <<phoneIndex, sending, requests, pushed>>

\* The connection ended: its continuation is gone.
Disconnected(c) ==
  /\ c \in sent
  /\ sent' = sent \ {c}
  /\ UNCHANGED <<sessions, phoneIndex, sending, requests, pushed>>

\* Mutant: no challenge matches no challenge.
MatchesNil(challenge, session) == challenge = session.challenge

Matches(challenge, session) == challenge # NONE /\ challenge = session.challenge

\* The client answers with a challenge it was sent, or with none.
PatchVerificationSession(sessionId, challenge) ==
  /\ GetSession(sessionId) # NONE
  /\ Matches(challenge, GetSession(sessionId))
  /\ sessions' = [sessions EXCEPT ![DecodeString(sessionId)] =
                    [@ EXCEPT !.challenge = NONE, !.acceptCode = TRUE]]
  /\ UNCHANGED <<phoneIndex, sending, sent, requests, pushed>>

PostVerificationSessionCode(sessionId) ==
  /\ GetSession(sessionId) # NONE
  /\ sessions' = [sessions EXCEPT ![DecodeString(sessionId)].nextCode = TRUE]
  /\ UNCHANGED <<phoneIndex, sending, sent, requests, pushed>>

PutVerificationSessionCode(sessionId) ==
  /\ GetSession(sessionId) # NONE
  /\ sessions' = [sessions EXCEPT ![DecodeString(sessionId)] =
       [@ EXCEPT !.acceptCode = FALSE, !.nextCode = FALSE, !.verified = TRUE]]
  /\ UNCHANGED <<phoneIndex, sending, sent, requests, pushed>>

\* After 30 days a session reads as nil, and then its index.
Expire(phone) ==
  /\ phoneIndex[phone] # NONE
  /\ IF GetSession(phoneIndex[phone]) # NONE
     THEN /\ sessions' = [sessions EXCEPT ![DecodeString(phoneIndex[phone])] = NONE]
          /\ UNCHANGED phoneIndex
     ELSE /\ phoneIndex' = [phoneIndex EXCEPT ![phone] = NONE]
          /\ UNCHANGED sessions
  /\ UNCHANGED <<sending, sent, requests, pushed>>

Next ==
  \/ \E p \in Phone :
       Expire(p) \/ \E token \in BOOLEAN : PostVerificationNewSession(p, token)
  \/ \E c \in sending, code \in {"OK", "NOT_FOUND"} : Push(c, code)
  \/ \E c \in sent : FcmChallengeSent(c) \/ Disconnected(c)
  \/ \E id \in HexId :
       \/ \E ch \in {c.challenge : c \in pushed} \cup {NONE} : PatchVerificationSession(id, ch)
       \/ PostVerificationSessionCode(id)
       \/ PutVerificationSessionCode(id)

Spec == Init /\ [][Next]_vars

(***************************************************************************)
(* Properties                                                              *)
(***************************************************************************)

\* Type invariant.
TypeOK ==
  /\ sessions \in [SessionId -> Session \cup {NONE}]
  /\ phoneIndex \in [Phone -> HexId \cup {NONE}]
  /\ sending \subseteq [id : HexId, challenge : Challenge]
  /\ sent \subseteq [id : HexId, challenge : Challenge, code : {"OK", "NOT_FOUND"}]
  /\ requests \in Nat
  /\ pushed \subseteq [id : HexId, challenge : Challenge]

\* A number has at most one session, which is the one its index leads to: the
\* two stores of sys/registration.c stay consistent.
OneSessionPerNumber ==
  \A s \in SessionId : sessions[s] # NONE =>
    phoneIndex[sessions[s].phone] = Format(s)

\* Only a client that received the challenge pushed for a session may ask for
\* its code: patchVerificationSession() compares it with that of the session, in
\* whichever order push, callback and answer come.
AcceptedAfterPush ==
  \A s \in SessionId :
    sessions[s] # NONE /\ sessions[s].acceptCode =>
      \E c \in pushed : c.id = Format(s)

\* "get session ID and session, creating a new session if needed": for a number
\* that has a session, getSessionId() returns it (sys/registration.c).
SessionIsFound ==
  \A p \in Phone :
    phoneIndex[p] # NONE /\ GetSession(phoneIndex[p]) # NONE =>
      GetSessionId(p).session = GetSession(phoneIndex[p])
=============================================================================
