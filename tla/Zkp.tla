--------------------------------- MODULE Zkp ---------------------------------
(***************************************************************************)
(* Credentials with zero-knowledge proofs: lib/zkp/Statement.c, Proof.c,   *)
(* RemoteProof.c, lib/KeyPair.c, lib/protocol/AuthCredentialWithPni-       *)
(* Response.c, CallLinkAuthCredentialResponse.c, (Remote)ProfileKey-       *)
(* CredentialRequest.c, ProfileKeyCredentialResponse.c, sys/params.c and   *)
(* the keys made by sys/credentials.c create().                            *)
(*                                                                         *)
(* The group is the one with Q elements: a scalar is a number modulo Q, a  *)
(* point is the number of times it has the base point, which is 1.  What a *)
(* Sho produces after absorbing something random is a sequence of draws.   *)
(* The hash is taken to be one: two transcripts have the same challenge    *)
(* only if they are the same.  The side of the client is external, as the  *)
(* statements that the server proves and verifies require it.              *)
(***************************************************************************)
EXTENDS Integers, Sequences

CONSTANTS
  Q,             \* bound: order of the group, prime
  Draws,         \* bound: what Sho may draw, 17 or more nonzero numbers modulo Q
  Challenges,    \* bound: challenges that are drawn
  ProfileKeys,   \* what profiles commit to: [j3, M3, M4]
  None           \* nothing

VARIABLES
  params,    \* sys/params.c: cParams and pkcParams
  keys,      \* the key pairs of sys/credentials.c
  stored,    \* whose commitment the profile has
  msg,       \* request or credential that is on its way
  outcome    \* what became of it

vars == <<params, keys, stored, msg, outcome>>

(***************************************************************************)
(* lib/zkp/Statement.c                                                     *)
(***************************************************************************)

\* addScalar() and addPoint(): a name is added when it is first used, and keeps its index.
AddName(names, name) ==
  IF \E i \in DOMAIN names : names[i] = name THEN names ELSE Append(names, name)

AddNames(names, used) ==
  LET all[j \in 0..Len(used)] == IF j = 0 THEN names ELSE AddName(all[j - 1], used[j])
  IN all[Len(used)]

Index(names, name) == CHOOSE i \in DOMAIN names : names[i] = name

Equation(lhs, rhs) == [lhs |-> lhs, rhs |-> rhs]

\* create()
NoEquations == [scalars |-> <<>>, points |-> <<"G">>, equations |-> <<>>]

\* add()
Add(stmt, eq) ==
  LET rhs     == eq.rhs
      scalars == AddNames(stmt.scalars, [j \in DOMAIN rhs |-> rhs[j][1]])
      points  == AddNames(AddName(stmt.points, eq.lhs), [j \in DOMAIN rhs |-> rhs[j][2]])
  IN [scalars   |-> scalars,
      points    |-> points,
      equations |-> Append(stmt.equations,
        [lhs   |-> Index(points, eq.lhs),
         terms |-> [j \in DOMAIN rhs |->
                     <<Index(scalars, rhs[j][1]), Index(points, rhs[j][2])>>]])]

\* A Statement after add() of each equation.
Statement(equations) ==
  LET stmt[i \in 0..Len(equations)] ==
        IF i = 0 THEN NoEquations ELSE Add(stmt[i - 1], equations[i])
  IN stmt[Len(equations)]

\* Mappings: of two the union, and of numbered names to values.
Join(f, g) == [n \in DOMAIN f \cup DOMAIN g |-> IF n \in DOMAIN g THEN g[n] ELSE f[n]]
Numbered(names, values) ==
  [n \in {names[i] : i \in DOMAIN values} |-> values[Index(names, n)]]

\* getScalars() and getPoints(): every name has a value and there is no other, or else
\* there are no values.
Values(names, args) ==
  IF DOMAIN args = {names[i] : i \in DOMAIN names}
  THEN [i \in DOMAIN names |-> args[names[i]]] ELSE <<>>

GetScalars(stmt, args) == Values(stmt.scalars, args)
GetPoints(stmt, args) == Values(stmt.points, Join(args, [G |-> 1]))

\* homomorphism(): the right hand side of an equation, and of every one.
RightHandSide(terms, g1, points) ==
  LET sum[j \in 0..Len(terms)] ==
        IF j = 0 THEN 0 ELSE (sum[j - 1] + points[terms[j][2]] * g1[terms[j][1]]) % Q
  IN sum[Len(terms)]

Homomorphism(stmt, g1, points) ==
  [i \in DOMAIN stmt.equations |-> RightHandSide(stmt.equations[i].terms, g1, points)]

\* Mutant: the challenge multiplies the nonce.
ResponseSwapped(g1, challenge, nonce) ==
  [i \in DOMAIN g1 |-> (g1[i] + challenge * nonce[i]) % Q]

Response(g1, challenge, nonce) ==
  [i \in DOMAIN g1 |-> (g1[i] * challenge + nonce[i]) % Q]

\* prove(): the transcript is what the challenge is the hash of.
Prove(stmt, scalarArgs, pointArgs, nonce, challenge) ==
  LET g1     == GetScalars(stmt, scalarArgs)
      points == GetPoints(stmt, pointArgs)
  IN [challenge  |-> challenge,
      response   |-> Response(g1, challenge, nonce),
      transcript |-> <<stmt.equations, points, Homomorphism(stmt, nonce, points)>>]

\* Mutant: the loop over the commitment starts one late.
VerifyLate(stmt, proof, pointArgs) ==
  /\ Len(proof.response) = Len(stmt.scalars)
  /\ LET points == GetPoints(stmt, pointArgs)
         sums   == Homomorphism(stmt, proof.response, points)
     IN /\ proof.transcript[2] = points
        /\ \A i \in 2..Len(sums) :
             proof.transcript[3][i] =
               (sums[i] - points[stmt.equations[i].lhs] * proof.challenge) % Q

\* verify(): reproduces the commitment and with it the challenge.
Verify(stmt, proof, pointArgs) ==
  /\ Len(proof.response) = Len(stmt.scalars)
  /\ LET points == GetPoints(stmt, pointArgs)
         sums   == Homomorphism(stmt, proof.response, points)
     IN proof.transcript =
          <<stmt.equations, points,
            [i \in DOMAIN sums |->
              (sums[i] - points[stmt.equations[i].lhs] * proof.challenge) % Q]>>

(***************************************************************************)
(* sys/params.c and lib/KeyPair.c                                          *)
(***************************************************************************)

\* Order of the parameters after create(): G_w, G_wprime, G_x0, G_x1, G_y1 to
\* G_y6, G_m1 to G_m5, G_V, G_z.
Reorder(d) ==
  SubSeq(d, 1, 8) \o SubSeq(d, 15, 16) \o SubSeq(d, 9, 12) \o SubSeq(d, 17, 17)
    \o SubSeq(d, 13, 14)

\* The CRED_ constants of params.h; sequences start at 1.
CRED_G_w == 1
CRED_G_wprime == 2
CRED_G_x0 == 3
CRED_G_x1 == 4
CRED_G_y == 5
CRED_G_m5 == 15
CRED_G_V == 16

Sum(f) ==
  LET sum[i \in 0..Len(f)] == IF i = 0 THEN 0 ELSE sum[i - 1] + f[i]
  IN sum[Len(f)]

\* KeyPair create(), for a key with as many attributes as scalars y.
KeyPair(d, size) ==
  LET G == params.cred
      y == SubSeq(d, 5, 4 + size)
  IN [w |-> d[1], wprime |-> d[2], x0 |-> d[3], x1 |-> d[4], y |-> y,
      W |-> (G[CRED_G_w] * d[1]) % Q,
      C_W |-> (G[CRED_G_w] * d[1] + G[CRED_G_wprime] * d[2]) % Q,
      I |-> (G[CRED_G_V] - G[CRED_G_x0] * d[3] - G[CRED_G_x1] * d[4]
               - Sum([i \in 1..size |-> G[CRED_G_y + i - 1] * y[i]])) % Q]

\* prepare(): V of the credential for the attributes M.
PrepareV(key, t, U, M) ==
  (key.W + U * (key.x0 + key.x1 * t) + Sum([i \in DOMAIN M |-> M[i] * key.y[i]])) % Q

(***************************************************************************)
(* lib/protocol: the statements.  The attributes of all credentials are    *)
(* numbered from 1; a minus sign in a name of the code is a _ here, or neg.*)
(***************************************************************************)

Y == <<"y1", "y2", "y3", "y4", "y5">>
GY == <<"G_y1", "G_y2", "G_y3", "G_y4", "G_y5">>
MM == <<"M1", "M2", "M3", "M4", "M5">>

\* The first two equations of a credential: the key is the published one.
KeyEquations(n) ==
  <<Equation("C_W", <<<<"w", "G_w">>, <<"wprime", "G_wprime">>>>),
    Equation("G_V_I", <<<<"x0", "G_x0">>, <<"x1", "G_x1">>>>
                        \o [i \in 1..n |-> <<Y[i], GY[i]>>])>>

KeyScalars(key, n) ==
  Join([w |-> key.w, wprime |-> key.wprime, x0 |-> key.x0, x1 |-> key.x1],
       Numbered(Y, SubSeq(key.y, 1, n)))

KeyPoints(key, n) ==
  LET G == params.cred
  IN Join([C_W |-> key.C_W, G_w |-> G[CRED_G_w], G_wprime |-> G[CRED_G_wprime],
           G_V_I |-> (G[CRED_G_V] - key.I) % Q, G_x0 |-> G[CRED_G_x0], G_x1 |-> G[CRED_G_x1]],
          Numbered(GY, SubSeq(G, CRED_G_y, CRED_G_y + n - 1)))

\* The statement of AuthCredentialWithPniResponse and CallLinkAuthCredentialResponse.
MacStatement(n) ==
  Statement(KeyEquations(n)
    \o <<Equation("V", <<<<"w", "G_w">>, <<"x0", "U">>, <<"x1", "tU">>>>
                         \o [i \in 1..n |-> <<Y[i], MM[i]>>])>>)

MacPoints(key, t, U, V, M) ==
  Join(Join(KeyPoints(key, Len(M)), [V |-> V, U |-> U, tU |-> (U * t) % Q]), Numbered(MM, M))

\* The statement of ProfileKeyCredentialRequest.
RequestStatement ==
  Statement(<<Equation("Y", <<<<"y", "G">>>>),
              Equation("D1", <<<<"r1", "G">>>>),
              Equation("E1", <<<<"r2", "G">>>>),
              Equation("J3", <<<<"j3", "G_j3">>>>),
              Equation("D2_J1", <<<<"r1", "Y">>, <<"j3", "neg_G_j1">>>>),
              Equation("E2_J2", <<<<"r2", "Y">>, <<"j3", "neg_G_j2">>>>)>>)

\* ProfileKeyCommitment of a client to its profile key.
Commitment(p) ==
  [J1 |-> (p.j3 * params.pkc[1] + p.M3) % Q,
   J2 |-> (p.j3 * params.pkc[2] + p.M4) % Q,
   J3 |-> (p.j3 * params.pkc[3]) % Q]

RequestPoints(c, r) ==
  [Y |-> r.publicKey, D1 |-> r.D1, E1 |-> r.E1, J3 |-> c.J3, G_j3 |-> params.pkc[3],
   D2_J1 |-> (r.D2 - c.J1) % Q, neg_G_j1 |-> (-params.pkc[1]) % Q,
   E2_J2 |-> (r.E2 - c.J2) % Q, neg_G_j2 |-> (-params.pkc[2]) % Q]

\* The statement of ProfileKeyCredentialResponse.
ResponseStatement ==
  Statement(KeyEquations(5)
    \o <<Equation("S1", <<<<"y3", "D1">>, <<"y4", "E1">>, <<"rprime", "G">>>>),
         Equation("S2", <<<<"y3", "D2">>, <<"y4", "E2">>, <<"rprime", "Y">>,
                          <<"w", "G_w">>, <<"x0", "U">>, <<"x1", "tU">>,
                          <<"y1", "M1">>, <<"y2", "M2">>, <<"y5", "M5">>>>)>>)

\* Mutant: the expiration time is left out.
BlindTimeless(key, r, Vprime, rprime, M5) ==
  [S1 |-> (rprime + r.D1 * key.y[3] + r.E1 * key.y[4]) % Q,
   S2 |-> (r.publicKey * rprime + Vprime + r.D2 * key.y[3] + r.E2 * key.y[4]) % Q]

\* S1 and S2 of a credential for an encrypted profile key.
Blind(key, r, Vprime, rprime, M5) ==
  [S1 |-> (rprime + r.D1 * key.y[3] + r.E1 * key.y[4]) % Q,
   S2 |-> (r.publicKey * rprime + Vprime + M5 * key.y[5]
             + r.D2 * key.y[3] + r.E2 * key.y[4]) % Q]

(***************************************************************************)
(* Behaviours                                                              *)
(***************************************************************************)

Init ==
  /\ \E d \in Draws, e \in Draws : params = [cred |-> Reorder(d), pkc |-> SubSeq(e, 1, 3)]
  /\ keys = None
  /\ stored = None
  /\ msg = None
  /\ outcome = None

\* The keys of sys/credentials.c that are used; no two of them meet in a
\* credential, so they may be drawn alike.
Create ==
  /\ keys = None
  /\ \E d \in Draws :
       keys' = [profile |-> KeyPair(d, 5), authPni |-> KeyPair(d, 5),
                callLink |-> KeyPair(d, 7)]
  /\ UNCHANGED <<params, stored, msg, outcome>>

\* A credential for the attributes M, with the proof that V is right.
Issue(kind, key, n, d, M) ==
  LET t == d[1]
      U == d[2]
      V == PrepareV(key, t, U, M)
      points == MacPoints(key, t, U, V, M)
  IN \E nonce \in Draws, challenge \in Challenges :
       /\ msg' = [kind |-> kind, altered |-> FALSE, stmt |-> MacStatement(n), points |-> points,
                  proof |-> Prove(MacStatement(n), KeyScalars(key, n), points, nonce, challenge)]
       /\ UNCHANGED <<params, keys, stored, outcome>>

Ready == keys # None /\ stored = None /\ msg = None /\ outcome = None

\* AuthCredentialWithPniResponse create(): two points for each UUID, one for the time.
AuthCredentialWithPniResponse ==
  /\ Ready
  /\ \E d \in Draws :
       Issue("authPni", keys.authPni, 5, d,
             SubSeq(d, 3, 6) \o <<(params.cred[CRED_G_m5] * d[7]) % Q>>)

\* CallLinkAuthCredentialResponse create(): a point for the time, two for the UUID.
CallLinkAuthCredentialResponse ==
  /\ Ready
  /\ \E d \in Draws : Issue("callLink", keys.callLink, 3, d, SubSeq(d, 3, 5))

\* A client stores the commitment to its profile key.
PutProfile(p) ==
  /\ Ready
  /\ stored' = p
  /\ UNCHANGED <<params, keys, msg, outcome>>

\* A client encrypts the profile key p with a new key and proves it.
Request(p) ==
  /\ stored # None /\ msg = None /\ outcome = None
  /\ \E d, nonce \in Draws, challenge \in Challenges :
       LET c == Commitment(p)
           r == [publicKey |-> d[1], D1 |-> d[2], D2 |-> (d[2] * d[1] + p.M3) % Q,
                 E1 |-> d[3], E2 |-> (d[3] * d[1] + p.M4) % Q]
           scalars == [y |-> d[1], r1 |-> d[2], r2 |-> d[3], j3 |-> p.j3]
       IN msg' = [kind |-> "request", altered |-> FALSE, profile |-> p, secret |-> d[1],
                  request |-> r,
                  proof |-> Prove(RequestStatement, scalars, RequestPoints(c, r), nonce,
                                  challenge)]
  /\ UNCHANGED <<params, keys, stored, outcome>>

\* Mutant: the commitment is the one the client has, not the stored one.
VerifiedOwn ==
  Verify(RequestStatement, msg.proof, RequestPoints(Commitment(msg.profile), msg.request))

\* RemoteProfileKeyCredentialRequest create(): the request is verified with
\* the commitment of the profile; an error if it is not right.
Verified ==
  Verify(RequestStatement, msg.proof, RequestPoints(Commitment(stored), msg.request))

RefuseRequest ==
  /\ msg # None /\ msg.kind = "request" /\ ~Verified
  /\ outcome' = [kind |-> "request", altered |-> msg.altered, profile |-> msg.profile,
                 accepted |-> FALSE]
  /\ msg' = None
  /\ UNCHANGED <<params, keys, stored>>

\* ProfileKeyCredentialResponse create(), for a request that was accepted.
ProfileKeyCredentialResponse ==
  /\ msg # None /\ msg.kind = "request" /\ Verified
  /\ outcome' = [kind |-> "request", altered |-> msg.altered, profile |-> msg.profile,
                 accepted |-> TRUE]
  /\ \E d, nonce \in Draws, challenge \in Challenges :
       LET key == keys.profile
           r   == msg.request
           t   == d[1]
           U   == d[2]
           M   == SubSeq(d, 4, 5)
           M5  == (params.cred[CRED_G_m5] * d[6]) % Q
           b   == Blind(key, r, PrepareV(key, t, U, M), d[3], M5)
           scalars == Join(KeyScalars(key, 5), [rprime |-> d[3]])
           points  == Join(KeyPoints(key, 5),
                           [S1 |-> b.S1, D1 |-> r.D1, E1 |-> r.E1, S2 |-> b.S2, D2 |-> r.D2,
                            E2 |-> r.E2, Y |-> r.publicKey, U |-> U, tU |-> (U * t) % Q,
                            M1 |-> M[1], M2 |-> M[2], M5 |-> M5])
       IN msg' = [kind |-> "profile", altered |-> FALSE, stmt |-> ResponseStatement,
                  points |-> points,
                  proof |-> Prove(ResponseStatement, scalars, points, nonce, challenge),
                  mac |-> (b.S2 - msg.secret * b.S1) % Q,
                  attributes |-> [t |-> t, U |-> U,
                                  M |-> M \o <<msg.profile.M3, msg.profile.M4, M5>>]]
  /\ UNCHANGED <<params, keys, stored>>

\* One number of the proof arrives as another.
Alter ==
  /\ msg # None /\ ~msg.altered
  /\ \E i \in DOMAIN msg.proof.response :
       msg' = [msg EXCEPT !.altered = TRUE,
                          !.proof.response[i] = (@ + 1) % Q]
  /\ UNCHANGED <<params, keys, stored, outcome>>

\* The client verifies a credential.
Receive ==
  /\ msg # None /\ msg.kind # "request"
  /\ outcome' = [kind |-> msg.kind, altered |-> msg.altered, profile |-> None,
                 accepted |-> Verify(msg.stmt, msg.proof, msg.points)]
  /\ msg' = None
  /\ UNCHANGED <<params, keys, stored>>

Next ==
  \/ Create
  \/ AuthCredentialWithPniResponse
  \/ CallLinkAuthCredentialResponse
  \/ \E p \in ProfileKeys : PutProfile(p) \/ Request(p)
  \/ RefuseRequest
  \/ ProfileKeyCredentialResponse
  \/ Alter
  \/ Receive

Spec == Init /\ [][Next]_vars

(***************************************************************************)
(* Properties                                                              *)
(***************************************************************************)

\* What was proved honestly is accepted: a request for the profile key that the
\* profile commits to by the server, a credential for an account or a profile
\* key by the client, with prove() and verify() of Statement.c and equations
\* that KeyPair.c and the credentials compute in different ways.
ProvedIsAccepted ==
  outcome # None /\ ~outcome.altered /\ outcome.kind # "callLink"
    /\ (outcome.kind = "request" => outcome.profile = stored)
    => outcome.accepted

\* The same of the credentials for call links.
CallLinkIsAccepted ==
  outcome # None /\ ~outcome.altered /\ outcome.kind = "callLink" => outcome.accepted

\* verify() notices a change of any number of a proof: no response is left out of
\* the commitment.
AlteredIsRefused == outcome # None /\ outcome.altered => ~outcome.accepted

\* A request for another profile key than the one the stored commitment is for
\* is refused, also if the client proved it honestly for its own commitment.
OtherKeyIsRefused ==
  outcome # None /\ outcome.kind = "request" /\ outcome.profile # stored
    => ~outcome.accepted

\* What the client gets by decrypting S1 and S2 of ProfileKeyCredentialResponse.c
\* is the V that prepare() computes for all five attributes, including the
\* profile key, which the server has only seen encrypted.
DecryptsToCredential ==
  msg # None /\ msg.kind = "profile"
    => msg.mac = PrepareV(keys.profile, msg.attributes.t, msg.attributes.U, msg.attributes.M)

\* verify() accepts nothing but the proof that was made, for what was committed to.
NothingElseIsAccepted == AlteredIsRefused /\ OtherKeyIsRefused
==============================================================================
