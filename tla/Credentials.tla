----------------------------- MODULE Credentials -----------------------------
(***************************************************************************)
(* The keys of the server and the passwords for its other services:        *)
(* sys/credentials.c, the upgrade() of initd.c that compiles it again,     *)
(* chat/Directory.c, chat/Storage.c, chat/Backup.c, and the authentication *)
(* in cdsi/Discovery.c getDiscovery().                                     *)
(*                                                                         *)
(* A random string is the number of the draw it came from.  A string that  *)
(* is put together with colons is the sequence of the parts between them;  *)
(* a part is a tuple that begins with its kind.  HMAC is injective.  The   *)
(* two files below ~/config outlive the server.  A crash may come between  *)
(* the writing of one and of the other; a write itself happens or not.     *)
(***************************************************************************)
EXTENDS Integers, Sequences, FiniteSets

CONSTANTS
  Accounts,      \* ids of accounts
  MaxDraws,      \* bound: random strings
  MaxTime,       \* bound: the clock
  MaxIssued,     \* bound: passwords that are given
  None           \* no file, no key

ASSUME NoneAssumption == None \notin Nat
ASSUME MaxDrawsAssumption == MaxDraws \in Nat
ASSUME MaxIssuedAssumption == MaxIssued \in Nat
ASSUME MaxTimeAssumption == MaxTime \in Nat \ {0}

VARIABLES
  status,       \* of sys/credentials.c: "down", "seeded" (in create()), "up"
  seed,         \* the file CREDENTIALS_SEED
  published,    \* the file SERVER_PUBLIC_KEYS
  builtin,      \* public keys that clients were built with
  mem,          \* userDeriveKey, key and the zero-knowledge keys
  draws,        \* random strings that were drawn
  time,
  issued,       \* passwords that clients got
  answer        \* what getDiscovery() said last

vars == <<status, seed, published, builtin, mem, draws, time, issued, answer>>

(***************************************************************************)
(* generate() and verify()                                                 *)
(***************************************************************************)

\* HMAC(), of which truncate keeps the first bytes.
HMAC(key, data, truncate) == <<"hex", key, data, truncate>>

\* generate()
Generate(id, derive, truncate, prepend) ==
  LET user == IF derive THEN <<"derived", mem.userDeriveKey, id>> ELSE <<"uuid", id>>
      data == <<user, <<"number", time>>>>
      signature == HMAC(mem.key, data, truncate)
  IN [username |-> user,
      password |-> IF prepend THEN Append(data, signature)
                              ELSE <<<<"number", time>>, signature>>]

\* Mutant: the time of the signature is the time of the verification.
VerifyNow(id, credential, truncate, prepend) ==
  LET rest == IF prepend THEN Tail(credential) ELSE credential
  IN IF /\ prepend => credential[1] = id
        /\ Len(rest) = 2 /\ rest[1][1] = "number"
        /\ rest[2] = HMAC(mem.key, <<id, <<"number", time>>>>, truncate)
     THEN rest[1][2] ELSE 0

\* verify(): the time of the credential, 0 if it is not valid.
Verify(id, credential, truncate, prepend) ==
  LET rest == IF prepend THEN Tail(credential) ELSE credential
  IN IF /\ prepend => credential[1] = id
        /\ Len(rest) = 2 /\ rest[1][1] = "number"
        /\ rest[2] = HMAC(mem.key, <<id, rest[1]>>, truncate)
     THEN rest[1][2] ELSE 0

(***************************************************************************)
(* Starting and stopping                                                   *)
(***************************************************************************)

Init ==
  /\ status = "down"
  /\ seed = None
  /\ published = None
  /\ builtin = {}
  /\ mem = None
  /\ draws = 0
  /\ time = 1
  /\ issued = {}
  /\ answer = None

\* Mutant: the seed is not written.
CreateSeedLost ==
  /\ status = "down"
  /\ draws + 3 <= MaxDraws
  /\ draws' = draws + 3
  /\ LET generator == IF seed # None THEN seed ELSE draws + 3
     IN /\ UNCHANGED seed
        /\ mem' = [userDeriveKey |-> draws + 1, key |-> draws + 2, zkp |-> generator]
  /\ status' = "seeded"
  /\ UNCHANGED <<published, builtin, time, issued, answer>>

\* create(): two random keys; the others come from the seed, which is made once.
CreateSeed ==
  /\ status = "down"
  /\ draws + 3 <= MaxDraws
  /\ draws' = draws + 3
  /\ LET generator == IF seed # None THEN seed ELSE draws + 3
     IN /\ seed' = generator
        /\ mem' = [userDeriveKey |-> draws + 1, key |-> draws + 2, zkp |-> generator]
  /\ status' = "seeded"
  /\ UNCHANGED <<published, builtin, time, issued, answer>>

\* The rest of create(): the public keys are written anew.
CreatePublish ==
  /\ status = "seeded"
  /\ published' = mem.zkp
  /\ status' = "up"
  /\ UNCHANGED <<seed, builtin, mem, draws, time, issued, answer>>

\* upgrade() destructs the object before it compiles it again; or the server
\* stops, also in the middle of create().
Stop ==
  /\ status # "down"
  /\ status' = "down"
  /\ mem' = None
  /\ UNCHANGED <<seed, published, builtin, draws, time, issued, answer>>

\* Somebody builds a client with the public keys in the file.
BuildClient ==
  /\ published # None
  /\ builtin' = builtin \union {published}
  /\ UNCHANGED <<status, seed, published, mem, draws, time, issued, answer>>

Tick ==
  /\ time < MaxTime
  /\ time' = time + 1
  /\ UNCHANGED <<status, seed, published, builtin, mem, draws, issued, answer>>

(***************************************************************************)
(* Requests                                                                *)
(***************************************************************************)

Give(service, id, credential) ==
  /\ Cardinality(issued) < MaxIssued
  /\ issued' = issued \union
       {[service |-> service, id |-> id, key |-> mem.key, credential |-> credential]}
  /\ UNCHANGED <<status, seed, published, builtin, mem, draws, time, answer>>

\* getDirectoryAuth2()
GetDirectoryAuth(id) ==
  /\ status = "up"
  /\ Give("directory", id, Generate(id, TRUE, TRUE, FALSE))

\* getStorageAuth2()
GetStorageAuth(id) ==
  /\ status = "up"
  /\ Give("storage", id, Generate(id, FALSE, TRUE, TRUE))

\* getBackupAuth2()
GetBackupAuth(id) ==
  /\ status = "up"
  /\ Give("backup", id, Generate(id, FALSE, TRUE, TRUE))

\* getDiscovery() with a user name and password as they were issued: the user
\* name ends at the first colon.
GetDiscovery(i) ==
  /\ status = "up"
  /\ answer' = [of |-> i, key |-> mem.key,
                accepted |-> Verify(i.credential.username, i.credential.password,
                                    TRUE, FALSE) # 0]
  /\ UNCHANGED <<status, seed, published, builtin, mem, draws, time, issued>>

Next ==
  \/ CreateSeed
  \/ CreatePublish
  \/ Stop
  \/ BuildClient
  \/ Tick
  \/ \E id \in Accounts : GetDirectoryAuth(id) \/ GetStorageAuth(id) \/ GetBackupAuth(id)
  \/ \E i \in issued : GetDiscovery(i)

Spec == Init /\ [][Next]_vars

(***************************************************************************)
(* Properties                                                              *)
(***************************************************************************)

\* A client that was ever built with the public keys in the file can use the
\* server after any restart, upgrade or crash within create(): the keys come from
\* the seed, which is written before the public keys and never again.
ClientsKeepWorking ==
  status = "up" => \A k \in builtin : k = mem.zkp

\* A password from getDirectoryAuth2() opens the contact discovery service,
\* however late it is used, as long as sys/credentials.c is not created again; and
\* a password of another service, or from before that, does not.
DirectoryOpensDiscovery ==
  answer # None =>
    (answer.accepted <=> answer.of.service = "directory" /\ answer.of.key = answer.key)
==============================================================================
