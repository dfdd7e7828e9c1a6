-------------------------- MODULE CredentialsProofs --------------------------
(***************************************************************************)
(* Clients can always use the keys of the server, for every number of      *)
(* restarts, upgrades and crashes.  And what is issued with these keys is  *)
(* right: for every prime order of the group, every draw and every         *)
(* challenge, lib/zkp/Statement.c accepts what it proved (but for call     *)
(* links, see Zkp) and nothing else, and a profile key that the server has *)
(* only seen encrypted is given the credential that prepare() computes.    *)
(***************************************************************************)
(* The sections from Sums on are about Zkp: sums; arithmetic modulo Q;     *)
(* names and indices of a compiled statement; that a proof of equations    *)
(* that hold is accepted, and is not after a change of any response; the   *)
(* equations of MacStatement, RequestStatement and ResponseStatement; and  *)
(* the invariant.                                                          *)
(***************************************************************************)
EXTENDS MCCredentials, FiniteSetTheorems, SequenceTheorems, WellFoundedInduction, TLAPS

\* The keys in memory come from the seed in the file while create() has got that
\* far, and whatever was published or built into a client is that seed; there is
\* a seed as soon as there is anything that depends on it.
SeedInv ==
  /\ draws \in Nat
  /\ status \in {"down", "seeded", "up"}
  /\ status # "down" => mem.zkp = seed /\ seed # None
  /\ published # None => published = seed
  /\ \A k \in builtin : k = seed /\ k # None

\* Nothing is there at the start.
LEMMA SeedInvInit == Init => SeedInv
  BY DEF Init, SeedInv

\* Every step keeps it: the seed changes only when there is none yet.
LEMMA SeedInvNext == SeedInv /\ [Next]_vars => SeedInv'
<1> SUFFICES ASSUME SeedInv, [Next]_vars PROVE SeedInv'
  OBVIOUS
<1>1. CASE CreateSeed
  <2> DEFINE generator == IF seed # None THEN seed ELSE draws + 3
  <2>1. /\ draws' = draws + 3
        /\ seed' = generator
        /\ mem' = [userDeriveKey |-> draws + 1, key |-> draws + 2, zkp |-> generator]
        /\ status' = "seeded"
        /\ published' = published /\ builtin' = builtin
    BY <1>1 DEF CreateSeed
  <2>2. generator # None
    BY NoneAssumption DEF SeedInv
  <2>3. mem'.zkp = seed'
    BY <2>1
  <2>4. seed # None => seed' = seed
    BY <2>1
  <2>5. (published # None => published' = seed') /\ \A k \in builtin' : k = seed' /\ k # None
    BY <2>1, <2>4 DEF SeedInv
  <2> HIDE DEF generator
  <2> QED
    BY <2>1, <2>2, <2>3, <2>5 DEF SeedInv
<1>2. CASE CreatePublish
  BY <1>2 DEF CreatePublish, SeedInv
<1>3. CASE Stop
  BY <1>3 DEF Stop, SeedInv
<1>4. CASE BuildClient
  BY <1>4 DEF BuildClient, SeedInv
<1>5. CASE Tick
  BY <1>5 DEF Tick, SeedInv
<1>6. ASSUME NEW id \in Accounts, GetDirectoryAuth(id) PROVE SeedInv'
  BY <1>6 DEF GetDirectoryAuth, Give, SeedInv
<1>7. ASSUME NEW id \in Accounts, GetStorageAuth(id) PROVE SeedInv'
  BY <1>7 DEF GetStorageAuth, Give, SeedInv
<1>8. ASSUME NEW id \in Accounts, GetBackupAuth(id) PROVE SeedInv'
  BY <1>8 DEF GetBackupAuth, Give, SeedInv
<1>9. ASSUME NEW i \in issued, GetDiscovery(i) PROVE SeedInv'
  BY <1>9 DEF GetDiscovery, SeedInv
<1>10. CASE UNCHANGED vars
  BY <1>10 DEF vars, SeedInv
<1> QED
  BY <1>1, <1>2, <1>3, <1>4, <1>5, <1>6, <1>7, <1>8, <1>9, <1>10 DEF Next

\* sys/credentials.c: the public keys that a client was built with are those of
\* the running server, whatever crashes and upgrades came between.
THEOREM KeysArePermanent == Spec => []ClientsKeepWorking
<1>1. SeedInv => ClientsKeepWorking
  BY DEF SeedInv, ClientsKeepWorking
<1> QED
  BY <1>1, SeedInvInit, SeedInvNext, PTL DEF Spec

(***************************************************************************)
(* Passwords for the contact discovery service                             *)
(***************************************************************************)

\* A password as getDirectoryAuth2() makes it, at time t and with a key.
DirectoryPassword(user, key, t) ==
  <<<<"number", t>>, HMAC(key, <<user, <<"number", t>>>>, TRUE)>>

\* The passwords that were given: those for other services have the user name as
\* their first part.
IssuedForm ==
  \A i \in issued :
    \/ /\ i.service = "directory"
       /\ \E t \in Nat \ {0} :
            i.credential.password = DirectoryPassword(i.credential.username, i.key, t)
    \/ i.service # "directory" /\ Len(i.credential.password) = 3

\* getDiscovery() accepts a user name and a password.
Accepted(user, password) == Verify(user, password, TRUE, FALSE) # 0

\* verify() takes a password of the contact discovery service if, and only if, it
\* was signed with the key that is now in memory: HMAC() of another key is another.
LEMMA VerifyDirectory ==
  ASSUME NEW user, NEW key, NEW t \in Nat \ {0}
  PROVE  Accepted(user, DirectoryPassword(user, key, t)) <=> key = mem.key
<1> DEFINE number == <<"number", t>>
           password == DirectoryPassword(user, key, t)
<1>1. /\ Len(password) = 2 /\ password[1] = number
      /\ password[2] = HMAC(key, <<user, number>>, TRUE)
      /\ number[1] = "number" /\ number[2] = t
  BY DEF DirectoryPassword
<1> HIDE DEF password, number
<1>2. (password[2] = HMAC(mem.key, <<user, number>>, TRUE)) <=> key = mem.key
  BY <1>1 DEF HMAC
<1>3. Verify(user, password, TRUE, FALSE) = IF key = mem.key THEN t ELSE 0
  BY <1>1, <1>2 DEF Verify
<1> QED
  BY <1>3 DEF password, Accepted

\* verify() takes no password that has more than two parts.
LEMMA VerifyOther ==
  ASSUME NEW user, NEW password, Len(password) = 3
  PROVE  ~ Accepted(user, password)
<1>1. Len(password) # 2
  OBVIOUS
<1>2. Verify(user, password, TRUE, FALSE) = 0
  BY <1>1, Zenon DEF Verify
<1> QED
  BY <1>2 DEF Accepted

\* The inductive invariant: answers are right because passwords have their form.
PasswordInv ==
  /\ time \in Nat \ {0}
  /\ IssuedForm
  /\ DirectoryOpensDiscovery

\* No passwords are given yet at the start.
LEMMA PasswordInvInit == Init => PasswordInv
  BY DEF Init, PasswordInv, IssuedForm, DirectoryOpensDiscovery

\* A password that is added has the form of its service.
LEMMA GiveKeepsForm ==
  ASSUME PasswordInv, NEW service, NEW id, NEW credential, Give(service, id, credential),
         \/ /\ service = "directory"
            /\ \E t \in Nat \ {0} :
                 credential.password = DirectoryPassword(credential.username, mem.key, t)
         \/ service # "directory" /\ Len(credential.password) = 3
  PROVE  PasswordInv'
<1> DEFINE new == [service |-> service, id |-> id, key |-> mem.key, credential |-> credential]
<1>1. issued' = issued \union {new} /\ UNCHANGED <<time, answer>>
  BY DEF Give
<1>2. new.service = service /\ new.key = mem.key /\ new.credential = credential
  OBVIOUS
<1> HIDE DEF new
<1>3. IssuedForm'
  BY <1>1, <1>2 DEF PasswordInv, IssuedForm
<1> QED
  BY <1>1, <1>3 DEF PasswordInv, DirectoryOpensDiscovery

\* Every step keeps the form of passwords, and what getDiscovery() says is right.
LEMMA PasswordInvNext == PasswordInv /\ [Next]_vars => PasswordInv'
<1> SUFFICES ASSUME PasswordInv, [Next]_vars PROVE PasswordInv'
  OBVIOUS
<1>1. ASSUME UNCHANGED <<time, issued, answer>> PROVE PasswordInv'
  BY <1>1 DEF PasswordInv, IssuedForm, DirectoryOpensDiscovery
<1>2. CASE CreateSeed \/ CreatePublish \/ Stop \/ BuildClient \/ UNCHANGED vars
  BY <1>1, <1>2 DEF CreateSeed, CreatePublish, Stop, BuildClient, vars
<1>3. CASE Tick
  BY <1>3 DEF Tick, PasswordInv, IssuedForm, DirectoryOpensDiscovery
<1>4. ASSUME NEW id \in Accounts, GetDirectoryAuth(id) PROVE PasswordInv'
  <2> DEFINE credential == Generate(id, TRUE, TRUE, FALSE)
  <2>1. Give("directory", id, credential)
    BY <1>4 DEF GetDirectoryAuth
  <2>2. credential.password = DirectoryPassword(credential.username, mem.key, time)
    BY DEF Generate, DirectoryPassword
  <2> HIDE DEF credential
  <2> QED
    BY <2>1, <2>2, GiveKeepsForm DEF PasswordInv
<1>5. ASSUME NEW id \in Accounts, GetStorageAuth(id) \/ GetBackupAuth(id) PROVE PasswordInv'
  <2> DEFINE credential == Generate(id, FALSE, TRUE, TRUE)
  <2>1. PICK service \in {"storage", "backup"} : Give(service, id, credential)
    BY <1>5 DEF GetStorageAuth, GetBackupAuth
  <2>2. Len(credential.password) = 3
    <3> DEFINE user == <<"uuid", id>>
               number == <<"number", time>>
               signature == HMAC(mem.key, <<user, number>>, TRUE)
    <3>1. credential.password = Append(<<user, number>>, signature)
      BY DEF Generate
    <3> HIDE DEF user, number, signature
    <3>2. Len(Append(<<user, number>>, signature)) = 3
      OBVIOUS
    <3> QED
      BY <3>1, <3>2
  <2> HIDE DEF credential
  <2> QED
    BY <2>1, <2>2, GiveKeepsForm
<1>6. ASSUME NEW i \in issued, GetDiscovery(i) PROVE PasswordInv'
  <2> DEFINE accepted == Accepted(i.credential.username, i.credential.password)
  <2>1. answer' = [of |-> i, key |-> mem.key, accepted |-> accepted] /\ UNCHANGED <<time, issued>>
    BY <1>6 DEF GetDiscovery, Accepted
  <2>2. accepted <=> i.service = "directory" /\ i.key = mem.key
    <3>1. CASE i.service = "directory"
      <4>1. PICK t \in Nat \ {0} :
              i.credential.password = DirectoryPassword(i.credential.username, i.key, t)
        BY <3>1 DEF PasswordInv, IssuedForm
      <4> QED
        BY <3>1, <4>1, VerifyDirectory
    <3>2. CASE i.service # "directory"
      <4>1. Len(i.credential.password) = 3
        BY <3>2 DEF PasswordInv, IssuedForm
      <4> QED
        BY <3>2, <4>1, VerifyOther
    <3> QED
      BY <3>1, <3>2
  <2> HIDE DEF accepted
  <2>3. answer'.of = i /\ answer'.key = mem.key /\ answer'.accepted = accepted
    BY <2>1
  <2>4. DirectoryOpensDiscovery'
    BY <2>2, <2>3 DEF DirectoryOpensDiscovery
  <2> QED
    BY <2>1, <2>4 DEF PasswordInv, IssuedForm
<1> QED
  BY <1>2, <1>3, <1>4, <1>5, <1>6 DEF Next

\* chat/Directory.c and the contact discovery service agree: generate() and verify()
\* fit together for every time, account and key, through restarts and upgrades.
THEOREM DirectoryPasswords == Spec => []DirectoryOpensDiscovery
<1>1. PasswordInv => DirectoryOpensDiscovery
  BY DEF PasswordInv
<1> QED
  BY <1>1, PasswordInvInit, PasswordInvNext, PTL DEF Spec

(***************************************************************************)
(* Sums                                                                    *)
(*                                                                         *)
(* The functions of Zkp that add something up are recursive.  That such a  *)
(* function exists is proved by induction, which is reduced to sets of     *)
(* natural numbers: a set that is not empty has a least element.           *)
(***************************************************************************)

\* A set of numbers that is not empty has a least element.
LEMMA LeastNumber ==
  ASSUME NEW S, S \subseteq Nat, S # {}
  PROVE  \E m \in S : \A n \in S : m <= n
<1>1. PICK m \in S : \A n \in S : ~ (<<n, m>> \in OpToRel(<, Nat))
  BY NatLessThanWellFounded, WFMin, Zenon
<1>2. \A n \in S : ~ (n < m)
  BY <1>1 DEF OpToRel
<1> QED
  BY <1>2

\* Induction up to a number N.
LEMMA InductionTo ==
  ASSUME NEW N \in Nat, NEW S, 0 \in S, \A n \in 1..N : n - 1 \in S => n \in S
  PROVE  0..N \subseteq S
<1> DEFINE Left == {n \in 0..N : n \notin S}
<1>1. ASSUME Left # {} PROVE FALSE
  <2>1. PICK m \in Left : \A n \in Left : m <= n
    <3>1. Left \subseteq Nat
      OBVIOUS
    <3> HIDE DEF Left
    <3> QED
      BY <1>1, <3>1, LeastNumber
  <2>2. m \in 0..N /\ m # 0 /\ m \notin S
    BY <2>1
  <2>3. m \in 1..N /\ m - 1 \in 0..N /\ ~ (m <= m - 1)
    BY <2>2
  <2>4. m - 1 \in S
    BY <2>1, <2>3
  <2> QED
    BY <2>2, <2>3, <2>4
<1> QED
  BY <1>1

\* A function that begins with a and goes on by steps.
GoesOn(f, a, step, n) == f[0] = a /\ \A i \in 1..n : f[i] = step[<<f[i - 1], i>>]

\* There is one on 0..N.
LEMMA RecursiveFunction ==
  ASSUME NEW S, NEW a \in S, NEW step \in [S \X Nat -> S], NEW N \in Nat
  PROVE  \E f \in [0..N -> S] : GoesOn(f, a, step, N)
<1> DEFINE Is(f, n) == f \in [0..n -> S] /\ GoesOn(f, a, step, n)
           K == {n \in Nat : \E f : Is(f, n)}
<1>1. 0 \in K
  <2>1. Is([i \in 0..0 |-> a], 0)
    BY DEF GoesOn
  <2> QED
    BY <2>1
<1>2. ASSUME NEW n \in 1..N, n - 1 \in K PROVE n \in K
  <2>1. PICK f : Is(f, n - 1)
    BY <1>2
  <2> DEFINE last == step[<<f[n - 1], n>>]
             g == [i \in 0..n |-> IF i = n THEN last ELSE f[i]]
  <2>2. last \in S
    BY <2>1
  <2>3. \A i \in 0..n : g[i] = IF i = n THEN last ELSE f[i]
    OBVIOUS
  <2>4. g \in [0..n -> S]
    BY <2>1, <2>2
  <2>5. g[0] = a
    BY <2>1 DEF GoesOn
  <2>6. ASSUME NEW i \in 1..n PROVE g[i] = step[<<g[i - 1], i>>]
    <3>1. i \in 0..n /\ i - 1 \in 0..n /\ i - 1 # n
      OBVIOUS
    <3>2. g[i - 1] = f[i - 1]
      BY <2>3, <3>1
    <3>3. CASE i = n
      <4>1. g[i] = last
        BY <2>3, <3>1, <3>3
      <4> QED
        BY <3>2, <3>3, <4>1
    <3>4. CASE i # n
      <4>1. g[i] = f[i] /\ i \in 1..(n - 1)
        BY <2>3, <3>1, <3>4
      <4> QED
        BY <2>1, <3>2, <4>1 DEF GoesOn
    <3> QED
      BY <3>3, <3>4
  <2>7. Is(g, n)
    <3> HIDE DEF g
    <3> QED
      BY <2>4, <2>5, <2>6 DEF GoesOn
  <2> HIDE DEF Is
  <2> QED
    BY <2>7
<1>3. 0..N \subseteq K
  <2> HIDE DEF K
  <2> QED
    BY <1>1, <1>2, InductionTo
<1>4. PICK f : Is(f, N)
  <2>1. N \in 0..N
    OBVIOUS
  <2> HIDE DEF Is
  <2> QED
    BY <1>3, <2>1
<1> QED
  BY <1>4

\* Sum() adds the elements of a sequence up from the first.
LEMMA SumSteps ==
  ASSUME NEW f \in Seq(Int)
  PROVE  \E s \in [0..Len(f) -> Int] :
           s[0] = 0 /\ (\A i \in 1..Len(f) : s[i] = s[i - 1] + f[i]) /\ Z!Sum(f) = s[Len(f)]
<1> DEFINE n == Len(f)
           step == [x \in Int \X Nat |-> x[1] + (IF x[2] \in 1..n THEN f[x[2]] ELSE 0)]
           G(s) == [i \in 0..n |-> IF i = 0 THEN 0 ELSE s[i - 1] + f[i]]
           h == CHOOSE s : s = G(s)
<1>1. n \in Nat /\ step \in [Int \X Nat -> Int]
  OBVIOUS
<1>2. \A v \in Int, i \in 1..n : step[<<v, i>>] = v + f[i]
  BY <1>1
<1>3. PICK s \in [0..n -> Int] : GoesOn(s, 0, step, n)
  <2>1. 0 \in Int
    OBVIOUS
  <2> HIDE DEF n, step
  <2> QED
    BY <1>1, <2>1, RecursiveFunction
<1>4. ASSUME NEW i \in 1..n PROVE s[i] = s[i - 1] + f[i]
  <2> HIDE DEF n, step
  <2>1. i - 1 \in 0..n
    BY <1>1
  <2> QED
    BY <1>2, <1>3, <2>1 DEF GoesOn
<1>5. s = G(s)
  <2> HIDE DEF n, step
  <2>1. \A i \in 0..n : s[i] = IF i = 0 THEN 0 ELSE s[i - 1] + f[i]
    BY <1>1, <1>3, <1>4 DEF GoesOn
  <2> QED
    BY <1>3, <2>1
<1> HIDE DEF step
<1>7. h = G(h)
  <2> HIDE DEF G
  <2> QED
    BY <1>5
<1>8. h[0] = 0 /\ \A i \in 1..n : h[i] = h[i - 1] + f[i]
  <2>1. G(h)[0] = 0 /\ \A i \in 1..n : G(h)[i] = h[i - 1] + f[i]
    <3> HIDE DEF h
    <3> QED
      BY <1>1
  <2> HIDE DEF h, G
  <2> QED
    BY <1>7, <2>1
<1>9. h \in [0..n -> Int]
  <2> DEFINE K == {i \in 0..n : h[i] \in Int}
  <2> HIDE DEF h
  <2>1. 0 \in K
    BY <1>1, <1>8
  <2>2. ASSUME NEW i \in 1..n, i - 1 \in K PROVE i \in K
    BY <1>1, <1>8, <2>2
  <2>3. 0..n \subseteq K
    <3> HIDE DEF K, n
    <3> QED
      BY <1>1, <2>1, <2>2, InductionTo
  <2>4. DOMAIN G(h) = 0..n
    OBVIOUS
  <2>5. DOMAIN h = 0..n
    <3> HIDE DEF G
    <3> QED
      BY <1>7, <2>4, Zenon
  <2>6. h = [i \in 0..n |-> h[i]]
    <3>1. h = [i \in DOMAIN h |-> h[i]]
      BY <1>7
    <3> QED
      BY <2>5, <3>1, Zenon
  <2> QED
    BY <2>3, <2>6
<1>10. Z!Sum(f) = h[n]
  BY DEF Z!Sum
<1> QED
  BY <1>8, <1>9, <1>10

(***************************************************************************)
(* Numbers modulo Q                                                        *)
(***************************************************************************)

\* Two numbers are the same modulo Q.
Cong(a, b) == \E k \in Int : a = b + k * Q

\* Congruence is an equivalence.
LEMMA CongRefl == \A a \in Int : Cong(a, a)
<1> SUFFICES ASSUME NEW a \in Int PROVE Cong(a, a)
  OBVIOUS
<1>1. Q \in Int
  BY QAssumption
<1>2. a = a + 0 * Q
  BY <1>1
<1> QED
  BY <1>2 DEF Cong

\* Congruence is symmetric.
LEMMA CongSym == \A a, b \in Int : Cong(a, b) => Cong(b, a)
<1> SUFFICES ASSUME NEW a \in Int, NEW b \in Int, Cong(a, b) PROVE Cong(b, a)
  OBVIOUS
<1>1. Q \in Int
  BY QAssumption
<1>2. PICK k \in Int : a = b + k * Q
  BY DEF Cong
<1>3. (0 - k) * Q = 0 - k * Q /\ k * Q \in Int
  BY <1>1
<1>4. b = a + (0 - k) * Q /\ 0 - k \in Int
  BY <1>2, <1>3
<1> QED
  BY <1>4 DEF Cong

\* It is transitive.
LEMMA CongTrans == \A a, b, c \in Int : Cong(a, b) /\ Cong(b, c) => Cong(a, c)
<1> SUFFICES ASSUME NEW a \in Int, NEW b \in Int, NEW c \in Int, Cong(a, b), Cong(b, c)
             PROVE  Cong(a, c)
  OBVIOUS
<1>1. Q \in Int
  BY QAssumption
<1>2. PICK k \in Int : a = b + k * Q
  BY DEF Cong
<1>3. PICK m \in Int : b = c + m * Q
  BY DEF Cong
<1>4. (m + k) * Q = m * Q + k * Q /\ k * Q \in Int /\ m * Q \in Int
  BY <1>1
<1>5. a = c + (m + k) * Q /\ m + k \in Int
  BY <1>2, <1>3, <1>4
<1> QED
  BY <1>5 DEF Cong

\* Sums, differences and products of congruent numbers are congruent.
LEMMA CongAdd ==
  \A a, b, c, d \in Int : Cong(a, b) /\ Cong(c, d) => Cong(a + c, b + d)
<1> SUFFICES ASSUME NEW a \in Int, NEW b \in Int, NEW c \in Int, NEW d \in Int,
                    Cong(a, b), Cong(c, d)
             PROVE  Cong(a + c, b + d)
  OBVIOUS
<1>1. Q \in Int
  BY QAssumption
<1>2. PICK k \in Int : a = b + k * Q
  BY DEF Cong
<1>3. PICK m \in Int : c = d + m * Q
  BY DEF Cong
<1>4. (m + k) * Q = m * Q + k * Q /\ k * Q \in Int /\ m * Q \in Int
  BY <1>1
<1>5. a + c = (b + d) + (m + k) * Q /\ m + k \in Int
  BY <1>2, <1>3, <1>4
<1> QED
  BY <1>5 DEF Cong

\* Differences of congruent numbers are congruent.
LEMMA CongSub ==
  \A a, b, c, d \in Int : Cong(a, b) /\ Cong(c, d) => Cong(a - c, b - d)
<1> SUFFICES ASSUME NEW a \in Int, NEW b \in Int, NEW c \in Int, NEW d \in Int,
                    Cong(a, b), Cong(c, d)
             PROVE  Cong(a - c, b - d)
  OBVIOUS
<1>1. Q \in Int
  BY QAssumption
<1>2. PICK k \in Int : a = b + k * Q
  BY DEF Cong
<1>3. PICK m \in Int : c = d + m * Q
  BY DEF Cong
<1>4. (k - m) * Q = k * Q - m * Q /\ k * Q \in Int /\ m * Q \in Int
  BY <1>1
<1>5. a - c = (b - d) + (k - m) * Q /\ k - m \in Int
  BY <1>2, <1>3, <1>4
<1> QED
  BY <1>5 DEF Cong

\* Products of congruent numbers are congruent.
LEMMA CongMul ==
  \A a, b, c, d \in Int : Cong(a, b) /\ Cong(c, d) => Cong(a * c, b * d)
<1> SUFFICES ASSUME NEW a \in Int, NEW b \in Int, NEW c \in Int, NEW d \in Int,
                    Cong(a, b), Cong(c, d)
             PROVE  Cong(a * c, b * d)
  OBVIOUS
<1>1. Q \in Int
  BY QAssumption
<1>2. PICK k \in Int : a = b + k * Q
  BY DEF Cong
<1>3. PICK m \in Int : c = d + m * Q
  BY DEF Cong
<1>4. a * c = b * c + (k * c) * Q /\ k * c \in Int /\ b * c \in Int
  BY <1>1, <1>2
<1>5. b * c = b * d + (b * m) * Q /\ b * m \in Int /\ b * d \in Int
  BY <1>1, <1>3
<1>6. (k * c + b * m) * Q = (k * c) * Q + (b * m) * Q
  BY <1>1, <1>4, <1>5
<1>7. (k * c) * Q \in Int /\ (b * m) * Q \in Int
  BY <1>1, <1>4, <1>5
<1>8. a * c = b * d + (k * c + b * m) * Q /\ k * c + b * m \in Int
  BY <1>4, <1>5, <1>6, <1>7
<1> QED
  BY <1>8 DEF Cong

\* A number is congruent to its remainder.
LEMMA CongMod == \A a \in Int : a % Q \in 0..(Q - 1) /\ Cong(a % Q, a)
<1> SUFFICES ASSUME NEW a \in Int PROVE a % Q \in 0..(Q - 1) /\ Cong(a % Q, a)
  OBVIOUS
<1>1. Q \in Int /\ Q > 0
  BY QAssumption
<1>2. a % Q \in 0..(Q - 1) /\ a \div Q \in Int /\ a = Q * (a \div Q) + (a % Q)
  BY <1>1
<1> DEFINE k == a \div Q
           r == a % Q
<1> HIDE DEF k, r
<1>3. a = Q * k + r /\ k \in Int /\ r \in Int
  BY <1>1, <1>2 DEF k, r
<1>4. (0 - k) * Q = 0 - Q * k /\ Q * k \in Int
  BY <1>1, <1>3
<1>5. r = a + (0 - k) * Q /\ 0 - k \in Int
  BY <1>3, <1>4
<1>6. Cong(r, a)
  BY <1>5 DEF Cong
<1> QED
  BY <1>2, <1>6 DEF r

\* Congruent numbers below Q are equal.
LEMMA CongSmall == \A a, b \in 0..(Q - 1) : Cong(a, b) => a = b
<1> SUFFICES ASSUME NEW a \in 0..(Q - 1), NEW b \in 0..(Q - 1), Cong(a, b) PROVE a = b
  OBVIOUS
<1>1. Q \in Int /\ Q > 0
  BY QAssumption
<1>2. PICK k \in Int : a = b + k * Q
  BY DEF Cong
<1>3. k * Q < Q /\ k * Q > 0 - Q /\ k * Q \in Int
  BY <1>1, <1>2
<1>4. k >= 1 => k * Q >= Q
  <2> SUFFICES ASSUME k >= 1 PROVE k * Q >= Q
    OBVIOUS
  <2>1. k - 1 \in Nat /\ Q \in Nat
    BY <1>1
  <2>2. (k - 1) * Q \in Nat
    BY <2>1
  <2>3. k * Q = (k - 1) * Q + Q
    BY <1>1
  <2> QED
    BY <1>1, <2>2, <2>3
<1>5. k <= -1 => k * Q <= 0 - Q
  <2> SUFFICES ASSUME k <= -1 PROVE k * Q <= 0 - Q
    OBVIOUS
  <2>1. (0 - k) - 1 \in Nat /\ Q \in Nat
    BY <1>1
  <2>2. ((0 - k) - 1) * Q \in Nat
    BY <2>1
  <2>3. k * Q = 0 - (((0 - k) - 1) * Q + Q)
    BY <1>1
  <2> QED
    BY <1>1, <2>2, <2>3
<1>6. k = 0
  BY <1>1, <1>3, <1>4, <1>5
<1> QED
  BY <1>1, <1>2, <1>6

\* Congruent numbers have the same remainder.
LEMMA CongSame == \A a, b \in Int : Cong(a, b) => a % Q = b % Q
<1> SUFFICES ASSUME NEW a \in Int, NEW b \in Int, Cong(a, b) PROVE a % Q = b % Q
  OBVIOUS
<1> DEFINE r == a % Q
           s == b % Q
<1>1. r \in 0..(Q - 1) /\ s \in 0..(Q - 1) /\ Cong(r, a) /\ Cong(s, b)
  BY CongMod
<1>2. r \in Int /\ s \in Int
  BY <1>1, QAssumption
<1> HIDE DEF r, s
<1>3. Cong(b, s)
  BY <1>1, <1>2, CongSym
<1>4. Cong(r, b)
  BY <1>1, <1>2, CongTrans
<1>5. Cong(r, s)
  BY <1>2, <1>3, <1>4, CongTrans
<1>6. r = s
  BY <1>1, <1>5, CongSmall
<1> QED
  BY <1>6 DEF r, s

\* Numbers with the same remainder are congruent.
LEMMA SameCong == \A a, b \in Int : a % Q = b % Q => Cong(a, b)
<1> SUFFICES ASSUME NEW a \in Int, NEW b \in Int, a % Q = b % Q PROVE Cong(a, b)
  OBVIOUS
<1> DEFINE r == a % Q
           s == b % Q
<1>1. r \in 0..(Q - 1) /\ Cong(r, a)
  BY CongMod
<1>2. s \in 0..(Q - 1) /\ Cong(s, b)
  BY CongMod
<1>3. r = s
  OBVIOUS
<1> HIDE DEF r, s
<1>4. r \in Int
  BY <1>1, QAssumption
<1>5. Cong(a, r)
  BY <1>1, <1>4, CongSym
<1> QED
  BY <1>2, <1>3, <1>4, <1>5, CongTrans

(***************************************************************************)
(* Sums of sequences                                                       *)
(***************************************************************************)

\* What a sequence of numbers has in its places.
LEMMA ElementType == \A f \in Seq(Int) : \A i \in 1..Len(f) : f[i] \in Int
  OBVIOUS

\* Sums of sequences of the same length are related as their elements are.
LEMMA SumLinear ==
  ASSUME NEW n \in Nat, NEW f \in Seq(Int), NEW g \in Seq(Int), NEW h \in Seq(Int), NEW c \in Int,
         Len(f) = n, Len(g) = n, Len(h) = n,
         \A i \in 1..n : Cong(h[i], f[i] * c + g[i])
  PROVE  Cong(Z!Sum(h), Z!Sum(f) * c + Z!Sum(g))
<1>1. PICK s \in [0..n -> Int] :
        s[0] = 0 /\ (\A i \in 1..n : s[i] = s[i - 1] + f[i]) /\ Z!Sum(f) = s[n]
  BY SumSteps
<1>2. PICK t \in [0..n -> Int] :
        t[0] = 0 /\ (\A i \in 1..n : t[i] = t[i - 1] + g[i]) /\ Z!Sum(g) = t[n]
  BY SumSteps
<1>3. PICK u \in [0..n -> Int] :
        u[0] = 0 /\ (\A i \in 1..n : u[i] = u[i - 1] + h[i]) /\ Z!Sum(h) = u[n]
  BY SumSteps
<1> DEFINE K == {i \in 0..n : Cong(u[i], s[i] * c + t[i])}
<1>4. 0 \in K
  <2>1. s[0] * c + t[0] = 0 /\ u[0] = 0
    BY <1>1, <1>2, <1>3
  <2> QED
    BY <2>1, CongRefl
<1>5. ASSUME NEW i \in 1..n, i - 1 \in K PROVE i \in K
  <2> DEFINE a == s[i - 1]
             b == t[i - 1]
             d == u[i - 1]
             x == f[i]
             y == g[i]
             z == h[i]
  <2>1. i - 1 \in 0..n /\ i \in 0..n
    OBVIOUS
  <2>2. a \in Int /\ b \in Int /\ d \in Int /\ x \in Int /\ y \in Int /\ z \in Int
    <3>1. a \in Int /\ b \in Int /\ d \in Int
      BY <2>1
    <3>2. x \in Int /\ y \in Int /\ z \in Int
      BY ElementType
    <3> QED
      BY <3>1, <3>2
  <2>3. s[i] = a + x /\ t[i] = b + y /\ u[i] = d + z
    BY <1>1, <1>2, <1>3
  <2>4. Cong(d, a * c + b) /\ Cong(z, x * c + y)
    BY <1>5
  <2> HIDE DEF a, b, d, x, y, z
  <2>5. a * c + b \in Int /\ x * c + y \in Int
    BY <2>2
  <2>6. Cong(d + z, (a * c + b) + (x * c + y))
    BY <2>2, <2>4, <2>5, CongAdd
  <2>7. (a * c + b) + (x * c + y) = (a + x) * c + (b + y)
    BY <2>2
  <2> QED
    BY <2>1, <2>3, <2>6, <2>7
<1>6. 0..n \subseteq K
  <2> HIDE DEF K
  <2> QED
    BY <1>4, <1>5, InductionTo
<1>7. n \in 0..n
  OBVIOUS
<1> QED
  BY <1>1, <1>2, <1>3, <1>6, <1>7

\* Two sequences that differ in one place: so do their sums.
DiffersIn(g, f, m, c) ==
  /\ m \in 1..Len(f) /\ Len(g) = Len(f) /\ g[m] = f[m] + c
  /\ \A i \in (1..Len(f)) \ {m} : g[i] = f[i]

\* A sum with one number changed.
LEMMA SumOne ==
  ASSUME NEW f \in Seq(Int), NEW g \in Seq(Int), NEW m, NEW c \in Int, DiffersIn(g, f, m, c)
  PROVE  Z!Sum(g) = Z!Sum(f) + c
<1> DEFINE n == Len(f)
<1>0. /\ n \in Nat /\ Len(g) = n /\ Len(f) = n /\ m \in 1..n
      /\ g[m] = f[m] + c /\ \A i \in (1..n) \ {m} : g[i] = f[i]
  BY DEF DiffersIn
<1> HIDE DEF n
<1>1. PICK s \in [0..n -> Int] :
        s[0] = 0 /\ (\A i \in 1..n : s[i] = s[i - 1] + f[i]) /\ Z!Sum(f) = s[n]
  BY <1>0, SumSteps
<1>2. PICK t \in [0..n -> Int] :
        t[0] = 0 /\ (\A i \in 1..n : t[i] = t[i - 1] + g[i]) /\ Z!Sum(g) = t[n]
  BY <1>0, SumSteps
<1> DEFINE K == {i \in 0..n : t[i] = s[i] + (IF i < m THEN 0 ELSE c)}
<1>3. 0 \in K
  BY <1>0, <1>1, <1>2
<1>4. ASSUME NEW i \in 1..n, i - 1 \in K PROVE i \in K
  <2>1. i - 1 \in 0..n /\ i \in 0..n /\ s[i - 1] \in Int /\ f[i] \in Int
    BY <1>0, ElementType
  <2>2. s[i] = s[i - 1] + f[i] /\ t[i] = t[i - 1] + g[i]
    BY <1>1, <1>2
  <2>3. t[i - 1] = s[i - 1] + (IF i - 1 < m THEN 0 ELSE c)
    BY <1>4
  <2>4. CASE i = m
    BY <1>0, <2>1, <2>2, <2>3, <2>4
  <2>5. CASE i < m
    <3>1. t[i - 1] = s[i - 1] + 0 /\ g[i] = f[i]
      BY <1>0, <2>3, <2>5
    <3>2. t[i] = s[i] + 0
      BY <1>0, <2>1, <2>2, <3>1
    <3> QED
      BY <1>0, <2>1, <2>5, <3>2
  <2>6. CASE i > m
    <3>1. t[i - 1] = s[i - 1] + c /\ g[i] = f[i]
      BY <1>0, <2>3, <2>6
    <3>2. t[i] = s[i] + c
      BY <1>0, <2>1, <2>2, <3>1
    <3> QED
      BY <1>0, <2>1, <2>6, <3>2
  <2> QED
    BY <1>0, <2>4, <2>5, <2>6
<1>5. 0..n \subseteq K
  <2> HIDE DEF K
  <2> QED
    BY <1>0, <1>3, <1>4, InductionTo
<1>6. n \in K /\ ~ (n < m)
  BY <1>0, <1>5
<1> QED
  BY <1>1, <1>2, <1>6

\* The sum of a sequence is that of a first part and that of the rest.
HasParts(h, f, g, m, n) ==
  /\ m \in Nat /\ n \in Nat /\ f \in Seq(Int) /\ g \in Seq(Int) /\ h \in Seq(Int)
  /\ Len(f) = m /\ Len(g) = n /\ Len(h) = m + n
  /\ \A i \in 1..m : h[i] = f[i]
  /\ \A i \in 1..n : h[m + i] = g[i]

\* The sum of a sequence is that of its parts.
LEMMA SumParts ==
  ASSUME NEW h, NEW f, NEW g, NEW m, NEW n, HasParts(h, f, g, m, n)
  PROVE  Z!Sum(h) = Z!Sum(f) + Z!Sum(g)
<1> SUFFICES ASSUME m \in Nat, n \in Nat, f \in Seq(Int), g \in Seq(Int), h \in Seq(Int),
                    Len(f) = m, Len(g) = n, Len(h) = m + n,
                    \A i \in 1..m : h[i] = f[i], \A i \in 1..n : h[m + i] = g[i]
             PROVE  Z!Sum(h) = Z!Sum(f) + Z!Sum(g)
  BY DEF HasParts
<1>1. PICK s \in [0..m -> Int] :
        s[0] = 0 /\ (\A i \in 1..m : s[i] = s[i - 1] + f[i]) /\ Z!Sum(f) = s[m]
  BY SumSteps
<1>2. PICK t \in [0..n -> Int] :
        t[0] = 0 /\ (\A i \in 1..n : t[i] = t[i - 1] + g[i]) /\ Z!Sum(g) = t[n]
  BY SumSteps
<1> DEFINE l == m + n
<1>3. l \in Nat
  OBVIOUS
<1>4. PICK u \in [0..l -> Int] :
        u[0] = 0 /\ (\A i \in 1..l : u[i] = u[i - 1] + h[i]) /\ Z!Sum(h) = u[l]
  BY SumSteps
<1> DEFINE K == {i \in 0..m : u[i] = s[i]}
           L == {i \in 0..n : u[m + i] = s[m] + t[i]}
<1>5. 0..m \subseteq K
  <2>1. 0 \in K
    BY <1>1, <1>4
  <2>2. ASSUME NEW i \in 1..m, i - 1 \in K PROVE i \in K
    <3>1. i \in 1..l
      OBVIOUS
    <3> QED
      BY <1>1, <1>4, <2>2, <3>1
  <2> HIDE DEF K
  <2> QED
    BY <2>1, <2>2, InductionTo
<1>6. 0..n \subseteq L
  <2>1. 0 \in L
    <3>1. m \in K
      BY <1>5
    <3>2. u[m] = s[m] /\ s[m] \in Int /\ t[0] = 0 /\ m + 0 = m
      BY <1>1, <1>2, <3>1
    <3> QED
      BY <3>2
  <2>2. ASSUME NEW i \in 1..n, i - 1 \in L PROVE i \in L
    <3>1. m + i \in 1..l /\ (m + i) - 1 = m + (i - 1) /\ i - 1 \in 0..n
      OBVIOUS
    <3>2. u[m + i] = u[m + (i - 1)] + h[m + i]
      BY <1>4, <3>1
    <3>3. u[m + (i - 1)] = s[m] + t[i - 1] /\ t[i] = t[i - 1] + g[i] /\ h[m + i] = g[i]
      BY <1>2, <2>2
    <3>4. s[m] \in Int /\ t[i - 1] \in Int /\ g[i] \in Int
      <4>1. m \in 0..m
        OBVIOUS
      <4>2. g[i] \in Int
        BY ElementType
      <4> QED
        BY <3>1, <4>1, <4>2
    <3> QED
      BY <3>2, <3>3, <3>4
  <2> HIDE DEF L
  <2> QED
    BY <2>1, <2>2, InductionTo
<1>7. n \in L
  BY <1>6
<1> QED
  BY <1>1, <1>2, <1>4, <1>7

\* The sum of a sequence is a number.
LEMMA SumType == \A f \in Seq(Int) : Z!Sum(f) \in Int
<1> SUFFICES ASSUME NEW f \in Seq(Int) PROVE Z!Sum(f) \in Int
  OBVIOUS
<1>1. PICK s \in [0..Len(f) -> Int] : Z!Sum(f) = s[Len(f)]
  BY SumSteps
<1> QED
  BY <1>1

\* The sums of sequences with one, two and three elements.
LEMMA SumShort ==
  ASSUME NEW f \in Seq(Int)
  PROVE  /\ Len(f) = 1 => Z!Sum(f) = f[1]
         /\ Len(f) = 2 => Z!Sum(f) = f[1] + f[2]
         /\ Len(f) = 3 => Z!Sum(f) = f[1] + f[2] + f[3]
<1>1. PICK s \in [0..Len(f) -> Int] :
        s[0] = 0 /\ (\A i \in 1..Len(f) : s[i] = s[i - 1] + f[i]) /\ Z!Sum(f) = s[Len(f)]
  BY SumSteps
<1>2. ASSUME Len(f) >= 1 PROVE s[1] = f[1] /\ f[1] \in Int
  BY <1>1, <1>2
<1>3. ASSUME Len(f) >= 2 PROVE s[2] = f[1] + f[2] /\ f[2] \in Int
  <2>1. 2 \in 1..Len(f) /\ 2 - 1 = 1
    BY <1>3
  <2>2. s[2] = s[1] + f[2]
    BY <1>1, <2>1
  <2> QED
    BY <1>2, <1>3, <2>1, <2>2
<1>4. ASSUME Len(f) >= 3 PROVE s[3] = f[1] + f[2] + f[3]
  <2>1. 3 \in 1..Len(f) /\ 3 - 1 = 2
    BY <1>4
  <2>2. s[3] = s[2] + f[3]
    BY <1>1, <2>1
  <2> QED
    BY <1>3, <1>4, <2>2
<1>5. Len(f) = 1 => Z!Sum(f) = f[1]
  BY <1>1, <1>2
<1>6. Len(f) = 2 => Z!Sum(f) = f[1] + f[2]
  BY <1>1, <1>3
<1>7. Len(f) = 3 => Z!Sum(f) = f[1] + f[2] + f[3]
  BY <1>1, <1>4
<1> QED
  BY <1>5, <1>6, <1>7

(***************************************************************************)
(* Statements                                                              *)
(***************************************************************************)

\* What RightHandSide() adds up.
Products(terms, g1, points) ==
  [i \in 1..Len(terms) |-> points[terms[i][2]] * g1[terms[i][1]]]

\* It gets their sum modulo Q.
LEMMA RightHandSideIs ==
  ASSUME NEW terms, Len(terms) \in Nat, NEW g1, NEW points,
         Products(terms, g1, points) \in Seq(Int)
  PROVE  /\ Z!RightHandSide(terms, g1, points) \in 0..(Q - 1)
         /\ Cong(Z!RightHandSide(terms, g1, points), Z!Sum(Products(terms, g1, points)))
<1> DEFINE n == Len(terms)
           v == Products(terms, g1, points)
           step == [x \in Int \X Nat |-> (x[1] + (IF x[2] \in 1..n THEN v[x[2]] ELSE 0)) % Q]
           G(s) == [i \in 0..n |->
                     IF i = 0 THEN 0 ELSE (s[i - 1] + points[terms[i][2]] * g1[terms[i][1]]) % Q]
           h == CHOOSE s : s = G(s)
<1>1. n \in Nat /\ v \in Seq(Int) /\ Len(v) = n
      /\ \A i \in 1..n : v[i] = points[terms[i][2]] * g1[terms[i][1]]
  <2>1. Len(v) = n
    BY DEF Products
  <2>2. \A i \in 1..n : v[i] = points[terms[i][2]] * g1[terms[i][1]]
    BY DEF Products
  <2> QED
    BY <2>1, <2>2
<1>2. \A i \in 1..n : v[i] \in Int
  <2> HIDE DEF v, n
  <2> QED
    BY <1>1
<1>3. step \in [Int \X Nat -> Int] /\ \A a \in Int, i \in 1..n : step[<<a, i>>] = (a + v[i]) % Q
  <2> HIDE DEF v, n
  <2>1. \A x \in Int \X Nat : (x[1] + (IF x[2] \in 1..n THEN v[x[2]] ELSE 0)) % Q \in Int
    <3> SUFFICES ASSUME NEW x \in Int \X Nat
                 PROVE  (x[1] + (IF x[2] \in 1..n THEN v[x[2]] ELSE 0)) % Q \in Int
      OBVIOUS
    <3>1. x[1] + (IF x[2] \in 1..n THEN v[x[2]] ELSE 0) \in Int
      BY <1>1, <1>2
    <3> QED
      BY <3>1, QAssumption
  <2>2. step \in [Int \X Nat -> Int]
    BY <2>1
  <2>3. \A a \in Int, i \in 1..n : step[<<a, i>>] = (a + v[i]) % Q
    BY <1>1
  <2> QED
    BY <2>2, <2>3
<1>4. PICK s \in [0..n -> Int] : GoesOn(s, 0, step, n)
  <2>1. 0 \in Int
    OBVIOUS
  <2> HIDE DEF n, step
  <2> QED
    BY <1>1, <1>3, <2>1, RecursiveFunction
<1>5. s = G(s)
  <2> HIDE DEF n, step, v
  <2>1. ASSUME NEW i \in 1..n
        PROVE  s[i] = (s[i - 1] + points[terms[i][2]] * g1[terms[i][1]]) % Q
    <3>1. i - 1 \in 0..n /\ s[i - 1] \in Int
      BY <1>1
    <3>2. s[i] = (s[i - 1] + v[i]) % Q
      BY <1>3, <1>4, <3>1 DEF GoesOn
    <3> QED
      BY <1>1, <3>2
  <2>2. \A i \in 0..n : s[i] =
          IF i = 0 THEN 0 ELSE (s[i - 1] + points[terms[i][2]] * g1[terms[i][1]]) % Q
    BY <1>1, <1>4, <2>1 DEF GoesOn
  <2> QED
    BY <1>4, <2>2
<1> HIDE DEF step
<1>6. h = G(h)
  <2> HIDE DEF G
  <2> QED
    BY <1>5
<1>7. h[0] = 0 /\ \A i \in 1..n : h[i] = (h[i - 1] + v[i]) % Q
  <2>1. G(h)[0] = 0
    <3> HIDE DEF h
    <3> QED
      BY <1>1
  <2>2. \A i \in 1..n : G(h)[i] = (h[i - 1] + points[terms[i][2]] * g1[terms[i][1]]) % Q
    <3> HIDE DEF h
    <3> QED
      BY <1>1
  <2> HIDE DEF h, G, v, n
  <2> QED
    BY <1>1, <1>6, <2>1, <2>2
<1>8. PICK w \in [0..n -> Int] :
        w[0] = 0 /\ (\A i \in 1..n : w[i] = w[i - 1] + v[i]) /\ Z!Sum(v) = w[n]
  <2> HIDE DEF v, n
  <2> QED
    BY <1>1, SumSteps
<1> HIDE DEF h, v, n
<1> DEFINE K == {i \in 0..n : h[i] \in 0..(Q - 1) /\ Cong(h[i], w[i])}
<1>9. 0 \in K
  <2>1. 0 \in 0..(Q - 1) /\ Cong(0, 0)
    BY QAssumption, CongRefl
  <2> QED
    BY <1>1, <1>7, <1>8, <2>1
<1>10. ASSUME NEW i \in 1..n, i - 1 \in K PROVE i \in K
  <2> DEFINE a == h[i - 1]
             b == w[i - 1]
             c == v[i]
  <2>1. i \in 0..n /\ i - 1 \in 0..n
    BY <1>1
  <2>2. a \in Int /\ b \in Int /\ c \in Int /\ Cong(a, b)
    <3>1. a \in 0..(Q - 1) /\ Cong(a, b)
      BY <1>10
    <3> QED
      BY <1>2, <2>1, <3>1, QAssumption
  <2>3. h[i] = (a + c) % Q /\ w[i] = b + c
    BY <1>7, <1>8
  <2> HIDE DEF a, b, c
  <2>4. Cong(c, c) /\ a + c \in Int /\ b + c \in Int
    BY <2>2, CongRefl
  <2>5. Cong(a + c, b + c)
    BY <2>2, <2>4, CongAdd
  <2>6. (a + c) % Q \in 0..(Q - 1) /\ Cong((a + c) % Q, a + c)
    BY <2>4, CongMod
  <2>7. (a + c) % Q \in Int
    BY <2>6, QAssumption
  <2>8. Cong((a + c) % Q, b + c)
    BY <2>4, <2>5, <2>6, <2>7, CongTrans
  <2> QED
    BY <2>1, <2>3, <2>6, <2>8
<1>11. 0..n \subseteq K
  <2> HIDE DEF K
  <2> QED
    BY <1>1, <1>9, <1>10, InductionTo
<1>12. n \in K
  BY <1>1, <1>11
<1>13. Z!RightHandSide(terms, g1, points) = h[n]
  BY DEF Z!RightHandSide, h, n
<1> QED
  BY <1>8, <1>12, <1>13 DEF v


\* A function on 1..n is a sequence, and a sequence a function.
LEMMA FunctionIsSequence ==
  ASSUME NEW S, NEW n \in Nat, NEW u \in [1..n -> S]
  PROVE  u \in Seq(S) /\ Len(u) = n
<1>1. u \in Seq(S)
  BY SeqDef
<1>2. Len(u) = n
  BY <1>1, LenProperties
<1> QED
  BY <1>1, <1>2

\* A sequence is a function on its indices.
LEMMA SeqIsFunction ==
  ASSUME NEW S, NEW u \in Seq(S)
  PROVE  /\ Len(u) \in Nat /\ DOMAIN u = 1..Len(u) /\ u \in [1..Len(u) -> S]
         /\ \A i \in 1..Len(u) : u[i] \in S
  OBVIOUS

\* The names of scalars and points in the statements of lib/protocol.
Identifiers == {"G", "w", "wprime", "x0", "x1", "y1", "y2", "y3", "y4", "y5", "rprime",
                "y", "r1", "r2", "j3",
                "C_W", "G_w", "G_wprime", "G_V_I", "G_x0", "G_x1",
                "G_y1", "G_y2", "G_y3", "G_y4", "G_y5", "V", "U", "tU",
                "M1", "M2", "M3", "M4", "M5", "S1", "S2", "D1", "D2", "E1", "E2",
                "Y", "J3", "G_j3", "D2_J1", "neg_G_j1", "E2_J2", "neg_G_j2"}

\* Names without repetition, and which they are.
UniqueNames == {s \in Seq(Identifiers) : \A i, j \in DOMAIN s : s[i] = s[j] => i = j}
Names(s) == {s[i] : i \in DOMAIN s}

\* A sequence that goes on where another ends.
Extends(t, s) == \A i \in DOMAIN s : i \in DOMAIN t /\ t[i] = s[i]

\* addScalar() and addPoint() add a name that is not there yet, at the end.
LEMMA AddNameIs ==
  ASSUME NEW names \in UniqueNames, NEW name \in Identifiers
  PROVE  /\ Z!AddName(names, name) \in UniqueNames
         /\ Names(Z!AddName(names, name)) = Names(names) \cup {name}
         /\ Extends(Z!AddName(names, name), names)
<1>1. names \in Seq(Identifiers) /\ \A i, j \in DOMAIN names : names[i] = names[j] => i = j
  BY DEF UniqueNames
<1>2. CASE \E i \in DOMAIN names : names[i] = name
  <2>1. Z!AddName(names, name) = names
    BY <1>2 DEF Z!AddName
  <2>2. name \in Names(names)
    BY <1>2 DEF Names
  <2> QED
    BY <2>1, <2>2 DEF Extends
<1>3. CASE ~ \E i \in DOMAIN names : names[i] = name
  <2> DEFINE all == Append(names, name)
             n == Len(names)
  <2>1. Z!AddName(names, name) = all
    BY <1>3 DEF Z!AddName
  <2>2. n \in Nat /\ DOMAIN names = 1..n /\ all \in Seq(Identifiers) /\ DOMAIN all = 1..(n + 1)
    <3>1. n \in Nat /\ DOMAIN names = 1..n
      BY <1>1
    <3>2. all \in Seq(Identifiers) /\ Len(all) = n + 1
      BY <1>1, AppendProperties
    <3>3. DOMAIN all = 1..Len(all)
      BY <3>2
    <3> QED
      BY <3>1, <3>2, <3>3
  <2>3. all[n + 1] = name /\ \A i \in 1..n : all[i] = names[i]
    BY <1>1
  <2> HIDE DEF all, n
  <2>4. \A i \in 1..(n + 1) : i = n + 1 \/ i \in 1..n
    BY <2>2
  <2>5. ASSUME NEW i \in DOMAIN all, NEW j \in DOMAIN all, all[i] = all[j] PROVE i = j
    BY <1>1, <1>3, <2>2, <2>3, <2>4, <2>5
  <2>6. all \in UniqueNames
    BY <2>2, <2>5 DEF UniqueNames
  <2>7. Names(all) = Names(names) \cup {name}
    <3>1. ASSUME NEW x \in Names(all) PROVE x \in Names(names) \cup {name}
      <4>1. PICK i \in 1..(n + 1) : x = all[i]
        BY <2>2 DEF Names
      <4> QED
        BY <2>2, <2>3, <2>4, <4>1 DEF Names
    <3>2. ASSUME NEW x \in Names(names) \cup {name} PROVE x \in Names(all)
      <4>1. n + 1 \in 1..(n + 1) /\ \A i \in 1..n : i \in 1..(n + 1)
        BY <2>2
      <4> QED
        BY <2>2, <2>3, <3>2, <4>1 DEF Names
    <3> QED
      BY <3>1, <3>2
  <2>8. Extends(all, names)
    <3>1. \A i \in 1..n : i \in 1..(n + 1)
      BY <2>2
    <3> QED
      BY <2>2, <2>3, <3>1 DEF Extends
  <2> QED
    BY <2>1, <2>6, <2>7, <2>8
<1> QED
  BY <1>2, <1>3

\* The same of a list of names.
LEMMA AddNamesIs ==
  ASSUME NEW names \in UniqueNames, NEW used \in Seq(Identifiers)
  PROVE  /\ Z!AddNames(names, used) \in UniqueNames
         /\ Names(Z!AddNames(names, used)) = Names(names) \cup Names(used)
         /\ Extends(Z!AddNames(names, used), names)
<1> DEFINE n == Len(used)
           next(s, i) == Z!AddName(s, used[i])
           step == [x \in UniqueNames \X Nat |-> IF x[2] \in 1..n THEN next(x[1], x[2]) ELSE x[1]]
           G(s) == [j \in 0..n |-> IF j = 0 THEN names ELSE Z!AddName(s[j - 1], used[j])]
           h == CHOOSE s : s = G(s)
<1>1. n \in Nat /\ \A i \in 1..n : used[i] \in Identifiers
  OBVIOUS
<1>2. \A s \in UniqueNames, i \in 1..n : next(s, i) \in UniqueNames
  <2> HIDE DEF n
  <2> QED
    BY <1>1, AddNameIs
<1>3. step \in [UniqueNames \X Nat -> UniqueNames]
      /\ \A s \in UniqueNames, i \in 1..n : step[<<s, i>>] = next(s, i)
  <2> HIDE DEF n, next
  <2> QED
    BY <1>1, <1>2
<1>4. PICK s \in [0..n -> UniqueNames] : GoesOn(s, names, step, n)
  <2> HIDE DEF n, step
  <2> QED
    BY <1>1, <1>3, RecursiveFunction
<1>5. s = G(s)
  <2>1. ASSUME NEW i \in 1..n PROVE s[i] = Z!AddName(s[i - 1], used[i])
    <3>1. s[i - 1] \in UniqueNames
      BY <1>1
    <3>2. s[i] = step[<<s[i - 1], i>>]
      BY <1>4 DEF GoesOn
    <3> HIDE DEF n, step
    <3>3. s[i] = next(s[i - 1], i)
      BY <1>3, <3>1, <3>2
    <3> QED
      BY <3>3
  <2> HIDE DEF n, step
  <2>2. \A i \in 0..n : s[i] = IF i = 0 THEN names ELSE Z!AddName(s[i - 1], used[i])
    BY <1>1, <1>4, <2>1 DEF GoesOn
  <2> QED
    BY <1>4, <2>2
<1> HIDE DEF step
<1>6. h = G(h)
  <2> HIDE DEF G
  <2> QED
    BY <1>5
<1>7. h[0] = names /\ \A i \in 1..n : h[i] = Z!AddName(h[i - 1], used[i])
  <2>1. G(h)[0] = names /\ \A i \in 1..n : G(h)[i] = Z!AddName(h[i - 1], used[i])
    <3> HIDE DEF h, n
    <3> QED
      BY <1>1
  <2> HIDE DEF h, G, n
  <2> QED
    BY <1>6, <2>1
<1> DEFINE K == {i \in 0..n : /\ h[i] \in UniqueNames
                              /\ Names(h[i]) = Names(names) \cup {used[j] : j \in 1..i}
                              /\ Extends(h[i], names)}
<1>8. Z!AddNames(names, used) = h[n]
  BY DEF Z!AddNames
<1> HIDE DEF h
<1>9. 0 \in K
  <2>1. {used[j] : j \in 1..0} = {}
    OBVIOUS
  <2>2. Extends(names, names)
    BY DEF Extends
  <2> QED
    BY <1>1, <1>7, <2>1, <2>2
<1>10. ASSUME NEW i \in 1..n, i - 1 \in K PROVE i \in K
  <2> HIDE DEF n
  <2>1. h[i - 1] \in UniqueNames /\ Extends(h[i - 1], names)
        /\ Names(h[i - 1]) = Names(names) \cup {used[j] : j \in 1..(i - 1)}
    BY <1>10
  <2>2. h[i] = Z!AddName(h[i - 1], used[i]) /\ used[i] \in Identifiers
    BY <1>1, <1>7
  <2>3. h[i] \in UniqueNames /\ Names(h[i]) = Names(h[i - 1]) \cup {used[i]}
        /\ Extends(h[i], h[i - 1])
    <3> DEFINE old == h[i - 1]
               name == used[i]
    <3> HIDE DEF old, name
    <3>1. old \in UniqueNames /\ name \in Identifiers
      BY <2>1, <2>2 DEF old, name
    <3>2. Z!AddName(old, name) \in UniqueNames
          /\ Names(Z!AddName(old, name)) = Names(old) \cup {name}
          /\ Extends(Z!AddName(old, name), old)
      BY <3>1, AddNameIs
    <3> QED
      BY <2>2, <3>2 DEF old, name
  <2>4. {used[j] : j \in 1..i} = {used[j] : j \in 1..(i - 1)} \cup {used[i]}
    <3>1. i \in Nat /\ i >= 1
      BY <1>1
    <3>2. \A j : j \in 1..i <=> j \in 1..(i - 1) \/ j = i
      BY <3>1
    <3> QED
      BY <3>2
  <2>5. Extends(h[i], names)
    BY <2>1, <2>3 DEF Extends
  <2>6. i \in 0..n
    BY <1>1
  <2> QED
    BY <2>1, <2>3, <2>4, <2>5, <2>6
<1>11. 0..n \subseteq K
  <2> HIDE DEF K, n
  <2> QED
    BY <1>1, <1>9, <1>10, InductionTo
<1>12. n \in K
  <2> HIDE DEF K, n
  <2> QED
    BY <1>1, <1>11
<1>13. {used[j] : j \in 1..n} = Names(used)
  BY DEF Names
<1> QED
  BY <1>8, <1>12, <1>13


\* Index() finds a name.
LEMMA IndexIs ==
  ASSUME NEW names \in UniqueNames, NEW name \in Names(names)
  PROVE  /\ Z!Index(names, name) \in DOMAIN names /\ names[Z!Index(names, name)] = name
         /\ Z!Index(names, name) \in Nat
<1>1. \E i \in DOMAIN names : names[i] = name
  BY DEF Names
<1>2. Z!Index(names, name) \in DOMAIN names /\ names[Z!Index(names, name)] = name
  BY <1>1 DEF Z!Index
<1>3. DOMAIN names \subseteq Nat
  <2>1. names \in Seq(Identifiers)
    BY DEF UniqueNames
  <2> QED
    BY <2>1
<1> QED
  BY <1>2, <1>3

\* Equations with names, and the names in the first n of a list.
Equations == [lhs : Identifiers, rhs : Seq(Identifiers \X Identifiers)]
ScalarNames(eqs, n) == {name \in Identifiers :
  \E k \in 1..n : \E j \in 1..Len(eqs[k].rhs) : name = eqs[k].rhs[j][1]}
PointNames(eqs, n) == {name \in Identifiers :
  \E k \in 1..n : name = eqs[k].lhs \/ \E j \in 1..Len(eqs[k].rhs) : name = eqs[k].rhs[j][2]}

\* An equation with indices instead of names.
IsCompiled(c, e, scalars, points) ==
  /\ c.lhs \in DOMAIN points /\ points[c.lhs] = e.lhs
  /\ Len(c.terms) = Len(e.rhs)
  /\ \A j \in 1..Len(e.rhs) :
       /\ c.terms[j][1] \in DOMAIN scalars /\ scalars[c.terms[j][1]] = e.rhs[j][1]
       /\ c.terms[j][2] \in DOMAIN points /\ points[c.terms[j][2]] = e.rhs[j][2]

\* What stands for the first n equations of a list.
Statements == [scalars : UniqueNames, points : UniqueNames,
               equations : Seq([lhs : Nat, terms : Seq(Nat \X Nat)])]

\* Names are those of the equations, and indices stand for them.
IsStatement(stmt, eqs, n) ==
  /\ stmt \in Statements
  /\ Names(stmt.scalars) = ScalarNames(eqs, n)
  /\ Names(stmt.points) = {"G"} \cup PointNames(eqs, n)
  /\ Len(stmt.equations) = n
  /\ \A k \in 1..n : IsCompiled(stmt.equations[k], eqs[k], stmt.scalars, stmt.points)

\* create() makes one of no equations.
LEMMA NoEquationsIs ==
  ASSUME NEW eqs \in Seq(Equations)
  PROVE  IsStatement(Z!NoEquations, eqs, 0)
<1> DEFINE none == <<>>
           G == <<"G">>
<1>1. none \in UniqueNames /\ Names(none) = {}
  BY DEF UniqueNames, Names
<1>2. G \in UniqueNames /\ Names(G) = {"G"}
  <2>1. G \in Seq(Identifiers) /\ DOMAIN G = {1} /\ G[1] = "G"
    <3>1. "G" \in Identifiers
      BY DEF Identifiers
    <3>2. G \in Seq(Identifiers)
      BY <3>1
    <3>3. DOMAIN G = {1} /\ G[1] = "G"
      OBVIOUS
    <3> QED
      BY <3>2, <3>3
  <2> HIDE DEF G
  <2> QED
    BY <2>1 DEF UniqueNames, Names
<1>3. ScalarNames(eqs, 0) = {} /\ PointNames(eqs, 0) = {}
  BY DEF ScalarNames, PointNames
<1>4. none \in Seq([lhs : Nat, terms : Seq(Nat \X Nat)]) /\ Len(none) = 0
  OBVIOUS
<1>5. Z!NoEquations = [scalars |-> none, points |-> G, equations |-> none]
  BY DEF Z!NoEquations
<1> HIDE DEF none, G
<1>6. Z!NoEquations \in Statements
  BY <1>1, <1>2, <1>4, <1>5 DEF Statements
<1>7. Z!NoEquations.scalars = none /\ Z!NoEquations.points = G /\ Z!NoEquations.equations = none
  BY <1>5
<1>8. \A k \in 1..0 : FALSE
  OBVIOUS
<1> QED
  BY <1>1, <1>2, <1>3, <1>4, <1>6, <1>7, <1>8 DEF IsStatement

\* An equation stays compiled when names are added.
LEMMA StaysCompiled ==
  ASSUME NEW c, NEW e, NEW scalars, NEW points, NEW moreScalars, NEW morePoints,
         IsCompiled(c, e, scalars, points),
         Extends(moreScalars, scalars), Extends(morePoints, points)
  PROVE  IsCompiled(c, e, moreScalars, morePoints)
  BY DEF IsCompiled, Extends

\* add() compiles one equation more.
LEMMA AddIs ==
  ASSUME NEW stmt \in Statements, NEW e \in Equations
  PROVE  LET all == Z!Add(stmt, e) IN
         /\ all \in Statements
         /\ Names(all.scalars) =
              Names(stmt.scalars) \cup {e.rhs[j][1] : j \in 1..Len(e.rhs)}
         /\ Names(all.points) =
              Names(stmt.points) \cup {e.lhs} \cup {e.rhs[j][2] : j \in 1..Len(e.rhs)}
         /\ Extends(all.scalars, stmt.scalars) /\ Extends(all.points, stmt.points)
         /\ Len(all.equations) = Len(stmt.equations) + 1
         /\ \A k \in 1..Len(stmt.equations) : all.equations[k] = stmt.equations[k]
         /\ IsCompiled(all.equations[Len(stmt.equations) + 1], e, all.scalars, all.points)
<1> DEFINE rhs == e.rhs
           n == Len(rhs)
           firsts == [j \in DOMAIN rhs |-> rhs[j][1]]
           seconds == [j \in DOMAIN rhs |-> rhs[j][2]]
           scalars == Z!AddNames(stmt.scalars, firsts)
           withLhs == Z!AddName(stmt.points, e.lhs)
           points == Z!AddNames(withLhs, seconds)
           terms == [j \in DOMAIN rhs |-> <<Z!Index(scalars, rhs[j][1]),
                                            Z!Index(points, rhs[j][2])>>]
           c == [lhs |-> Z!Index(points, e.lhs), terms |-> terms]
           equations == Append(stmt.equations, c)
<1>1. Z!Add(stmt, e) = [scalars |-> scalars, points |-> points, equations |-> equations]
  BY DEF Z!Add
<1>2. /\ rhs \in Seq(Identifiers \X Identifiers) /\ n \in Nat /\ DOMAIN rhs = 1..n /\ e.lhs \in Identifiers
      /\ \A j \in 1..n : rhs[j][1] \in Identifiers /\ rhs[j][2] \in Identifiers
  <2>1. rhs \in Seq(Identifiers \X Identifiers) /\ e.lhs \in Identifiers
    BY DEF Equations
  <2>2. n \in Nat /\ DOMAIN rhs = 1..n /\ \A j \in 1..n : rhs[j] \in Identifiers \X Identifiers
    <3> HIDE DEF rhs
    <3> QED
      BY <2>1, SeqIsFunction
  <2> QED
    BY <2>1, <2>2
<1>3. stmt.scalars \in UniqueNames /\ stmt.points \in UniqueNames
      /\ stmt.equations \in Seq([lhs : Nat, terms : Seq(Nat \X Nat)])
  BY DEF Statements
<1> HIDE DEF n
<1>4. firsts \in Seq(Identifiers) /\ DOMAIN firsts = 1..n /\ \A j \in 1..n : firsts[j] = rhs[j][1]
  <2> HIDE DEF rhs
  <2>1. firsts \in [1..n -> Identifiers] /\ \A j \in 1..n : firsts[j] = rhs[j][1]
    BY <1>2
  <2> HIDE DEF firsts
  <2> QED
    BY <1>2, <2>1, FunctionIsSequence
<1>5. seconds \in Seq(Identifiers) /\ DOMAIN seconds = 1..n /\ \A j \in 1..n : seconds[j] = rhs[j][2]
  <2> HIDE DEF rhs
  <2>1. seconds \in [1..n -> Identifiers] /\ \A j \in 1..n : seconds[j] = rhs[j][2]
    BY <1>2
  <2> HIDE DEF seconds
  <2> QED
    BY <1>2, <2>1, FunctionIsSequence
<1>6. /\ scalars \in UniqueNames /\ Extends(scalars, stmt.scalars)
      /\ Names(scalars) = Names(stmt.scalars) \cup {rhs[j][1] : j \in 1..n}
  <2>1. Names(firsts) = {rhs[j][1] : j \in 1..n}
    <3> HIDE DEF firsts, rhs
    <3> QED
      BY <1>4 DEF Names
  <2> HIDE DEF firsts, rhs
  <2> QED
    BY <1>3, <1>4, <2>1, AddNamesIs
<1>7. /\ withLhs \in UniqueNames /\ Extends(withLhs, stmt.points)
      /\ Names(withLhs) = Names(stmt.points) \cup {e.lhs}
  BY <1>2, <1>3, AddNameIs
<1>8. /\ points \in UniqueNames /\ Extends(points, withLhs)
      /\ Names(points) = Names(withLhs) \cup {rhs[j][2] : j \in 1..n}
  <2>1. Names(seconds) = {rhs[j][2] : j \in 1..n}
    <3> HIDE DEF seconds, rhs
    <3> QED
      BY <1>5 DEF Names
  <2> HIDE DEF seconds, rhs, withLhs
  <2> QED
    BY <1>5, <1>7, <2>1, AddNamesIs
<1>9. Extends(points, stmt.points)
  BY <1>7, <1>8 DEF Extends
<1> HIDE DEF scalars, points, withLhs, firsts, seconds, rhs
<1>10. Z!Index(points, e.lhs) \in DOMAIN points /\ points[Z!Index(points, e.lhs)] = e.lhs
       /\ Z!Index(points, e.lhs) \in Nat
  BY <1>7, <1>8, IndexIs
<1>11. ASSUME NEW j \in 1..n
       PROVE  /\ Z!Index(scalars, rhs[j][1]) \in DOMAIN scalars
              /\ scalars[Z!Index(scalars, rhs[j][1])] = rhs[j][1]
              /\ Z!Index(scalars, rhs[j][1]) \in Nat
              /\ Z!Index(points, rhs[j][2]) \in DOMAIN points
              /\ points[Z!Index(points, rhs[j][2])] = rhs[j][2]
              /\ Z!Index(points, rhs[j][2]) \in Nat
  <2>1. rhs[j][1] \in Names(scalars) /\ rhs[j][2] \in Names(points)
    BY <1>6, <1>8
  <2> QED
    BY <1>6, <1>8, <2>1, IndexIs
<1>12. terms \in [1..n -> Nat \X Nat] /\ Len(terms) = n
       /\ \A j \in 1..n : terms[j] = <<Z!Index(scalars, rhs[j][1]), Z!Index(points, rhs[j][2])>>
  <2>1. terms \in [1..n -> Nat \X Nat]
        /\ \A j \in 1..n : terms[j] = <<Z!Index(scalars, rhs[j][1]), Z!Index(points, rhs[j][2])>>
    BY <1>2, <1>11
  <2> HIDE DEF terms
  <2> QED
    BY <1>2, <2>1, FunctionIsSequence
<1>13. terms \in Seq(Nat \X Nat)
  <2> HIDE DEF terms
  <2> QED
    BY <1>2, <1>12, FunctionIsSequence
<1>14. c.terms = terms /\ c.lhs = Z!Index(points, e.lhs)
       /\ c \in [lhs : Nat, terms : Seq(Nat \X Nat)]
  <2> HIDE DEF terms
  <2> QED
    BY <1>10, <1>13
<1>15. IsCompiled(c, e, scalars, points)
  <2>1. \A j \in 1..n :
          /\ terms[j][1] \in DOMAIN scalars /\ scalars[terms[j][1]] = rhs[j][1]
          /\ terms[j][2] \in DOMAIN points /\ points[terms[j][2]] = rhs[j][2]
    <3> SUFFICES ASSUME NEW j \in 1..n
                 PROVE  /\ terms[j][1] \in DOMAIN scalars /\ scalars[terms[j][1]] = rhs[j][1]
                        /\ terms[j][2] \in DOMAIN points /\ points[terms[j][2]] = rhs[j][2]
      OBVIOUS
    <3>1. terms[j][1] = Z!Index(scalars, rhs[j][1]) /\ terms[j][2] = Z!Index(points, rhs[j][2])
      <4> HIDE DEF terms
      <4> QED
        BY <1>12
    <3> HIDE DEF terms
    <3> QED
      BY <1>11, <3>1
  <2> HIDE DEF terms, c
  <2> QED
    BY <1>10, <1>12, <1>14, <2>1 DEF IsCompiled, rhs, n
<1> HIDE DEF c, terms
<1>16. /\ equations \in Seq([lhs : Nat, terms : Seq(Nat \X Nat)])
       /\ Len(equations) = Len(stmt.equations) + 1
       /\ equations[Len(stmt.equations) + 1] = c
       /\ \A k \in 1..Len(stmt.equations) : equations[k] = stmt.equations[k]
  BY <1>3, <1>14, AppendProperties
<1> HIDE DEF equations
<1>17. [scalars |-> scalars, points |-> points, equations |-> equations] \in Statements
  BY <1>6, <1>8, <1>16 DEF Statements
<1> QED
  BY <1>1, <1>6, <1>7, <1>8, <1>9, <1>15, <1>16, <1>17 DEF rhs, n


\* add() makes what stands for the first n - 1 equations stand for the first n.
LEMMA AddNext ==
  ASSUME NEW eqs \in Seq(Equations), NEW n \in 1..Len(eqs), NEW stmt, IsStatement(stmt, eqs, n - 1)
  PROVE  IsStatement(Z!Add(stmt, eqs[n]), eqs, n)
<1> DEFINE e == eqs[n]
           all == Z!Add(stmt, e)
<1>1. e \in Equations /\ stmt \in Statements /\ n \in Nat /\ n >= 1
  BY DEF IsStatement
<1>2. /\ all \in Statements
      /\ Names(all.scalars) =
           Names(stmt.scalars) \cup {e.rhs[j][1] : j \in 1..Len(e.rhs)}
      /\ Names(all.points) =
           Names(stmt.points) \cup {e.lhs} \cup {e.rhs[j][2] : j \in 1..Len(e.rhs)}
      /\ Extends(all.scalars, stmt.scalars) /\ Extends(all.points, stmt.points)
      /\ Len(all.equations) = Len(stmt.equations) + 1
      /\ \A k \in 1..Len(stmt.equations) : all.equations[k] = stmt.equations[k]
      /\ IsCompiled(all.equations[Len(stmt.equations) + 1], e, all.scalars, all.points)
  <2> HIDE DEF e
  <2> QED
    BY <1>1, AddIs
<1>3. /\ Names(stmt.scalars) = ScalarNames(eqs, n - 1)
      /\ Names(stmt.points) = {"G"} \cup PointNames(eqs, n - 1)
      /\ Len(stmt.equations) = n - 1
      /\ \A k \in 1..(n - 1) : IsCompiled(stmt.equations[k], eqs[k], stmt.scalars, stmt.points)
  BY DEF IsStatement
<1>4. e.lhs \in Identifiers
      /\ \A j \in 1..Len(e.rhs) : e.rhs[j][1] \in Identifiers /\ e.rhs[j][2] \in Identifiers
  <2>1. e.lhs \in Identifiers /\ e.rhs \in Seq(Identifiers \X Identifiers)
    BY <1>1 DEF Equations
  <2> HIDE DEF e
  <2>2. \A j \in 1..Len(e.rhs) : e.rhs[j] \in Identifiers \X Identifiers
    BY <2>1, SeqIsFunction
  <2> QED
    BY <2>1, <2>2
<1>5. \A k : k \in 1..n <=> k \in 1..(n - 1) \/ k = n
  BY <1>1
<1>6. ScalarNames(eqs, n) = ScalarNames(eqs, n - 1) \cup {e.rhs[j][1] : j \in 1..Len(e.rhs)}
  <2>1. ASSUME NEW x \in ScalarNames(eqs, n)
        PROVE  x \in ScalarNames(eqs, n - 1) \cup {e.rhs[j][1] : j \in 1..Len(e.rhs)}
    BY <1>5 DEF ScalarNames
  <2>2. ASSUME NEW x \in ScalarNames(eqs, n - 1) PROVE x \in ScalarNames(eqs, n)
    BY <1>5 DEF ScalarNames
  <2>3. ASSUME NEW j \in 1..Len(e.rhs) PROVE e.rhs[j][1] \in ScalarNames(eqs, n)
    <3>1. n \in 1..n /\ e.rhs[j][1] \in Identifiers
      BY <1>4, <1>5
    <3> QED
      BY <3>1 DEF ScalarNames
  <2> HIDE DEF e
  <2> QED
    BY <2>1, <2>2, <2>3
<1>7. PointNames(eqs, n) =
        PointNames(eqs, n - 1) \cup {e.lhs} \cup {e.rhs[j][2] : j \in 1..Len(e.rhs)}
  <2>1. ASSUME NEW x \in PointNames(eqs, n)
        PROVE  x \in PointNames(eqs, n - 1) \cup {e.lhs} \cup {e.rhs[j][2] : j \in 1..Len(e.rhs)}
    BY <1>5 DEF PointNames
  <2>2. ASSUME NEW x \in PointNames(eqs, n - 1) PROVE x \in PointNames(eqs, n)
    BY <1>5 DEF PointNames
  <2>3. ASSUME NEW j \in 1..Len(e.rhs) PROVE e.rhs[j][2] \in PointNames(eqs, n)
    <3>1. n \in 1..n /\ e.rhs[j][2] \in Identifiers
      BY <1>4, <1>5
    <3> QED
      BY <3>1 DEF PointNames
  <2>4. e.lhs \in PointNames(eqs, n)
    <3>1. n \in 1..n /\ e.lhs \in Identifiers
      BY <1>4, <1>5
    <3> QED
      BY <3>1 DEF PointNames
  <2> HIDE DEF e
  <2> QED
    BY <2>1, <2>2, <2>3, <2>4
<1> HIDE DEF all
<1>8. Len(all.equations) = n
  BY <1>1, <1>2, <1>3
<1>9. ASSUME NEW k \in 1..n
      PROVE  IsCompiled(all.equations[k], eqs[k], all.scalars, all.points)
  <2>1. CASE k = n
    <3>1. Len(stmt.equations) + 1 = n
      BY <1>1, <1>3
    <3> QED
      BY <1>2, <2>1, <3>1
  <2>2. CASE k # n
    <3>1. k \in 1..(n - 1)
      BY <1>5, <2>2
    <3>2. all.equations[k] = stmt.equations[k]
      BY <1>2, <1>3, <3>1
    <3> QED
      BY <1>2, <1>3, <3>1, <3>2, StaysCompiled
  <2> QED
    BY <2>1, <2>2
<1>10. IsStatement(all, eqs, n)
  <2> HIDE DEF e
  <2> QED
    BY <1>2, <1>3, <1>6, <1>7, <1>8, <1>9 DEF IsStatement
<1> QED
  BY <1>10 DEF all

\* Statement() stands for all equations of a list.
LEMMA StatementIs ==
  ASSUME NEW eqs \in Seq(Equations)
  PROVE  IsStatement(Z!Statement(eqs), eqs, Len(eqs))
<1> DEFINE n == Len(eqs)
           step == [x \in Statements \X Nat |->
                      IF x[2] \in 1..n THEN Z!Add(x[1], eqs[x[2]]) ELSE x[1]]
           G(s) == [i \in 0..n |-> IF i = 0 THEN Z!NoEquations ELSE Z!Add(s[i - 1], eqs[i])]
           h == CHOOSE s : s = G(s)
<1>1. n \in Nat /\ \A i \in 1..n : eqs[i] \in Equations
  BY SeqIsFunction
<1>2. \A s \in Statements, i \in 1..n : Z!Add(s, eqs[i]) \in Statements
  <2> HIDE DEF n
  <2> QED
    BY <1>1, AddIs
<1>3. step \in [Statements \X Nat -> Statements]
      /\ \A s \in Statements, i \in 1..n : step[<<s, i>>] = Z!Add(s, eqs[i])
  <2> HIDE DEF n
  <2> QED
    BY <1>1, <1>2
<1>4. IsStatement(Z!NoEquations, eqs, 0)
  BY NoEquationsIs
<1>5. PICK s \in [0..n -> Statements] : GoesOn(s, Z!NoEquations, step, n)
  <2>1. Z!NoEquations \in Statements
    BY <1>4 DEF IsStatement
  <2> HIDE DEF n, step
  <2> QED
    BY <1>1, <1>3, <2>1, RecursiveFunction
<1>6. s = G(s)
  <2>1. ASSUME NEW i \in 1..n PROVE s[i] = Z!Add(s[i - 1], eqs[i])
    <3>1. s[i - 1] \in Statements
      BY <1>1
    <3>2. s[i] = step[<<s[i - 1], i>>]
      BY <1>5 DEF GoesOn
    <3> HIDE DEF n, step
    <3> QED
      BY <1>3, <3>1, <3>2
  <2> HIDE DEF n, step
  <2>2. \A i \in 0..n : s[i] = IF i = 0 THEN Z!NoEquations ELSE Z!Add(s[i - 1], eqs[i])
    BY <1>1, <1>5, <2>1 DEF GoesOn
  <2> QED
    BY <1>5, <2>2
<1> HIDE DEF step
<1>7. h = G(h)
  <2> HIDE DEF G
  <2> QED
    BY <1>6
<1>8. h[0] = Z!NoEquations /\ \A i \in 1..n : h[i] = Z!Add(h[i - 1], eqs[i])
  <2>1. G(h)[0] = Z!NoEquations /\ \A i \in 1..n : G(h)[i] = Z!Add(h[i - 1], eqs[i])
    <3> HIDE DEF h, n
    <3> QED
      BY <1>1
  <2> HIDE DEF h, G, n
  <2> QED
    BY <1>7, <2>1
<1>9. Z!Statement(eqs) = h[n]
  BY DEF Z!Statement
<1> HIDE DEF h
<1> DEFINE K == {i \in 0..n : IsStatement(h[i], eqs, i)}
<1>10. 0 \in K
  BY <1>1, <1>4, <1>8
<1>11. ASSUME NEW i \in 1..n, i - 1 \in K PROVE i \in K
  <2>1. IsStatement(h[i - 1], eqs, i - 1)
    BY <1>11
  <2>2. IsStatement(Z!Add(h[i - 1], eqs[i]), eqs, i)
    BY <2>1, AddNext
  <2>3. i \in 0..n
    BY <1>1
  <2> HIDE DEF n
  <2> QED
    BY <1>8, <2>2, <2>3
<1>12. 0..n \subseteq K
  <2> HIDE DEF K, n
  <2> QED
    BY <1>1, <1>10, <1>11, InductionTo
<1>13. n \in K
  <2> HIDE DEF K, n
  <2> QED
    BY <1>1, <1>12
<1> QED
  BY <1>9, <1>13


(***************************************************************************)
(* prove() and verify(), for one equation                                  *)
(***************************************************************************)

\* Terms whose scalars are in D and whose points are in E.
AreTerms(terms, D, E) ==
  /\ Len(terms) \in Nat
  /\ \A j \in 1..Len(terms) : terms[j][1] \in D /\ terms[j][2] \in E

\* A function that has numbers at D.
Numbers(g, D) == \A i \in D : g[i] \in Int

\* Numbers that are the products of terms.
AreProducts(v, terms, g, P) ==
  /\ v \in Seq(Int) /\ Len(v) = Len(terms)
  /\ \A j \in 1..Len(terms) :
       /\ v[j] = P[terms[j][2]] * g[terms[j][1]]
       /\ P[terms[j][2]] \in Int /\ g[terms[j][1]] \in Int

\* Responses that fit scalars, nonces and a challenge.
Responds(r, g, m, c, D) == \A i \in D : Cong(r[i], g[i] * c + m[i])

\* The products of terms are numbers.
LEMMA ProductsType ==
  ASSUME NEW D, NEW E, NEW terms, AreTerms(terms, D, E), NEW g, Numbers(g, D), NEW P, Numbers(P, E)
  PROVE  AreProducts(Products(terms, g, P), terms, g, P)
<1> DEFINE v == Products(terms, g, P)
           n == Len(terms)
<1>1. n \in Nat /\ \A j \in 1..n : P[terms[j][2]] \in Int /\ g[terms[j][1]] \in Int
  BY DEF AreTerms, Numbers
<1>2. v = [j \in 1..n |-> P[terms[j][2]] * g[terms[j][1]]]
  BY DEF Products
<1> HIDE DEF v, n
<1>3. v \in [1..n -> Int] /\ \A j \in 1..n : v[j] = P[terms[j][2]] * g[terms[j][1]]
  <2>1. ASSUME NEW j \in 1..n PROVE P[terms[j][2]] * g[terms[j][1]] \in Int
    <3> DEFINE x == P[terms[j][2]]
               y == g[terms[j][1]]
    <3>1. x \in Int /\ y \in Int
      BY <1>1
    <3> HIDE DEF x, y
    <3>2. x * y \in Int
      BY <3>1
    <3> QED
      BY <3>2 DEF x, y
  <2> QED
    BY <1>2, <2>1
<1>4. v \in Seq(Int) /\ Len(v) = n
  BY <1>1, <1>3, FunctionIsSequence
<1> QED
  BY <1>1, <1>3, <1>4 DEF v, n, AreProducts

\* Sums of congruent elements are congruent.
LEMMA SumCong ==
  ASSUME NEW n \in Nat, NEW f \in Seq(Int), NEW g \in Seq(Int), Len(f) = n, Len(g) = n,
         \A i \in 1..n : Cong(f[i], g[i])
  PROVE  Cong(Z!Sum(f), Z!Sum(g))
<1>1. \A i \in 1..n : g[i] \in Int
  BY ElementType
<1>2. \A i \in 1..n : Cong(f[i], g[i] * 0 + g[i])
  <2> SUFFICES ASSUME NEW i \in 1..n PROVE Cong(f[i], g[i] * 0 + g[i])
    OBVIOUS
  <2>1. g[i] * 0 + g[i] = g[i]
    BY <1>1
  <2> QED
    BY <2>1
<1>3. 0 \in Int
  OBVIOUS
<1>4. Cong(Z!Sum(f), Z!Sum(g) * 0 + Z!Sum(g))
  BY <1>2, <1>3, SumLinear
<1>5. Z!Sum(g) \in Int
  BY SumType
<1>6. Z!Sum(g) * 0 + Z!Sum(g) = Z!Sum(g)
  BY <1>5
<1> QED
  BY <1>4, <1>6

\* The right hand side of responses is that of the scalars times the challenge
\* plus that of the nonces.
LEMMA ResponsesSum ==
  ASSUME NEW D, NEW E, NEW terms, AreTerms(terms, D, E),
         NEW g, Numbers(g, D), NEW m, Numbers(m, D), NEW r, Numbers(r, D), NEW P, Numbers(P, E),
         NEW c \in Int, Responds(r, g, m, c, D)
  PROVE  Cong(Z!Sum(Products(terms, r, P)),
              Z!Sum(Products(terms, g, P)) * c + Z!Sum(Products(terms, m, P)))
<1> DEFINE n == Len(terms)
           f == Products(terms, g, P)
           h == Products(terms, m, P)
           v == Products(terms, r, P)
<1>1. n \in Nat
  BY DEF AreTerms
<1>2. f \in Seq(Int) /\ h \in Seq(Int) /\ v \in Seq(Int) /\ Len(f) = n /\ Len(h) = n /\ Len(v) = n
  <2>1. AreProducts(f, terms, g, P) /\ AreProducts(h, terms, m, P) /\ AreProducts(v, terms, r, P)
    BY ProductsType
  <2> HIDE DEF f, h, v
  <2> QED
    BY <2>1 DEF AreProducts
<1>3. ASSUME NEW j \in 1..n PROVE Cong(v[j], f[j] * c + h[j])
  <2> DEFINE i == terms[j][1]
             x == P[terms[j][2]]
             a == g[i]
             b == m[i]
             d == r[i]
  <2>1. x \in Int /\ a \in Int /\ b \in Int /\ d \in Int
        /\ f[j] = x * a /\ h[j] = x * b /\ v[j] = x * d
    <3>1. AreProducts(f, terms, g, P) /\ AreProducts(h, terms, m, P) /\ AreProducts(v, terms, r, P)
      BY ProductsType
    <3> HIDE DEF f, h, v
    <3> QED
      BY <3>1 DEF AreProducts
  <2>2. Cong(d, a * c + b)
    <3>1. i \in D
      BY DEF AreTerms
    <3> QED
      BY <3>1 DEF Responds
  <2> HIDE DEF x, a, b, d, i, f, h, v
  <2>3. Cong(x, x) /\ a * c + b \in Int
    BY <2>1, CongRefl
  <2>4. Cong(x * d, x * (a * c + b))
    BY <2>1, <2>2, <2>3, CongMul
  <2>5. x * (a * c + b) = (x * a) * c + x * b
    BY <2>1
  <2> QED
    BY <2>1, <2>4, <2>5
<1> HIDE DEF n, f, h, v
<1>4. Cong(Z!Sum(v), Z!Sum(f) * c + Z!Sum(h))
  BY <1>1, <1>2, <1>3, SumLinear
<1> QED
  BY <1>4 DEF f, h, v

\* An equation that holds is verified: what is left of the right hand side of the
\* responses is the commitment.
LEMMA EquationVerifies ==
  ASSUME NEW D, NEW E, NEW terms, AreTerms(terms, D, E), NEW lhs \in E,
         NEW g, Numbers(g, D), NEW m, Numbers(m, D), NEW r, Numbers(r, D), NEW P, Numbers(P, E),
         NEW c \in Int, Responds(r, g, m, c, D),
         Cong(P[lhs], Z!Sum(Products(terms, g, P)))
  PROVE  (Z!RightHandSide(terms, r, P) - P[lhs] * c) % Q = Z!RightHandSide(terms, m, P)
<1> DEFINE R == Z!RightHandSide(terms, r, P)
           M == Z!RightHandSide(terms, m, P)
           sr == Z!Sum(Products(terms, r, P))
           sg == Z!Sum(Products(terms, g, P))
           sm == Z!Sum(Products(terms, m, P))
           l == P[lhs]
<1>1. Len(terms) \in Nat
  BY DEF AreTerms
<1>2. sr \in Int /\ sg \in Int /\ sm \in Int /\ l \in Int
  <2>1. Products(terms, r, P) \in Seq(Int) /\ Products(terms, g, P) \in Seq(Int)
        /\ Products(terms, m, P) \in Seq(Int)
    BY ProductsType DEF AreProducts
  <2> QED
    BY <2>1, SumType DEF Numbers
<1>3. R \in 0..(Q - 1) /\ Cong(R, sr)
  <2>1. Products(terms, r, P) \in Seq(Int)
    BY ProductsType DEF AreProducts
  <2> QED
    BY <1>1, <2>1, RightHandSideIs
<1>4. M \in 0..(Q - 1) /\ Cong(M, sm)
  <2>1. Products(terms, m, P) \in Seq(Int)
    BY ProductsType DEF AreProducts
  <2> QED
    BY <1>1, <2>1, RightHandSideIs
<1>5. Cong(sr, sg * c + sm)
  BY ResponsesSum
<1>6. R \in Int /\ M \in Int
  BY <1>3, <1>4, QAssumption
<1>7. Cong(l, sg)
  OBVIOUS
<1> HIDE DEF R, M, sr, sg, sm, l
<1>8. sg * c + sm \in Int /\ l * c \in Int /\ sg * c \in Int /\ R - l * c \in Int
  BY <1>2, <1>6
<1>9. Cong(R, sg * c + sm)
  BY <1>2, <1>3, <1>5, <1>6, <1>8, CongTrans
<1>10. Cong(l * c, sg * c)
  BY <1>2, <1>7, CongRefl, CongMul
<1>11. Cong(R - l * c, (sg * c + sm) - sg * c)
  BY <1>6, <1>8, <1>9, <1>10, CongSub
<1>12. (sg * c + sm) - sg * c = sm
  BY <1>2, <1>8
<1>13. Cong(sm, M)
  BY <1>2, <1>4, <1>6, CongSym
<1>14. Cong(R - l * c, M)
  BY <1>2, <1>6, <1>8, <1>11, <1>12, <1>13, CongTrans
<1>15. (R - l * c) % Q = M % Q
  BY <1>6, <1>8, <1>14, CongSame
<1>16. M % Q = M
  BY <1>4, QAssumption
<1> QED
  BY <1>15, <1>16 DEF R, M, l

\* A scalar is in one of the terms only, and its point there is not zero.
OccursOnce(d, terms, j, P) ==
  /\ j \in 1..Len(terms) /\ terms[j][1] = d /\ P[terms[j][2]] % Q # 0
  /\ \A k \in (1..Len(terms)) \ {j} : terms[k][1] # d

\* Responses of which one was changed.
IsAltered(q, r, d, D) == q[d] = (r[d] + 1) % Q /\ \A i \in D \ {d} : q[i] = r[i]

\* It is not verified any more when a response that is in one of its terms only, with a
\* point that is not zero, is changed.
LEMMA EquationRefuses ==
  ASSUME NEW D, NEW E, NEW terms, AreTerms(terms, D, E), NEW lhs \in E,
         NEW g, Numbers(g, D), NEW m, Numbers(m, D), NEW r, Numbers(r, D), NEW P, Numbers(P, E),
         NEW c \in Int, Responds(r, g, m, c, D),
         Cong(P[lhs], Z!Sum(Products(terms, g, P))),
         NEW d \in D, NEW j, OccursOnce(d, terms, j, P),
         NEW q, Numbers(q, D), IsAltered(q, r, d, D)
  PROVE  (Z!RightHandSide(terms, q, P) - P[lhs] * c) % Q # Z!RightHandSide(terms, m, P)
<1> DEFINE n == Len(terms)
           f == Products(terms, r, P)
           h == Products(terms, q, P)
<1>1. n \in Nat
  BY DEF AreTerms
<1>2. AreProducts(f, terms, r, P)
  BY ProductsType
<1>3. AreProducts(h, terms, q, P)
  BY ProductsType
<1> HIDE DEF f, h
<1>17. /\ f \in Seq(Int) /\ Len(f) = n
       /\ \A k \in 1..n : f[k] = P[terms[k][2]] * r[terms[k][1]] /\ P[terms[k][2]] \in Int
  BY <1>2 DEF AreProducts
<1>18. /\ h \in Seq(Int) /\ Len(h) = n
       /\ \A k \in 1..n : h[k] = P[terms[k][2]] * q[terms[k][1]]
  BY <1>3 DEF AreProducts
<1> DEFINE x == P[terms[j][2]]
           R == Z!RightHandSide(terms, r, P)
           S == Z!RightHandSide(terms, q, P)
           l == P[lhs]
<1>4. /\ j \in 1..n /\ terms[j][1] = d /\ x % Q # 0
      /\ \A k \in (1..n) \ {j} : terms[k][1] # d
  BY DEF OccursOnce
<1> HIDE DEF n
<1>5. x \in Int /\ l \in Int
  BY <1>17, <1>4 DEF Numbers
<1>6. R \in 0..(Q - 1) /\ Cong(R, Z!Sum(f))
  BY <1>1, <1>17, <1>18, <1>5, RightHandSideIs DEF f, h, n
<1>7. S \in 0..(Q - 1) /\ Cong(S, Z!Sum(h))
  BY <1>1, <1>17, <1>18, <1>5, RightHandSideIs DEF f, h, n
<1>8. (R - l * c) % Q = Z!RightHandSide(terms, m, P)
  BY EquationVerifies
<1>9. f[j] = x * r[d] /\ h[j] = x * q[d] /\ r[d] \in Int /\ q[d] \in Int
  BY <1>4, <1>17, <1>18 DEF Numbers
<1>10. \A k \in (1..n) \ {j} : h[k] = f[k]
  <2> SUFFICES ASSUME NEW k \in (1..n) \ {j} PROVE h[k] = f[k]
    OBVIOUS
  <2>1. terms[k][1] \in D \ {d}
    BY <1>4 DEF AreTerms, n
  <2>2. q[terms[k][1]] = r[terms[k][1]]
    BY <2>1 DEF IsAltered
  <2> QED
    BY <1>17, <1>18, <2>2
<1> HIDE DEF x, R, S, l
<1> DEFINE fx == [f EXCEPT ![j] = @ + x]
<1>11. fx \in Seq(Int) /\ Len(fx) = n /\ fx[j] = f[j] + x /\ \A k \in (1..n) \ {j} : fx[k] = f[k]
  <2>1. DOMAIN f = 1..n /\ j \in 1..n /\ \A k \in 1..n : f[k] \in Int
    BY <1>4, <1>17, <1>18, <1>5, SeqIsFunction
  <2>2. f[j] + x \in Int
    BY <1>17, <1>18, <1>5, <2>1
  <2>3. fx = [k \in 1..n |-> IF k = j THEN f[j] + x ELSE f[k]]
    BY <2>1
  <2> HIDE DEF fx
  <2>4. fx \in [1..n -> Int]
    BY <2>1, <2>2, <2>3
  <2>5. fx \in Seq(Int) /\ Len(fx) = n
    BY <1>1, <2>4, FunctionIsSequence
  <2> QED
    BY <2>1, <2>3, <2>5
<1> HIDE DEF fx
<1>12. Z!Sum(fx) = Z!Sum(f) + x
  <2>1. DiffersIn(fx, f, j, x)
    BY <1>4, <1>11, <1>17 DEF DiffersIn
  <2> QED
    BY <1>5, <1>11, <1>17, <2>1, SumOne
<1>13. Cong(Z!Sum(h), Z!Sum(fx))
  <2>1. Cong(h[j], fx[j])
    <3> DEFINE a == r[d]
               b == q[d]
    <3>1. a \in Int /\ b = (a + 1) % Q
      BY <1>9 DEF IsAltered
    <3>2. f[j] = x * a /\ h[j] = x * b
      BY <1>9
    <3> HIDE DEF a, b
    <3>3. a + 1 \in Int
      BY <3>1
    <3>4. b \in Int /\ Cong(b, a + 1)
      BY <3>1, <3>3, CongMod, QAssumption
    <3>5. Cong(x * b, x * (a + 1))
      BY <1>17, <1>18, <1>5, <3>3, <3>4, CongRefl, CongMul
    <3>6. x * (a + 1) = x * a + x
      BY <1>17, <1>18, <1>5, <3>1
    <3> QED
      BY <1>11, <3>2, <3>5, <3>6
  <2>2. ASSUME NEW k \in 1..n PROVE Cong(h[k], fx[k])
    <3>1. CASE k = j
      BY <2>1, <3>1
    <3>2. CASE k # j
      <4>1. h[k] = fx[k] /\ fx[k] \in Int
        BY <1>10, <1>11, <3>2, ElementType
      <4> QED
        BY <4>1, CongRefl
    <3> QED
      BY <3>1, <3>2
  <2> QED
    BY <1>1, <1>17, <1>18, <1>5, <1>11, <2>2, SumCong
<1> DEFINE s == Z!Sum(f)
           t == Z!Sum(h)
<1>14. s \in Int /\ t \in Int
  BY <1>17, <1>18, <1>5, SumType
<1>15. Cong(R, s) /\ Cong(S, t) /\ Cong(t, s + x) /\ R \in Int /\ S \in Int
  BY <1>6, <1>7, <1>12, <1>13, QAssumption
<1> HIDE DEF s, t
<1>16. ASSUME (S - l * c) % Q = (R - l * c) % Q PROVE FALSE
  <2>1. l * c \in Int /\ S - l * c \in Int /\ R - l * c \in Int
    BY <1>17, <1>18, <1>5, <1>15
  <2>2. Cong(S - l * c, R - l * c)
    BY <1>16, <2>1, SameCong
  <2>3. Cong((S - l * c) + l * c, (R - l * c) + l * c)
    BY <2>1, <2>2, CongRefl, CongAdd
  <2>4. (S - l * c) + l * c = S /\ (R - l * c) + l * c = R
    BY <1>15, <2>1
  <2>5. Cong(S, R)
    BY <2>3, <2>4
  <2>6. Cong(S, s)
    BY <1>14, <1>15, <2>5, CongTrans
  <2>7. Cong(t, S)
    BY <1>14, <1>15, CongSym
  <2>8. Cong(t, s)
    BY <1>14, <1>15, <2>6, <2>7, CongTrans
  <2>9. s + x \in Int
    BY <1>17, <1>18, <1>5, <1>14
  <2>10. Cong(s + x, t)
    BY <1>14, <1>15, <2>9, CongSym
  <2>11. Cong(s + x, s)
    BY <1>14, <2>8, <2>9, <2>10, CongTrans
  <2>12. Cong((s + x) - s, s - s)
    BY <1>14, <2>9, <2>11, CongRefl, CongSub
  <2>13. (s + x) - s = x /\ s - s = 0
    BY <1>17, <1>18, <1>5, <1>14
  <2>14. x % Q = 0 % Q
    BY <1>17, <1>18, <1>5, <2>12, <2>13, CongSame
  <2>15. 0 % Q = 0
    BY QAssumption
  <2> QED
    BY <1>4, <2>14, <2>15
<1> QED
  BY <1>8, <1>16 DEF S, R, l


(***************************************************************************)
(* prove() and verify(), for a statement                                   *)
(***************************************************************************)

\* All names in a list of equations; G is always there.
AllScalars(eqs) == ScalarNames(eqs, Len(eqs))
AllPoints(eqs) == {"G"} \cup PointNames(eqs, Len(eqs))
WithG(p) == Z!Join(p, [G |-> 1])

\* Arguments of prove() that have all names and no other.
Fits(eqs, a, p) ==
  /\ DOMAIN a = AllScalars(eqs) /\ Numbers(a, AllScalars(eqs))
  /\ DOMAIN WithG(p) = AllPoints(eqs) /\ Numbers(WithG(p), AllPoints(eqs))

\* An equation holds for values of the names.
Holds(e, a, P) == Cong(P[e.lhs], Z!Sum(Products(e.rhs, a, P)))

\* getScalars() and getPoints() put values in the order of the names.
LEMMA ValuesAre ==
  ASSUME NEW names \in UniqueNames, NEW args, DOMAIN args = Names(names)
  PROVE  /\ DOMAIN Z!Values(names, args) = DOMAIN names
         /\ \A i \in DOMAIN names : Z!Values(names, args)[i] = args[names[i]]
<1>1. DOMAIN args = {names[i] : i \in DOMAIN names}
  BY DEF Names
<1>2. Z!Values(names, args) = [i \in DOMAIN names |-> args[names[i]]]
  BY <1>1 DEF Z!Values
<1> QED
  BY <1>2

\* What the equations of a statement refer to.
LEMMA EquationIs ==
  ASSUME NEW eqs \in Seq(Equations), NEW k \in 1..Len(eqs)
  PROVE  LET stmt == Z!Statement(eqs)
             c    == stmt.equations[k]
         IN /\ DOMAIN stmt.equations = 1..Len(eqs)
            /\ IsCompiled(c, eqs[k], stmt.scalars, stmt.points)
            /\ c.lhs \in DOMAIN stmt.points
            /\ AreTerms(c.terms, DOMAIN stmt.scalars, DOMAIN stmt.points)
<1> DEFINE stmt == Z!Statement(eqs)
           c == stmt.equations[k]
<1>1. IsStatement(stmt, eqs, Len(eqs))
  BY StatementIs
<1> HIDE DEF stmt
<1>2. /\ stmt.equations \in Seq([lhs : Nat, terms : Seq(Nat \X Nat)])
      /\ Len(stmt.equations) = Len(eqs)
      /\ IsCompiled(c, eqs[k], stmt.scalars, stmt.points)
  BY <1>1 DEF IsStatement, Statements
<1>3. DOMAIN stmt.equations = 1..Len(eqs)
  BY <1>2, SeqIsFunction
<1>4. c \in [lhs : Nat, terms : Seq(Nat \X Nat)]
  BY <1>2, SeqIsFunction
<1>5. Len(c.terms) \in Nat
  <2>1. c.terms \in Seq(Nat \X Nat)
    BY <1>4
  <2> HIDE DEF c
  <2> QED
    BY <2>1
<1> HIDE DEF c
<1>6. c.lhs \in DOMAIN stmt.points /\ AreTerms(c.terms, DOMAIN stmt.scalars, DOMAIN stmt.points)
  BY <1>2, <1>5 DEF IsCompiled, AreTerms
<1> QED
  BY <1>2, <1>3, <1>6 DEF stmt, c

\* Values for the names and values for the indices.
IsIndexed(g, names, a) == \A i \in DOMAIN names : g[i] = a[names[i]]

\* They have the same products.
LEMMA ProductsByName ==
  ASSUME NEW c, NEW e, NEW scalars, NEW points, IsCompiled(c, e, scalars, points),
         NEW g, NEW a, NEW P, NEW p, IsIndexed(g, scalars, a), IsIndexed(P, points, p)
  PROVE  Products(c.terms, g, P) = Products(e.rhs, a, p) /\ P[c.lhs] = p[e.lhs]
<1>1. Len(c.terms) = Len(e.rhs) /\ P[c.lhs] = p[e.lhs]
  BY DEF IsCompiled, IsIndexed
<1>2. ASSUME NEW j \in 1..Len(e.rhs)
      PROVE  P[c.terms[j][2]] * g[c.terms[j][1]] = p[e.rhs[j][2]] * a[e.rhs[j][1]]
  <2>1. P[c.terms[j][2]] = p[e.rhs[j][2]] /\ g[c.terms[j][1]] = a[e.rhs[j][1]]
    BY DEF IsCompiled, IsIndexed
  <2> QED
    BY <2>1
<1> QED
  BY <1>1, <1>2 DEF Products

\* What prove() works with.
LEMMA ArgumentsIndexed ==
  ASSUME NEW eqs \in Seq(Equations), NEW a, NEW p, Fits(eqs, a, p)
  PROVE  LET stmt == Z!Statement(eqs)
             g    == Z!GetScalars(stmt, a)
             P    == Z!GetPoints(stmt, p)
         IN /\ DOMAIN g = DOMAIN stmt.scalars /\ Numbers(g, DOMAIN stmt.scalars)
            /\ IsIndexed(g, stmt.scalars, a)
            /\ Numbers(P, DOMAIN stmt.points) /\ IsIndexed(P, stmt.points, WithG(p))
            /\ DOMAIN stmt.scalars = 1..Len(stmt.scalars) /\ Len(stmt.scalars) \in Nat
<1> DEFINE stmt == Z!Statement(eqs)
           g == Z!GetScalars(stmt, a)
           P == Z!GetPoints(stmt, p)
<1>1. IsStatement(stmt, eqs, Len(eqs))
  BY StatementIs
<1>2. g = Z!Values(stmt.scalars, a) /\ P = Z!Values(stmt.points, WithG(p))
  BY DEF Z!GetScalars, Z!GetPoints, WithG
<1> HIDE DEF stmt, g, P
<1>3. /\ stmt.scalars \in UniqueNames /\ stmt.points \in UniqueNames
      /\ Names(stmt.scalars) = AllScalars(eqs) /\ Names(stmt.points) = AllPoints(eqs)
  BY <1>1 DEF IsStatement, Statements, AllScalars, AllPoints
<1>4. /\ DOMAIN a = AllScalars(eqs) /\ Numbers(a, AllScalars(eqs))
      /\ DOMAIN WithG(p) = AllPoints(eqs) /\ Numbers(WithG(p), AllPoints(eqs))
  BY DEF Fits
<1>5. DOMAIN g = DOMAIN stmt.scalars /\ \A i \in DOMAIN stmt.scalars : g[i] = a[stmt.scalars[i]]
  BY <1>2, <1>3, <1>4, ValuesAre
<1>6. \A i \in DOMAIN stmt.points : P[i] = WithG(p)[stmt.points[i]]
  BY <1>2, <1>3, <1>4, ValuesAre
<1>7. \A i \in DOMAIN stmt.scalars : stmt.scalars[i] \in AllScalars(eqs)
  BY <1>3 DEF Names
<1>8. \A i \in DOMAIN stmt.points : stmt.points[i] \in AllPoints(eqs)
  BY <1>3 DEF Names
<1>9. Numbers(g, DOMAIN stmt.scalars) /\ IsIndexed(g, stmt.scalars, a)
  BY <1>4, <1>5, <1>7 DEF Numbers, IsIndexed
<1>10. Numbers(P, DOMAIN stmt.points) /\ IsIndexed(P, stmt.points, WithG(p))
  BY <1>4, <1>6, <1>8 DEF Numbers, IsIndexed
<1>11. DOMAIN stmt.scalars = 1..Len(stmt.scalars) /\ Len(stmt.scalars) \in Nat
  <2>1. stmt.scalars \in Seq(Identifiers)
    BY <1>3 DEF UniqueNames
  <2> QED
    BY <2>1, SeqIsFunction
<1> QED
  BY <1>5, <1>9, <1>10, <1>11 DEF stmt, g, P

\* The responses that prove() computes.
LEMMA ResponseIs ==
  ASSUME NEW D, NEW g, DOMAIN g = D, Numbers(g, D), NEW m, Numbers(m, D), NEW c \in Int
  PROVE  LET r == Z!Response(g, c, m) IN
         /\ DOMAIN r = D /\ Numbers(r, D) /\ Responds(r, g, m, c, D)
         /\ \A i \in D : r[i] \in 0..(Q - 1)
<1> DEFINE r == Z!Response(g, c, m)
<1>1. r = [i \in D |-> (g[i] * c + m[i]) % Q]
  BY DEF Z!Response
<1> HIDE DEF r
<1>2. ASSUME NEW i \in D
      PROVE  r[i] \in 0..(Q - 1) /\ r[i] \in Int /\ Cong(r[i], g[i] * c + m[i])
  <2> DEFINE x == g[i]
             y == m[i]
  <2>1. x \in Int /\ y \in Int
    BY DEF Numbers
  <2>2. r[i] = (x * c + y) % Q
    BY <1>1
  <2> HIDE DEF x, y
  <2>3. x * c + y \in Int
    BY <2>1
  <2>4. (x * c + y) % Q \in 0..(Q - 1) /\ Cong((x * c + y) % Q, x * c + y)
    BY <2>3, CongMod
  <2>5. (x * c + y) % Q \in Int
    BY <2>4, QAssumption
  <2> QED
    BY <2>2, <2>4, <2>5 DEF x, y
<1> QED
  BY <1>1, <1>2 DEF r, Numbers, Responds

\* What is proved for arguments that satisfy the equations is verified.
LEMMA ProvedIsVerified ==
  ASSUME NEW eqs \in Seq(Equations), NEW a, NEW p, Fits(eqs, a, p),
         NEW m, Numbers(m, DOMAIN Z!Statement(eqs).scalars), NEW c \in Int,
         \A k \in 1..Len(eqs) : Holds(eqs[k], a, WithG(p))
  PROVE  Z!Verify(Z!Statement(eqs), Z!Prove(Z!Statement(eqs), a, p, m, c), p)
<1> DEFINE stmt == Z!Statement(eqs)
           D == DOMAIN stmt.scalars
           E == DOMAIN stmt.points
           g == Z!GetScalars(stmt, a)
           P == Z!GetPoints(stmt, p)
           r == Z!Response(g, c, m)
           sums == Z!Homomorphism(stmt, r, P)
           commitment == Z!Homomorphism(stmt, m, P)
           proof == Z!Prove(stmt, a, p, m, c)
<1>1. /\ DOMAIN g = D /\ Numbers(g, D) /\ IsIndexed(g, stmt.scalars, a)
      /\ Numbers(P, E) /\ IsIndexed(P, stmt.points, WithG(p))
      /\ D = 1..Len(stmt.scalars) /\ Len(stmt.scalars) \in Nat
  BY ArgumentsIndexed
<1>2. proof = [challenge |-> c, response |-> r, transcript |-> <<stmt.equations, P, commitment>>]
  BY DEF Z!Prove
<1> HIDE DEF g, P, proof
<1>3. DOMAIN r = D /\ Numbers(r, D) /\ Responds(r, g, m, c, D) /\ \A i \in D : r[i] \in 0..(Q - 1)
  <2> HIDE DEF r, stmt
  <2>1. Numbers(m, D)
    BY DEF stmt
  <2> QED
    BY <1>1, <2>1, ResponseIs DEF r
<1> HIDE DEF r
<1>4. Len(r) = Len(stmt.scalars)
  <2> HIDE DEF stmt
  <2>1. r \in [1..Len(stmt.scalars) -> Int]
    <3>1. r = [i \in D |-> r[i]]
      BY <1>3 DEF r, Z!Response
    <3> QED
      BY <1>1, <1>3, <3>1 DEF Numbers
  <2> QED
    BY <1>1, <2>1, FunctionIsSequence
<1>5. ASSUME NEW k \in 1..Len(eqs)
      PROVE  (sums[k] - P[stmt.equations[k].lhs] * c) % Q = commitment[k]
  <2> DEFINE e == stmt.equations[k]
             terms == e.terms
             lhs == e.lhs
  <2>1. /\ DOMAIN stmt.equations = 1..Len(eqs) /\ IsCompiled(e, eqs[k], stmt.scalars, stmt.points)
        /\ lhs \in E /\ AreTerms(terms, D, E)
    BY EquationIs
  <2>2. sums[k] = Z!RightHandSide(terms, r, P) /\ commitment[k] = Z!RightHandSide(terms, m, P)
    BY <2>1 DEF Z!Homomorphism
  <2>3. Holds(eqs[k], a, WithG(p))
    OBVIOUS
  <2>4. Numbers(m, D)
    OBVIOUS
  <2> HIDE DEF stmt, e, sums, commitment
  <2>5. Products(e.terms, g, P) = Products(eqs[k].rhs, a, WithG(p))
        /\ P[e.lhs] = WithG(p)[eqs[k].lhs]
    BY <1>1, <2>1, ProductsByName
  <2>6. Cong(P[lhs], Z!Sum(Products(terms, g, P)))
    BY <2>3, <2>5 DEF Holds
  <2> HIDE DEF terms, lhs, D, E
  <2>7. (Z!RightHandSide(terms, r, P) - P[lhs] * c) % Q = Z!RightHandSide(terms, m, P)
    BY <1>1, <1>3, <2>1, <2>4, <2>6, EquationVerifies
  <2> QED
    BY <2>2, <2>7 DEF lhs, e
<1>6. [i \in DOMAIN sums |-> (sums[i] - P[stmt.equations[i].lhs] * c) % Q] = commitment
  <2>1. DOMAIN stmt.equations = 1..Len(eqs)
    <3>1. CASE Len(eqs) = 0
      <4>1. IsStatement(stmt, eqs, Len(eqs))
        BY StatementIs
      <4> HIDE DEF stmt
      <4>2. stmt.equations \in Seq([lhs : Nat, terms : Seq(Nat \X Nat)])
            /\ Len(stmt.equations) = Len(eqs)
        BY <4>1 DEF IsStatement, Statements
      <4> QED
        BY <4>2, SeqIsFunction
    <3>2. CASE Len(eqs) # 0
      <4>1. 1 \in 1..Len(eqs)
        BY <3>2, SeqIsFunction
      <4> QED
        BY <4>1, EquationIs
    <3> QED
      BY <3>1, <3>2
  <2> HIDE DEF stmt
  <2>2. DOMAIN sums = 1..Len(eqs)
    BY <2>1 DEF Z!Homomorphism
  <2>3. commitment = [i \in 1..Len(eqs) |-> commitment[i]]
    BY <2>1 DEF Z!Homomorphism
  <2> HIDE DEF sums, commitment
  <2> QED
    BY <1>5, <2>2, <2>3
<1> HIDE DEF commitment, sums, stmt
<1>7. /\ Len(proof.response) = Len(stmt.scalars) /\ proof.challenge = c
      /\ proof.response = r /\ proof.transcript = <<stmt.equations, P, commitment>>
  BY <1>2, <1>4
<1>8. Z!Homomorphism(stmt, proof.response, P) = sums
  BY <1>7 DEF sums
<1>9. Z!Verify(stmt, proof, p)
  BY <1>6, <1>7, <1>8 DEF Z!Verify, P
<1> QED
  BY <1>9 DEF stmt, proof


\* Every scalar is noticed: an equation that holds has it once, with a point that is not zero.
Noticed(eqs, a, P) ==
  \A name \in AllScalars(eqs) : \E k \in 1..Len(eqs) : \E j \in 1..Len(eqs[k].rhs) :
    Holds(eqs[k], a, P) /\ OccursOnce(name, eqs[k].rhs, j, P)

\* A proof of which one response was changed.
Changed(proof, d) == [proof EXCEPT !.response[d] = (@ + 1) % Q]

\* A name that is in one term only has one index in one term only.
LEMMA OccursOnceByName ==
  ASSUME NEW c, NEW e, NEW scalars \in UniqueNames, NEW points, IsCompiled(c, e, scalars, points),
         NEW P, NEW p, IsIndexed(P, points, p), Len(e.rhs) \in Nat,
         NEW d \in DOMAIN scalars, NEW j, OccursOnce(scalars[d], e.rhs, j, p)
  PROVE  OccursOnce(d, c.terms, j, P)
<1>1. /\ Len(c.terms) = Len(e.rhs)
      /\ \A i \in 1..Len(e.rhs) :
           /\ c.terms[i][1] \in DOMAIN scalars /\ scalars[c.terms[i][1]] = e.rhs[i][1]
           /\ c.terms[i][2] \in DOMAIN points /\ points[c.terms[i][2]] = e.rhs[i][2]
  BY DEF IsCompiled
<1>2. /\ j \in 1..Len(e.rhs) /\ e.rhs[j][1] = scalars[d] /\ p[e.rhs[j][2]] % Q # 0
      /\ \A k \in (1..Len(e.rhs)) \ {j} : e.rhs[k][1] # scalars[d]
  BY DEF OccursOnce
<1>3. \A i \in DOMAIN scalars : scalars[i] = scalars[d] => i = d
  BY DEF UniqueNames
<1>4. c.terms[j][1] = d
  BY <1>1, <1>2, <1>3
<1>5. P[c.terms[j][2]] = p[e.rhs[j][2]]
  BY <1>1, <1>2 DEF IsIndexed
<1>6. ASSUME NEW k \in (1..Len(e.rhs)) \ {j} PROVE c.terms[k][1] # d
  BY <1>1, <1>2
<1>7. P[c.terms[j][2]] % Q # 0
  BY <1>2, <1>5
<1> QED
  BY <1>1, <1>2, <1>4, <1>6, <1>7 DEF OccursOnce

\* A proof is not verified any more after one response was changed.
LEMMA ChangedIsRefused ==
  ASSUME NEW eqs \in Seq(Equations), NEW a, NEW p, Fits(eqs, a, p),
         NEW m, Numbers(m, DOMAIN Z!Statement(eqs).scalars), NEW c \in Int,
         Noticed(eqs, a, WithG(p)), NEW d \in DOMAIN Z!Statement(eqs).scalars
  PROVE  ~ Z!Verify(Z!Statement(eqs), Changed(Z!Prove(Z!Statement(eqs), a, p, m, c), d), p)
<1> DEFINE stmt == Z!Statement(eqs)
           D == DOMAIN stmt.scalars
           E == DOMAIN stmt.points
           g == Z!GetScalars(stmt, a)
           P == Z!GetPoints(stmt, p)
           r == Z!Response(g, c, m)
           commitment == Z!Homomorphism(stmt, m, P)
           proof == Z!Prove(stmt, a, p, m, c)
           q == [r EXCEPT ![d] = (@ + 1) % Q]
           sums == Z!Homomorphism(stmt, q, P)
           other == Changed(proof, d)
<1>1. /\ DOMAIN g = D /\ Numbers(g, D) /\ IsIndexed(g, stmt.scalars, a)
      /\ Numbers(P, E) /\ IsIndexed(P, stmt.points, WithG(p))
  BY ArgumentsIndexed
<1>2. proof = [challenge |-> c, response |-> r, transcript |-> <<stmt.equations, P, commitment>>]
  BY DEF Z!Prove
<1> HIDE DEF g, P, proof
<1>3. DOMAIN r = D /\ Numbers(r, D) /\ Responds(r, g, m, c, D)
  <2> HIDE DEF r, stmt
  <2>1. Numbers(m, D)
    BY DEF stmt
  <2> QED
    BY <1>1, <2>1, ResponseIs DEF r
<1> HIDE DEF r
<1>4. d \in D
  OBVIOUS
<1>5. IsAltered(q, r, d, D) /\ Numbers(q, D)
  <2> HIDE DEF stmt
  <2>1. q[d] = (r[d] + 1) % Q /\ \A i \in D \ {d} : q[i] = r[i]
    BY <1>3, <1>4
  <2> HIDE DEF q
  <2>2. r[d] + 1 \in Int
    BY <1>3, <1>4 DEF Numbers
  <2>3. (r[d] + 1) % Q \in 0..(Q - 1)
    BY <2>2, CongMod
  <2>4. (r[d] + 1) % Q \in Int
    BY <2>3, QAssumption
  <2>5. \A i \in D : q[i] \in Int
    BY <1>3, <2>1, <2>4 DEF Numbers
  <2> QED
    BY <2>1, <2>5 DEF IsAltered, Numbers
<1>6. other.challenge = c /\ other.response = q
      /\ other.transcript = <<stmt.equations, P, commitment>>
  BY <1>2 DEF Changed
<1>7. stmt.scalars \in UniqueNames /\ Names(stmt.scalars) = AllScalars(eqs)
  <2>1. IsStatement(stmt, eqs, Len(eqs))
    BY StatementIs
  <2> HIDE DEF stmt
  <2> QED
    BY <2>1 DEF IsStatement, Statements, AllScalars
<1>k. PICK k \in 1..Len(eqs) : \E i \in 1..Len(eqs[k].rhs) :
        Holds(eqs[k], a, WithG(p)) /\ OccursOnce(stmt.scalars[d], eqs[k].rhs, i, WithG(p))
  <2>1. stmt.scalars[d] \in AllScalars(eqs)
    <3> HIDE DEF stmt
    <3> QED
      BY <1>4, <1>7 DEF Names
  <2> HIDE DEF stmt
  <2> QED
    BY <2>1 DEF Noticed
<1>8. PICK j : Holds(eqs[k], a, WithG(p)) /\ OccursOnce(stmt.scalars[d], eqs[k].rhs, j, WithG(p))
  BY <1>k
<1> DEFINE e == stmt.equations[k]
           terms == e.terms
           lhs == e.lhs
<1>9. /\ DOMAIN stmt.equations = 1..Len(eqs) /\ IsCompiled(e, eqs[k], stmt.scalars, stmt.points)
      /\ lhs \in E /\ AreTerms(terms, D, E)
  BY EquationIs
<1>10. sums[k] = Z!RightHandSide(terms, q, P) /\ commitment[k] = Z!RightHandSide(terms, m, P)
       /\ k \in DOMAIN sums
  BY <1>9 DEF Z!Homomorphism
<1>11. Numbers(m, D)
  OBVIOUS
<1>12. Len(eqs[k].rhs) \in Nat
  <2>1. eqs[k] \in Equations
    BY SeqIsFunction
  <2>2. eqs[k].rhs \in Seq(Identifiers \X Identifiers)
    BY <2>1 DEF Equations
  <2> QED
    BY <2>2, SeqIsFunction
<1> HIDE DEF stmt, e, sums, commitment, q, other
<1>13. /\ Products(e.terms, g, P) = Products(eqs[k].rhs, a, WithG(p))
       /\ P[e.lhs] = WithG(p)[eqs[k].lhs]
  BY <1>1, <1>9, ProductsByName
<1>14. Cong(P[lhs], Z!Sum(Products(terms, g, P)))
  BY <1>8, <1>13 DEF Holds
<1>15. OccursOnce(d, terms, j, P)
  <2>1. IsIndexed(P, stmt.points, WithG(p)) /\ d \in DOMAIN stmt.scalars
    BY <1>1, <1>4
  <2> QED
    BY <1>7, <1>8, <1>9, <1>12, <2>1, OccursOnceByName
<1> HIDE DEF terms, lhs, D, E
<1>16. (Z!RightHandSide(terms, q, P) - P[lhs] * c) % Q # Z!RightHandSide(terms, m, P)
  BY <1>1, <1>3, <1>4, <1>5, <1>9, <1>11, <1>14, <1>15, EquationRefuses
<1>17. (sums[k] - P[stmt.equations[k].lhs] * c) % Q # commitment[k]
  BY <1>10, <1>16 DEF lhs, e
<1>18. ASSUME Z!Verify(stmt, other, p) PROVE FALSE
  <2>1. Z!Homomorphism(stmt, other.response, P) = sums
    BY <1>6 DEF sums
  <2>2. other.transcript =
          <<stmt.equations, P,
            [i \in DOMAIN sums |-> (sums[i] - P[stmt.equations[i].lhs] * c) % Q]>>
    BY <1>6, <1>18, <2>1 DEF Z!Verify, P
  <2>3. commitment = [i \in DOMAIN sums |-> (sums[i] - P[stmt.equations[i].lhs] * c) % Q]
    BY <1>6, <2>2
  <2>4. commitment[k] = (sums[k] - P[stmt.equations[k].lhs] * c) % Q
    BY <1>10, <2>3
  <2> QED
    BY <1>17, <2>4
<1> QED
  BY <1>18 DEF stmt, other, proof

(***************************************************************************)
(* Keys and parameters                                                     *)
(***************************************************************************)

\* Numbers modulo Q that are not zero.
NonZero == 1..(Q - 1)

\* They are not zero modulo Q, and neither is a product of two of them.
LEMMA NonZeroIs ==
  /\ \A x \in NonZero : x \in Int /\ x % Q = x /\ x % Q # 0
  /\ \A x, y \in NonZero : (x * y) % Q \in NonZero
<1>1. Q \in Nat /\ Q > 1
  BY QAssumption
<1>2. ASSUME NEW x \in NonZero PROVE x \in Int /\ x % Q = x /\ x % Q # 0
  BY <1>1, <1>2 DEF NonZero
<1>3. ASSUME NEW x \in NonZero, NEW y \in NonZero PROVE (x * y) % Q \in NonZero
  <2> DEFINE r == (x * y) % Q
  <2>1. x * y \in Int
    BY <1>2
  <2>2. r \in 0..(Q - 1)
    BY <2>1, CongMod
  <2>3. r # 0
    BY QAssumption DEF NonZero
  <2> HIDE DEF r
  <2>4. r \in NonZero
    BY <1>1, <2>2, <2>3 DEF NonZero
  <2> QED
    BY <2>4 DEF r
<1> QED
  BY <1>2, <1>3

\* A part of a sequence.
LEMMA PartIs ==
  ASSUME NEW S, NEW s \in Seq(S), NEW m \in Nat, NEW n \in Nat, 1 <= m, m <= n, n <= Len(s)
  PROVE  /\ SubSeq(s, m, n) \in Seq(S) /\ Len(SubSeq(s, m, n)) = n - m + 1
         /\ \A i \in 1..(n - m + 1) : SubSeq(s, m, n)[i] = s[m + i - 1]
<1>1. \A i \in m..n : s[i] \in S
  BY SeqIsFunction
<1>2. m \in 1..(Len(s) + 1) /\ n \in m - 1..Len(s)
  BY SeqIsFunction
<1> QED
  BY <1>1, <1>2, SubSeqProperties

\* One sequence after another.
LEMMA ConcatIs ==
  ASSUME NEW S, NEW s \in Seq(S), NEW t \in Seq(S)
  PROVE  /\ s \o t \in Seq(S) /\ Len(s \o t) = Len(s) + Len(t)
         /\ \A i \in 1..Len(s) : (s \o t)[i] = s[i]
         /\ \A i \in 1..Len(t) : (s \o t)[Len(s) + i] = t[i]
<1>1. Len(s) \in Nat /\ Len(t) \in Nat
  BY SeqIsFunction
<1>2. /\ s \o t \in Seq(S) /\ Len(s \o t) = Len(s) + Len(t)
      /\ \A i \in 1..(Len(s) + Len(t)) :
           (s \o t)[i] = IF i <= Len(s) THEN s[i] ELSE t[i - Len(s)]
  BY ConcatProperties
<1> DEFINE u == s \o t
           m == Len(s)
           n == Len(t)
<1> HIDE DEF u, m, n
<1>3. \A i \in 1..m : u[i] = s[i]
  BY <1>1, <1>2 DEF u, m, n
<1>4. \A i \in 1..n : u[m + i] = t[i]
  BY <1>1, <1>2 DEF u, m, n
<1> QED
  BY <1>2, <1>3, <1>4 DEF u, m, n

\* What Sho draws.
Drawn(d) == d \in Seq(NonZero) /\ Len(d) >= 17

\* Parameters and keys.
IsParams(G) == G \in Seq(NonZero) /\ Len(G) = 17

\* KeyPair.c: W, C_W and I belong to the secret numbers of the key and the parameters.
IsKey(key, size, G) ==
  /\ key.w \in NonZero /\ key.wprime \in NonZero /\ key.x0 \in NonZero /\ key.x1 \in NonZero
  /\ key.y \in Seq(NonZero) /\ Len(key.y) = size
  /\ key.W \in Int /\ key.C_W \in Int /\ key.I \in Int
  /\ Cong(key.W, G[1] * key.w)
  /\ Cong(key.C_W, G[1] * key.w + G[2] * key.wprime)
  /\ Cong(key.I, G[16] - G[3] * key.x0 - G[4] * key.x1
                   - Z!Sum([i \in 1..size |-> G[4 + i] * key.y[i]]))

\* A draw is that.
LEMMA DrawnIs == \A d \in Draws : Drawn(d)
  BY DrawsAssumption DEF Drawn, NonZero

\* Reorder() keeps the seventeen numbers.
LEMMA ReorderIs ==
  ASSUME NEW d, Drawn(d)
  PROVE  IsParams(Z!Reorder(d))
<1> DEFINE a == SubSeq(d, 1, 8)
           b == SubSeq(d, 15, 16)
           c == SubSeq(d, 9, 12)
           e == SubSeq(d, 17, 17)
           f == SubSeq(d, 13, 14)
<1>1. d \in Seq(NonZero) /\ Len(d) >= 17 /\ Len(d) \in Nat
  BY SeqIsFunction DEF Drawn
<1>2. a \in Seq(NonZero) /\ b \in Seq(NonZero) /\ c \in Seq(NonZero) /\ e \in Seq(NonZero)
      /\ f \in Seq(NonZero)
  BY <1>1, PartIs
<1>3. Len(a) = 8 /\ Len(b) = 2 /\ Len(c) = 4 /\ Len(e) = 1 /\ Len(f) = 2
  BY <1>1, PartIs
<1>4. Z!Reorder(d) = (((a \o b) \o c) \o e) \o f
  BY DEF Z!Reorder
<1> HIDE DEF a, b, c, e, f
<1>5. a \o b \in Seq(NonZero) /\ Len(a \o b) = Len(a) + Len(b)
  BY <1>2
<1> DEFINE ab == a \o b
<1> HIDE DEF ab
<1>6. ab \o c \in Seq(NonZero) /\ Len(ab \o c) = Len(ab) + Len(c)
  BY <1>2, <1>5 DEF ab
<1> DEFINE abc == ab \o c
<1> HIDE DEF abc
<1>7. abc \o e \in Seq(NonZero) /\ Len(abc \o e) = Len(abc) + Len(e)
  <2>1. abc \in Seq(NonZero)
    BY <1>6 DEF abc
  <2> QED
    BY <1>2, <2>1
<1> DEFINE abce == abc \o e
<1> HIDE DEF abce
<1>8. abce \o f \in Seq(NonZero) /\ Len(abce \o f) = Len(abce) + Len(f)
  <2>1. abce \in Seq(NonZero)
    BY <1>7 DEF abce
  <2> QED
    BY <1>2, <2>1
<1>9. Len(abce \o f) = (((Len(a) + Len(b)) + Len(c)) + Len(e)) + Len(f)
  BY <1>5, <1>6, <1>7, <1>8, Zenon DEF ab, abc, abce
<1>10. (((Len(a) + Len(b)) + Len(c)) + Len(e)) + Len(f) = 17
  BY <1>3
<1>11. Z!Reorder(d) = abce \o f
  BY <1>4 DEF ab, abc, abce
<1> QED
  BY <1>8, <1>9, <1>10, <1>11, Zenon DEF IsParams

\* What the parameters and the draws have in their places.
LEMMA ParamIs == \A G : IsParams(G) => \A i \in 1..17 : G[i] \in NonZero /\ G[i] \in Int
<1> SUFFICES ASSUME NEW G, IsParams(G), NEW i \in 1..17 PROVE G[i] \in NonZero /\ G[i] \in Int
  OBVIOUS
<1>1. G[i] \in NonZero
  BY SeqIsFunction DEF IsParams
<1> QED
  BY <1>1, NonZeroIs

\* What a draw has in its places.
LEMMA DrawIs == \A d : Drawn(d) => \A i \in 1..17 : d[i] \in NonZero /\ d[i] \in Int
<1> SUFFICES ASSUME NEW d, Drawn(d), NEW i \in 1..17 PROVE d[i] \in NonZero /\ d[i] \in Int
  OBVIOUS
<1>1. d[i] \in NonZero
  BY SeqIsFunction DEF Drawn
<1> QED
  BY <1>1, NonZeroIs

\* Products of the numbers of two sequences are a sequence of numbers.
LEMMA PairsType ==
  ASSUME NEW n \in Nat, NEW f, NEW g, \A i \in 1..n : f[i] \in Int /\ g[i] \in Int
  PROVE  /\ [i \in 1..n |-> f[i] * g[i]] \in Seq(Int)
         /\ Len([i \in 1..n |-> f[i] * g[i]]) = n
<1> DEFINE v == [i \in 1..n |-> f[i] * g[i]]
<1>1. ASSUME NEW i \in 1..n PROVE f[i] * g[i] \in Int
  <2> DEFINE a == f[i]
             b == g[i]
  <2>1. a \in Int /\ b \in Int
    OBVIOUS
  <2> HIDE DEF a, b
  <2>2. a * b \in Int
    BY <2>1
  <2> QED
    BY <2>2 DEF a, b
<1>2. v \in [1..n -> Int]
  BY <1>1
<1> HIDE DEF v
<1>3. v \in Seq(Int) /\ Len(v) = n
  BY <1>2, FunctionIsSequence
<1> QED
  BY <1>3 DEF v


(***************************************************************************)
(* Mappings                                                                *)
(***************************************************************************)

\* The mapping that has two others.
LEMMA JoinIs ==
  ASSUME NEW f, NEW g
  PROVE  /\ DOMAIN Z!Join(f, g) = DOMAIN f \cup DOMAIN g
         /\ \A n \in DOMAIN g : Z!Join(f, g)[n] = g[n]
         /\ \A n \in DOMAIN f : n \notin DOMAIN g => Z!Join(f, g)[n] = f[n]
  BY DEF Z!Join

\* The numbered names of attributes.
NameLists == {Z!Y, Z!GY, Z!MM}
NamesTo(names, n) == {names[i] : i \in 1..n}

\* Each list has five names, all different.
LEMMA NameListsAre ==
  ASSUME NEW names \in NameLists
  PROVE  /\ \A i \in 1..5 : names[i] \in Identifiers
         /\ \A i, j \in 1..5 : names[i] = names[j] => i = j
         /\ DOMAIN names = 1..5
<1>1. CASE names = Z!Y
  BY <1>1 DEF Z!Y, Identifiers
<1>2. CASE names = Z!GY
  BY <1>2 DEF Z!GY, Identifiers
<1>3. CASE names = Z!MM
  BY <1>3 DEF Z!MM, Identifiers
<1> QED
  BY <1>1, <1>2, <1>3 DEF NameLists

\* They are no other names.
LEMMA NamesApart ==
  /\ \A i \in 1..5 : Z!Y[i] \notin {"w", "wprime", "x0", "x1", "rprime"}
  /\ \A i \in 1..5 : Z!GY[i] \notin {"G", "C_W", "G_w", "G_wprime", "G_V_I", "G_x0", "G_x1", "V", "U",
                                     "tU", "S1", "D1", "E1", "S2", "D2", "E2", "Y", "M1", "M2", "M5"}
  /\ \A i \in 1..5 : Z!MM[i] \notin {"G", "C_W", "G_w", "G_wprime", "G_V_I", "G_x0", "G_x1", "V", "U",
                                     "tU"}
  /\ \A i, j \in 1..5 : Z!GY[i] # Z!MM[j]
  BY DEF Z!Y, Z!GY, Z!MM

\* What numbered names are mapped to.
LEMMA NumberedIs ==
  ASSUME NEW names \in NameLists, NEW n \in 1..5, NEW S, NEW values \in Seq(S), Len(values) = n
  PROVE  /\ DOMAIN Z!Numbered(names, values) = NamesTo(names, n)
         /\ \A i \in 1..n : Z!Numbered(names, values)[names[i]] = values[i]
<1>1. DOMAIN values = 1..n
  BY SeqIsFunction
<1>2. Z!Numbered(names, values) = [x \in NamesTo(names, n) |-> values[Z!Index(names, x)]]
  BY <1>1 DEF Z!Numbered, NamesTo
<1>3. ASSUME NEW i \in 1..n PROVE Z!Index(names, names[i]) = i /\ names[i] \in NamesTo(names, n)
  <2>1. i \in 1..5
    OBVIOUS
  <2>2. i \in DOMAIN names /\ \A j \in DOMAIN names : names[j] = names[i] => j = i
    BY <2>1, NameListsAre
  <2>3. Z!Index(names, names[i]) = i
    BY <2>2 DEF Z!Index
  <2> QED
    BY <2>3 DEF NamesTo
<1> QED
  BY <1>2, <1>3

(***************************************************************************)
(* Key pairs                                                               *)
(***************************************************************************)

\* KeyPair create() makes a key.
LEMMA KeyPairIs ==
  ASSUME IsParams(params.cred), NEW d, Drawn(d), NEW size \in 5..7
  PROVE  IsKey(Z!KeyPair(d, size), size, params.cred)
<1> DEFINE G == params.cred
           y == SubSeq(d, 5, 4 + size)
           f == [i \in 1..size |-> G[4 + i] * y[i]]
           k == Z!KeyPair(d, size)
           a == G[1] * d[1]
           b == G[2] * d[2]
           c == G[16] - G[3] * d[3] - G[4] * d[4]
<1>1. size \in Nat /\ d \in Seq(NonZero) /\ Len(d) \in Nat /\ Len(d) >= 17
  BY SeqIsFunction DEF Drawn
<1>2. y \in Seq(NonZero) /\ Len(y) = size
  <2>1. 5 \in Nat /\ 4 + size \in Nat /\ 1 <= 5 /\ 5 <= 4 + size /\ 4 + size <= Len(d)
        /\ (4 + size) - 5 + 1 = size
    BY <1>1
  <2> QED
    BY <1>1, <2>1, PartIs
<1>3. [i \in 1..size |-> G[5 + i - 1] * y[i]] = f
  <2>1. \A i \in 1..size : 5 + i - 1 = 4 + i
    BY <1>1
  <2> QED
    BY <2>1
<1>4. /\ k.w = d[1] /\ k.wprime = d[2] /\ k.x0 = d[3] /\ k.x1 = d[4] /\ k.y = y
      /\ k.W = a % Q /\ k.C_W = (a + b) % Q /\ k.I = (c - Z!Sum(f)) % Q
  <2> HIDE DEF y, f
  <2>1. k = [w |-> d[1], wprime |-> d[2], x0 |-> d[3], x1 |-> d[4], y |-> y,
             W |-> a % Q, C_W |-> (a + b) % Q, I |-> (c - Z!Sum(f)) % Q]
    BY <1>3 DEF Z!KeyPair, Z!CRED_G_w, Z!CRED_G_wprime, Z!CRED_G_x0, Z!CRED_G_x1, Z!CRED_G_y,
                Z!CRED_G_V, y
  <2> HIDE DEF k, a, b, c
  <2> QED
    BY <2>1
<1>5. \A i \in 1..17 : G[i] \in Int
  BY ParamIs
<1>6. \A i \in 1..17 : d[i] \in NonZero /\ d[i] \in Int
  BY DrawIs
<1> HIDE DEF k, y
<1>7. f \in Seq(Int)
  <2> DEFINE g == [i \in 1..size |-> G[4 + i]]
  <2>1. ASSUME NEW i \in 1..size PROVE g[i] \in Int /\ y[i] \in Int /\ g[i] = G[4 + i]
    <3>1. 4 + i \in 1..17
      BY <1>1
    <3>2. y[i] \in NonZero
      BY <1>2, SeqIsFunction
    <3> QED
      BY <1>5, <3>1, <3>2, NonZeroIs
  <2>2. f = [i \in 1..size |-> g[i] * y[i]]
    OBVIOUS
  <2> HIDE DEF f, g
  <2> QED
    BY <1>1, <2>1, <2>2, PairsType
<1>8. Z!Sum(f) \in Int
  BY <1>7, SumType
<1>9. a \in Int /\ b \in Int /\ c \in Int
  <2>1. G[1] \in Int /\ G[2] \in Int /\ G[3] \in Int /\ G[4] \in Int /\ G[16] \in Int
    BY <1>5
  <2>2. d[1] \in Int /\ d[2] \in Int /\ d[3] \in Int /\ d[4] \in Int
    BY <1>6
  <2> QED
    BY <2>1, <2>2
<1> DEFINE s == Z!Sum(f)
<1> HIDE DEF s, a, b, c
<1>10. a % Q \in Int /\ Cong(a % Q, a)
  BY <1>9, CongMod, QAssumption
<1>11. a + b \in Int /\ (a + b) % Q \in Int /\ Cong((a + b) % Q, a + b)
  BY <1>9, CongMod, QAssumption
<1>12. c - s \in Int /\ (c - s) % Q \in Int /\ Cong((c - s) % Q, c - s)
  <2>1. c - s \in Int
    BY <1>8, <1>9 DEF s
  <2> QED
    BY <2>1, CongMod, QAssumption
<1>13. k.w \in NonZero /\ k.wprime \in NonZero /\ k.x0 \in NonZero /\ k.x1 \in NonZero
  BY <1>4, <1>6
<1>14. k.y \in Seq(NonZero) /\ Len(k.y) = size
  BY <1>2, <1>4
<1>15. k.W \in Int /\ k.C_W \in Int /\ k.I \in Int
  BY <1>4, <1>10, <1>11, <1>12 DEF s
<1>16. Cong(k.W, G[1] * k.w) /\ Cong(k.C_W, G[1] * k.w + G[2] * k.wprime)
  <2>1. k.W = a % Q /\ k.C_W = (a + b) % Q /\ a = G[1] * k.w /\ b = G[2] * k.wprime
    BY <1>4 DEF a, b
  <2> QED
    BY <1>10, <1>11, <2>1
<1>17. Cong(k.I, G[16] - G[3] * k.x0 - G[4] * k.x1 - Z!Sum([i \in 1..size |-> G[4 + i] * k.y[i]]))
  <2>1. f = [i \in 1..size |-> G[4 + i] * k.y[i]]
    BY <1>4
  <2>2. k.I = (c - s) % Q /\ c = G[16] - G[3] * k.x0 - G[4] * k.x1
    BY <1>4 DEF s, c
  <2> QED
    BY <1>12, <2>1, <2>2 DEF s
<1> HIDE DEF G
<1>18. IsKey(k, size, G)
  BY <1>13, <1>14, <1>15, <1>16, <1>17 DEF IsKey
<1> QED
  BY <1>18 DEF k, G


(***************************************************************************)
(* What a client decrypts                                                  *)
(***************************************************************************)

\* The sums of sequences with five and nine elements.
LEMMA SumLong ==
  ASSUME NEW f \in Seq(Int)
  PROVE  /\ Len(f) = 5 => Z!Sum(f) = f[1] + f[2] + f[3] + f[4] + f[5]
         /\ Len(f) = 9 => Z!Sum(f) = f[1] + f[2] + f[3] + f[4] + f[5] + f[6] + f[7] + f[8] + f[9]
<1>1. PICK s \in [0..Len(f) -> Int] :
        s[0] = 0 /\ (\A i \in 1..Len(f) : s[i] = s[i - 1] + f[i]) /\ Z!Sum(f) = s[Len(f)]
  BY SumSteps
<1>2. \A i \in 1..Len(f) : f[i] \in Int
  BY ElementType
<1>3. ASSUME Len(f) \in {5, 9}
      PROVE  s[5] = f[1] + f[2] + f[3] + f[4] + f[5]
  <2>1. /\ s[1] = s[0] + f[1] /\ s[2] = s[1] + f[2] /\ s[3] = s[2] + f[3] /\ s[4] = s[3] + f[4]
        /\ s[5] = s[4] + f[5]
    <3>1. \A i \in 1..5 : i \in 1..Len(f)
      BY <1>3
    <3>2. \A i \in 1..5 : s[i] = s[i - 1] + f[i]
      BY <1>1, <3>1
    <3> QED
      BY <3>2
  <2>2. f[1] \in Int
    BY <1>2, <1>3
  <2>3. s[1] = f[1]
    BY <1>1, <2>1, <2>2
  <2> QED
    BY <2>1, <2>3
<1>4. ASSUME Len(f) = 9
      PROVE  s[9] = f[1] + f[2] + f[3] + f[4] + f[5] + f[6] + f[7] + f[8] + f[9]
  <2>1. \A i \in 6..9 : s[i] = s[i - 1] + f[i]
    <3>1. \A i \in 6..9 : i \in 1..Len(f)
      BY <1>4
    <3> QED
      BY <1>1, <3>1
  <2>2. s[6] = s[5] + f[6] /\ s[7] = s[6] + f[7] /\ s[8] = s[7] + f[8] /\ s[9] = s[8] + f[9]
    BY <2>1
  <2> QED
    BY <1>3, <1>4, <2>2
<1> QED
  BY <1>1, <1>3, <1>4

\* The attributes' share of a credential.
Shares(M, y, n) == [i \in 1..n |-> M[i] * y[i]]

\* n attributes.
IsAttributes(M, n) == n \in Nat /\ M \in Seq(Int) /\ Len(M) = n

\* Shares are numbers.
LEMMA SharesType ==
  ASSUME NEW n, NEW M, IsAttributes(M, n), NEW y \in Seq(NonZero), n <= Len(y)
  PROVE  Shares(M, y, n) \in Seq(Int) /\ Len(Shares(M, y, n)) = n
<1>0. n \in Nat /\ M \in Seq(Int) /\ Len(M) = n
  BY DEF IsAttributes
<1>1. ASSUME NEW i \in 1..n PROVE M[i] \in Int /\ y[i] \in Int
  <2>1. i \in 1..Len(y)
    BY <1>0, SeqIsFunction
  <2>2. y[i] \in NonZero
    BY <2>1, SeqIsFunction
  <2> QED
    BY <1>0, <2>2, NonZeroIs, ElementType
<1> QED
  BY <1>0, <1>1, PairsType DEF Shares

\* prepare() computes the share of the key and those of the attributes.
LEMMA PreparedIs ==
  ASSUME NEW key, NEW size, NEW G, IsKey(key, size, G), NEW t \in Int, NEW U \in Int,
         NEW n, NEW M, IsAttributes(M, n), n <= size
  PROVE  LET sum == key.W + U * (key.x0 + key.x1 * t) + Z!Sum(Shares(M, key.y, n)) IN
         /\ sum \in Int /\ Z!Sum(Shares(M, key.y, n)) \in Int
         /\ Z!PrepareV(key, t, U, M) \in 0..(Q - 1)
         /\ Cong(Z!PrepareV(key, t, U, M), sum)
<1> DEFINE sum == key.W + U * (key.x0 + key.x1 * t) + Z!Sum(Shares(M, key.y, n))
<1>1. key.y \in Seq(NonZero) /\ n <= Len(key.y) /\ key.W \in Int /\ key.x0 \in Int /\ key.x1 \in Int
  BY NonZeroIs DEF IsKey
<1>2. Z!Sum(Shares(M, key.y, n)) \in Int
  BY <1>1, SharesType, SumType
<1>3. sum \in Int
  BY <1>1, <1>2
<1>4. DOMAIN M = 1..n
  BY SeqIsFunction DEF IsAttributes
<1>5. Z!PrepareV(key, t, U, M) = sum % Q
  BY <1>4 DEF Z!PrepareV, Shares
<1> HIDE DEF sum
<1>6. sum % Q \in 0..(Q - 1) /\ Cong(sum % Q, sum)
  BY <1>3, CongMod
<1> QED
  BY <1>2, <1>3, <1>5, <1>6 DEF sum

\* S1 and S2 in numbers, for a client with the secret s: V stands for v, and the
\* encrypted profile key is M3 and M4.
Encrypts(s, rp, V, v, D1, E1, D2, E2, M3, M4, M5, y3, y4, y5, S1, S2) ==
  /\ s \in Int /\ rp \in Int /\ V \in Int /\ v \in Int /\ M3 \in Int /\ M4 \in Int /\ M5 \in Int
  /\ D1 \in Int /\ E1 \in Int /\ D2 \in Int /\ E2 \in Int /\ y3 \in Int /\ y4 \in Int /\ y5 \in Int
  /\ S1 \in Int /\ S2 \in Int
  /\ Cong(V, v) /\ Cong(D2, D1 * s + M3) /\ Cong(E2, E1 * s + M4)
  /\ Cong(S1, rp + D1 * y3 + E1 * y4)
  /\ Cong(S2, s * rp + V + M5 * y5 + D2 * y3 + E2 * y4)

\* S2 - s * S1 is what the attributes are in.
LEMMA Decrypting ==
  ASSUME NEW s, NEW rp, NEW V, NEW v, NEW D1, NEW E1, NEW D2, NEW E2, NEW M3, NEW M4, NEW M5,
         NEW y3, NEW y4, NEW y5, NEW S1, NEW S2,
         Encrypts(s, rp, V, v, D1, E1, D2, E2, M3, M4, M5, y3, y4, y5, S1, S2)
  PROVE  Cong(S2 - s * S1, v + M3 * y3 + M4 * y4 + M5 * y5)
<1>0. /\ s \in Int /\ rp \in Int /\ V \in Int /\ v \in Int /\ M3 \in Int /\ M4 \in Int /\ M5 \in Int
      /\ D1 \in Int /\ E1 \in Int /\ D2 \in Int /\ E2 \in Int /\ y3 \in Int /\ y4 \in Int
      /\ y5 \in Int /\ S1 \in Int /\ S2 \in Int
  BY DEF Encrypts
<1> DEFINE d == D1 * s + M3
           e == E1 * s + M4
           a == rp + D1 * y3 + E1 * y4
           b == s * rp + V + M5 * y5
           c == s * rp + v + M5 * y5
<1>1. d \in Int /\ e \in Int /\ a \in Int /\ b \in Int /\ c \in Int
  BY <1>0, Z3
<1>2. D2 * y3 \in Int /\ E2 * y4 \in Int /\ d * y3 \in Int /\ e * y4 \in Int /\ s * a \in Int
      /\ s * S1 \in Int /\ s * rp \in Int /\ M5 * y5 \in Int
  <2> HIDE DEF d, e, a, b, c
  <2> QED
    BY <1>0, <1>1, Z3
<1>3. Cong(b, c)
  <2> DEFINE f == s * rp
             g == M5 * y5
  <2>1. f \in Int /\ g \in Int /\ V \in Int /\ v \in Int /\ Cong(V, v)
    BY <1>0, <1>2 DEF Encrypts
  <2> HIDE DEF f, g
  <2>2. Cong(f, f) /\ Cong(g, g)
    BY <2>1, CongRefl
  <2>3. Cong(f + V, f + v)
    BY <2>1, <2>2, CongAdd
  <2>4. f + V \in Int /\ f + v \in Int
    BY <2>1
  <2>5. Cong((f + V) + g, (f + v) + g)
    BY <2>1, <2>2, <2>3, <2>4, CongAdd
  <2> QED
    BY <2>5 DEF f, g
<1>4. Cong(D2, d) /\ Cong(E2, e) /\ Cong(S1, a) /\ Cong(S2, b + D2 * y3 + E2 * y4)
  BY Zenon DEF Encrypts
<1>5. (c + d * y3 + e * y4) - s * a = v + M3 * y3 + M4 * y4 + M5 * y5
  BY <1>0, Z3
<1> HIDE DEF a, b, c, d, e
<1>6. Cong(D2 * y3, d * y3) /\ Cong(E2 * y4, e * y4) /\ Cong(s * S1, s * a)
  BY <1>0, <1>1, <1>4, CongRefl, CongMul
<1> DEFINE p == D2 * y3
           q == E2 * y4
           dp == d * y3
           eq == e * y4
           l == s * S1
           m == s * a
<1>7. p \in Int /\ q \in Int /\ dp \in Int /\ eq \in Int /\ l \in Int /\ m \in Int
      /\ S2 \in Int
  BY <1>0, <1>2
<1>8. Cong(p, dp) /\ Cong(q, eq) /\ Cong(l, m) /\ Cong(S2, b + p + q)
  BY <1>4, <1>6
<1>9. (c + dp + eq) - m = v + M3 * y3 + M4 * y4 + M5 * y5
  BY <1>5
<1> HIDE DEF p, q, dp, eq, l, m
<1>10. Cong(b + p, c + dp) /\ b + p \in Int /\ c + dp \in Int
  BY <1>1, <1>3, <1>7, <1>8, CongAdd
<1> DEFINE bp == b + p
           cp == c + dp
<1>11. bp \in Int /\ cp \in Int /\ Cong(bp, cp) /\ Cong(S2, bp + q)
       /\ (cp + eq) - m = v + M3 * y3 + M4 * y4 + M5 * y5
  BY <1>8, <1>9, <1>10
<1>14. Cong(q, eq) /\ Cong(l, m) /\ q \in Int /\ eq \in Int /\ l \in Int /\ m \in Int /\ S2 \in Int
  BY <1>7, <1>8
<1> HIDE DEF bp, cp
<1>15. Cong(bp + q, cp + eq)
  BY <1>11, <1>14, CongAdd
<1>16. bp + q \in Int /\ cp + eq \in Int
  BY <1>11, <1>14
<1> DEFINE bq == bp + q
           ce == cp + eq
<1>17. bq \in Int /\ ce \in Int /\ Cong(bq, ce) /\ Cong(S2, bq)
       /\ ce - m = v + M3 * y3 + M4 * y4 + M5 * y5
  BY <1>11, <1>15, <1>16
<1> HIDE DEF bq, ce
<1>12. Cong(S2, ce)
  BY <1>14, <1>17, CongTrans
<1>13. Cong(S2 - l, ce - m)
  BY <1>12, <1>14, <1>17, CongSub
<1> QED
  BY <1>13, <1>17 DEF l

\* A profile key that was encrypted with the key of a client.
IsEncrypted(r, s, p) ==
  /\ s \in NonZero /\ r.publicKey = s /\ r.D1 \in NonZero /\ r.E1 \in NonZero
  /\ r.D2 = (r.D1 * s + p.M3) % Q /\ r.E2 = (r.E1 * s + p.M4) % Q
  /\ p.M3 \in Int /\ p.M4 \in Int

\* Its parts are numbers.
LEMMA EncryptedIs ==
  ASSUME NEW r, NEW s, NEW p, IsEncrypted(r, s, p)
  PROVE  /\ s \in Int /\ r.D1 \in Int /\ r.E1 \in Int /\ r.D2 \in Int /\ r.E2 \in Int
         /\ Cong(r.D2, r.D1 * s + p.M3) /\ Cong(r.E2, r.E1 * s + p.M4)
<1> DEFINE a == r.D1 * s + p.M3
           b == r.E1 * s + p.M4
<1>1. s \in Int /\ r.D1 \in Int /\ r.E1 \in Int /\ p.M3 \in Int /\ p.M4 \in Int
  BY NonZeroIs DEF IsEncrypted
<1>2. a \in Int /\ b \in Int
  BY <1>1
<1>3. r.D2 = a % Q /\ r.E2 = b % Q
  BY DEF IsEncrypted
<1> HIDE DEF a, b
<1>4. a % Q \in Int /\ b % Q \in Int /\ Cong(a % Q, a) /\ Cong(b % Q, b)
  BY <1>2, CongMod, QAssumption
<1> QED
  BY <1>1, <1>3, <1>4 DEF a, b

\* What is blinded by ProfileKeyCredentialResponse.c is the credential, for the client.
LEMMA BlindDecrypts ==
  ASSUME NEW key, NEW G, IsKey(key, 5, G), NEW r, NEW s, NEW p, IsEncrypted(r, s, p),
         NEW t \in Int, NEW U \in Int, NEW M, IsAttributes(M, 2), NEW M5 \in Int, NEW rp \in Int
  PROVE  LET b == Z!Blind(key, r, Z!PrepareV(key, t, U, M), rp, M5) IN
         (b.S2 - s * b.S1) % Q = Z!PrepareV(key, t, U, M \o <<p.M3, p.M4, M5>>)
<1> DEFINE V == Z!PrepareV(key, t, U, M)
           b == Z!Blind(key, r, V, rp, M5)
           all == M \o <<p.M3, p.M4, M5>>
           W == Z!PrepareV(key, t, U, all)
           base == key.W + U * (key.x0 + key.x1 * t)
           D1 == r.D1    D2 == r.D2    E1 == r.E1    E2 == r.E2
           M1 == M[1]    M2 == M[2]    M3 == p.M3    M4 == p.M4
           y1 == key.y[1]    y2 == key.y[2]    y3 == key.y[3]    y4 == key.y[4]    y5 == key.y[5]
<1>1. /\ s \in Int /\ D1 \in Int /\ E1 \in Int /\ D2 \in Int /\ E2 \in Int
      /\ Cong(D2, D1 * s + M3) /\ Cong(E2, E1 * s + M4)
  BY EncryptedIs
<1>2. M3 \in Int /\ M4 \in Int /\ r.publicKey = s
  BY DEF IsEncrypted
<1>3. key.y \in Seq(NonZero) /\ Len(key.y) = 5 /\ key.W \in Int /\ key.x0 \in Int /\ key.x1 \in Int
  BY NonZeroIs DEF IsKey
<1>4. y1 \in Int /\ y2 \in Int /\ y3 \in Int /\ y4 \in Int /\ y5 \in Int
  <2>1. \A i \in 1..5 : key.y[i] \in NonZero
    BY <1>3, SeqIsFunction
  <2> QED
    BY <2>1, NonZeroIs
<1>5. base \in Int
  BY <1>3
<1>6. M1 \in Int /\ M2 \in Int /\ M \in Seq(Int)
  BY ElementType DEF IsAttributes
<1>7. /\ all \in Seq(Int) /\ Len(all) = 5
      /\ all[1] = M1 /\ all[2] = M2 /\ all[3] = M3 /\ all[4] = M4 /\ all[5] = M5
  <2> DEFINE u == <<p.M3, p.M4, M5>>
  <2>1. u \in Seq(Int) /\ u[1] = M3 /\ u[2] = M4 /\ u[3] = M5
    BY <1>2
  <2>2. Len(u) = 3 /\ Len(M) = 2
    BY DEF IsAttributes
  <2> HIDE DEF u
  <2>3. /\ M \o u \in Seq(Int) /\ Len(M \o u) = Len(M) + Len(u)
        /\ \A i \in 1..Len(M) : (M \o u)[i] = M[i]
        /\ \A i \in 1..Len(u) : (M \o u)[Len(M) + i] = u[i]
    <3>1. M \in Seq(Int) /\ u \in Seq(Int)
      BY <1>6, <2>1
    <3> QED
      BY <3>1, ConcatIs, SMTT(60)
  <2> DEFINE v == M \o u
             m == Len(M)
             n == Len(u)
  <2>4. /\ v \in Seq(Int) /\ Len(v) = m + n /\ m = 2 /\ n = 3
        /\ (\A i \in 1..m : v[i] = M[i]) /\ \A i \in 1..n : v[m + i] = u[i]
    BY <2>2, <2>3
  <2> HIDE DEF v, m, n
  <2>5. \A i \in {1, 2} : v[i] = M[i]
    BY <2>4
  <2>6. \A i \in {1, 2, 3} : v[2 + i] = u[i]
    BY <2>4
  <2>7. v[1] = M[1] /\ v[2] = M[2] /\ v[3] = u[1] /\ v[4] = u[2] /\ v[5] = u[3]
    BY <2>5, <2>6
  <2>8. Len(v) = 5
    BY <2>4
  <2>9. all = v
    BY DEF u, v
  <2> HIDE DEF all
  <2> QED
    BY <2>1, <2>4, <2>7, <2>8, <2>9
<1> HIDE DEF all
<1>24. all[1] = M1 /\ all[2] = M2 /\ all[3] = M3 /\ all[4] = M4 /\ all[5] = M5
  BY <1>7
<1>25. IsAttributes(all, 5) /\ IsAttributes(M, 2)
  BY <1>7 DEF IsAttributes
<1> DEFINE a1 == M1 * y1
           a2 == M2 * y2
           a3 == M3 * y3
           a4 == M4 * y4
           a5 == M5 * y5
<1>8. Z!Sum(Shares(M, key.y, 2)) = a1 + a2
  <2> DEFINE f == Shares(M, key.y, 2)
  <2>1. f \in Seq(Int) /\ Len(f) = 2
    <3>1. 2 <= Len(key.y)
      BY <1>3
    <3> QED
      BY <1>3, <1>25, <3>1, SharesType
  <2>2. f[1] = a1 /\ f[2] = a2
    BY DEF Shares
  <2> HIDE DEF f, a1, a2
  <2> QED
    BY <2>1, <2>2, SumShort DEF f
<1>9. Z!Sum(Shares(all, key.y, 5)) = a1 + a2 + a3 + a4 + a5
  <2> DEFINE f == Shares(all, key.y, 5)
  <2>1. f \in Seq(Int) /\ Len(f) = 5
    <3>1. 5 <= Len(key.y)
      BY <1>3
    <3> QED
      BY <1>3, <1>25, <3>1, SharesType
  <2>2. f[1] = a1 /\ f[2] = a2 /\ f[3] = a3 /\ f[4] = a4 /\ f[5] = a5
    BY <1>24 DEF Shares
  <2> HIDE DEF f, a1, a2, a3, a4, a5
  <2> QED
    BY <2>1, <2>2, SumLong DEF f
<1> DEFINE v == base + (a1 + a2)
           w == base + (a1 + a2 + a3 + a4 + a5)
<1>10. V \in 0..(Q - 1) /\ Cong(V, v) /\ v \in Int
  <2>1. 2 <= 5
    OBVIOUS
  <2> QED
    BY <1>8, <2>1, PreparedIs
<1>11. W \in 0..(Q - 1) /\ Cong(W, w) /\ w \in Int
  <2>1. 5 <= 5
    OBVIOUS
  <2> QED
    BY <1>9, <1>25, <2>1, PreparedIs
<1> DEFINE e1 == rp + D1 * y3 + E1 * y4
           e2 == s * rp + V + M5 * y5 + D2 * y3 + E2 * y4
<1>12. b.S1 = e1 % Q /\ b.S2 = e2 % Q
  BY <1>2 DEF Z!Blind
<1> DEFINE S1 == b.S1
           S2 == b.S2
<1> HIDE DEF S1, S2, b, V, W, D1, D2, E1, E2, M1, M2, M3, M4, y1, y2, y3, y4, y5, base
<1>13. V \in Int /\ W \in Int /\ W % Q = W
  BY <1>10, <1>11, QAssumption
<1>14. w = v + a3 + a4 + a5
  <2>1. a1 \in Int /\ a2 \in Int /\ a3 \in Int /\ a4 \in Int /\ a5 \in Int
    BY <1>2, <1>4, <1>6
  <2> HIDE DEF a1, a2, a3, a4, a5
  <2> QED
    BY <1>5, <2>1
<1>15. e1 \in Int /\ e2 \in Int
  BY <1>1, <1>4, <1>13
<1>16. S1 = e1 % Q /\ S2 = e2 % Q
  BY <1>12 DEF S1, S2
<1> HIDE DEF v, w
<1>17. S1 \in Int /\ S2 \in Int /\ Cong(S1, e1) /\ Cong(S2, e2)
  <2> HIDE DEF e1, e2
  <2>1. e1 % Q \in Int /\ e2 % Q \in Int /\ Cong(e1 % Q, e1) /\ Cong(e2 % Q, e2)
    BY <1>15, CongMod, QAssumption
  <2> QED
    BY <1>16, <2>1
<1>18. Cong(S2 - s * S1, v + a3 + a4 + a5)
  <2>1. Encrypts(s, rp, V, v, D1, E1, D2, E2, M3, M4, M5, y3, y4, y5, S1, S2)
    <3>1. Cong(S1, rp + D1 * y3 + E1 * y4)
          /\ Cong(S2, s * rp + V + M5 * y5 + D2 * y3 + E2 * y4)
      BY <1>17
    <3> HIDE DEF e1, e2
    <3> QED
      BY <1>1, <1>2, <1>4, <1>10, <1>13, <1>17, <3>1, Zenon DEF Encrypts
  <2> QED
    BY <2>1, Decrypting
<1> HIDE DEF a1, a2, a3, a4, a5, e1, e2
<1>19. Cong(S2 - s * S1, w)
  BY <1>14, <1>18
<1>20. s * S1 \in Int /\ S2 - s * S1 \in Int
  BY <1>1, <1>17
<1>21. Cong(w, W)
  BY <1>11, <1>13, CongSym
<1>22. Cong(S2 - s * S1, W)
  BY <1>11, <1>13, <1>19, <1>20, <1>21, CongTrans
<1>23. (S2 - s * S1) % Q = W % Q
  BY <1>13, <1>20, <1>22, CongSame
<1> QED
  BY <1>13, <1>23 DEF S1, S2, b, V, W, all, M3, M4


(***************************************************************************)
(* The equations of lib/protocol                                           *)
(***************************************************************************)

\* Names of scalars, of which there are not more than Sho draws.
ScalarList == <<"w", "wprime", "x0", "x1", "y1", "y2", "y3", "y4", "y5", "rprime",
                "y", "r1", "r2", "j3">>
ScalarSet == {ScalarList[i] : i \in 1..14}

\* A statement has no more scalars than Sho draws nonces.
LEMMA FewScalars ==
  ASSUME NEW names \in UniqueNames, Names(names) \subseteq ScalarSet
  PROVE  DOMAIN names \subseteq 1..17
<1>1. Len(names) \in Nat /\ DOMAIN names = 1..Len(names)
  BY SeqIsFunction DEF UniqueNames
<1>2. IsFiniteSet(ScalarSet) /\ Cardinality(ScalarSet) <= 14
  <2> DEFINE f == [i \in 1..14 |-> ScalarList[i]]
  <2>1. f \in Surjection(1..14, ScalarSet)
    BY DEF ScalarSet, Surjection
  <2>2. IsFiniteSet(1..14) /\ Cardinality(1..14) = 14
    <3>1. \A n \in Nat : n >= 1 => IsFiniteSet(1..n) /\ Cardinality(1..n) = n
      BY FS_Interval
    <3>2. 14 \in Nat /\ 14 >= 1
      OBVIOUS
    <3> QED
      BY <3>1, <3>2, Zenon
  <2> HIDE DEF f
  <2> QED
    BY <2>1, <2>2, FS_Surjection
<1> DEFINE g == [i \in 1..Len(names) |-> names[i]]
<1>3. g \in Injection(1..Len(names), ScalarSet)
  <2>1. \A i \in 1..Len(names) : names[i] \in ScalarSet
    BY <1>1 DEF Names
  <2>2. \A i, j \in 1..Len(names) : names[i] = names[j] => i = j
    BY <1>1 DEF UniqueNames
  <2>3. g \in [1..Len(names) -> ScalarSet]
    BY <2>1
  <2>4. IsInjective(g)
    BY <2>2 DEF IsInjective
  <2> QED
    BY <2>3, <2>4 DEF Injection
<1> HIDE DEF g
<1>4. Cardinality(1..Len(names)) <= Cardinality(ScalarSet)
  BY <1>2, <1>3, FS_Injection
<1>5. Len(names) >= 1 => Cardinality(1..Len(names)) = Len(names)
  BY <1>1, FS_Interval
<1>6. Cardinality(ScalarSet) \in Nat
  BY <1>2, FS_CardinalityType
<1>7. Len(names) <= 14
  BY <1>1, <1>2, <1>4, <1>5, <1>6
<1> QED
  BY <1>1, <1>7

\* The names of an equation, and those of a list of three, four and six.
RowScalars(e) == {e.rhs[j][1] : j \in 1..Len(e.rhs)}
RowPoints(e) == {e.lhs} \cup {e.rhs[j][2] : j \in 1..Len(e.rhs)}

\* The names in a list of equations are those of its equations.
LEMMA RowNames ==
  ASSUME NEW eqs \in Seq(Equations)
  PROVE  /\ AllScalars(eqs) = UNION {RowScalars(eqs[k]) : k \in 1..Len(eqs)}
         /\ AllPoints(eqs) = {"G"} \cup UNION {RowPoints(eqs[k]) : k \in 1..Len(eqs)}
<1>1. \A k \in 1..Len(eqs) : eqs[k] \in Equations
  BY SeqIsFunction
<1>2. ASSUME NEW e \in Equations
      PROVE  e.lhs \in Identifiers /\ \A j \in 1..Len(e.rhs) :
               e.rhs[j][1] \in Identifiers /\ e.rhs[j][2] \in Identifiers
  <2>1. e.lhs \in Identifiers /\ e.rhs \in Seq(Identifiers \X Identifiers)
    BY DEF Equations
  <2>2. \A j \in 1..Len(e.rhs) : e.rhs[j] \in Identifiers \X Identifiers
    BY <2>1, SeqIsFunction
  <2> QED
    BY <2>1, <2>2
<1>3. AllScalars(eqs) = UNION {RowScalars(eqs[k]) : k \in 1..Len(eqs)}
  BY <1>1, <1>2 DEF AllScalars, ScalarNames, RowScalars
<1>4. PointNames(eqs, Len(eqs)) = UNION {RowPoints(eqs[k]) : k \in 1..Len(eqs)}
  <2>1. ASSUME NEW x \in PointNames(eqs, Len(eqs))
        PROVE  \E k \in 1..Len(eqs) : x \in RowPoints(eqs[k])
    BY DEF PointNames, RowPoints
  <2>2. ASSUME NEW k \in 1..Len(eqs), NEW x \in RowPoints(eqs[k])
        PROVE  x \in PointNames(eqs, Len(eqs))
    BY <1>1, <1>2 DEF PointNames, RowPoints
  <2> QED
    BY <2>1, <2>2
<1> QED
  BY <1>3, <1>4 DEF AllPoints

\* For three equations.
LEMMA NamesOfThree ==
  ASSUME NEW eqs \in Seq(Equations), Len(eqs) = 3
  PROVE  /\ AllScalars(eqs) = RowScalars(eqs[1]) \cup RowScalars(eqs[2]) \cup RowScalars(eqs[3])
         /\ AllPoints(eqs) =
              {"G"} \cup RowPoints(eqs[1]) \cup RowPoints(eqs[2]) \cup RowPoints(eqs[3])
<1>1. 1..Len(eqs) = {1, 2, 3}
  OBVIOUS
<1>2. /\ AllScalars(eqs) = UNION {RowScalars(eqs[k]) : k \in {1, 2, 3}}
      /\ AllPoints(eqs) = {"G"} \cup UNION {RowPoints(eqs[k]) : k \in {1, 2, 3}}
  BY <1>1, RowNames
<1> QED
  BY <1>2

\* For four.
LEMMA NamesOfFour ==
  ASSUME NEW eqs \in Seq(Equations), Len(eqs) = 4
  PROVE  /\ AllScalars(eqs) = RowScalars(eqs[1]) \cup RowScalars(eqs[2]) \cup RowScalars(eqs[3])
                                \cup RowScalars(eqs[4])
         /\ AllPoints(eqs) =
              {"G"} \cup RowPoints(eqs[1]) \cup RowPoints(eqs[2]) \cup RowPoints(eqs[3])
                \cup RowPoints(eqs[4])
<1>1. 1..Len(eqs) = {1, 2, 3, 4}
  OBVIOUS
<1>2. /\ AllScalars(eqs) = UNION {RowScalars(eqs[k]) : k \in {1, 2, 3, 4}}
      /\ AllPoints(eqs) = {"G"} \cup UNION {RowPoints(eqs[k]) : k \in {1, 2, 3, 4}}
  BY <1>1, RowNames
<1> QED
  BY <1>2

\* For six.
LEMMA NamesOfSix ==
  ASSUME NEW eqs \in Seq(Equations), Len(eqs) = 6
  PROVE  /\ AllScalars(eqs) = RowScalars(eqs[1]) \cup RowScalars(eqs[2]) \cup RowScalars(eqs[3])
                                \cup RowScalars(eqs[4]) \cup RowScalars(eqs[5]) \cup RowScalars(eqs[6])
         /\ AllPoints(eqs) =
              {"G"} \cup RowPoints(eqs[1]) \cup RowPoints(eqs[2]) \cup RowPoints(eqs[3])
                \cup RowPoints(eqs[4]) \cup RowPoints(eqs[5]) \cup RowPoints(eqs[6])
<1>1. 1..Len(eqs) = {1, 2, 3, 4, 5, 6}
  OBVIOUS
<1>2. /\ AllScalars(eqs) = UNION {RowScalars(eqs[k]) : k \in {1, 2, 3, 4, 5, 6}}
      /\ AllPoints(eqs) = {"G"} \cup UNION {RowPoints(eqs[k]) : k \in {1, 2, 3, 4, 5, 6}}
  BY <1>1, RowNames
<1> QED
  BY <1>2

\* Terms that begin with some and go on with the attributes of a key.
Terms(u, names, n) == u \o [i \in 1..n |-> <<Z!Y[i], names[i]>>]
IsRow(u, m) == u \in Seq(Identifiers \X Identifiers) /\ Len(u) = m /\ m \in Nat

\* Which terms these are.
LEMMA TermsAre ==
  ASSUME NEW names \in NameLists, NEW n \in 1..5, NEW u, NEW m, IsRow(u, m)
  PROVE  LET t == Terms(u, names, n) IN
         /\ IsRow(t, m + n)
         /\ \A i \in 1..m : t[i] = u[i]
         /\ \A i \in 1..n : t[m + i] = <<Z!Y[i], names[i]>>
<1> DEFINE v == [i \in 1..n |-> <<Z!Y[i], names[i]>>]
<1>1. u \in Seq(Identifiers \X Identifiers) /\ Len(u) = m /\ m \in Nat
  BY DEF IsRow
<1>2. n \in Nat /\ \A i \in 1..n : i \in 1..5
  OBVIOUS
<1>3. v \in [1..n -> Identifiers \X Identifiers] /\ \A i \in 1..n : v[i] = <<Z!Y[i], names[i]>>
  <2>1. \A i \in 1..n : Z!Y[i] \in Identifiers /\ names[i] \in Identifiers
    BY <1>2, NameListsAre DEF NameLists
  <2> QED
    BY <2>1
<1> HIDE DEF v
<1>4. v \in Seq(Identifiers \X Identifiers) /\ Len(v) = n
  BY <1>2, <1>3, FunctionIsSequence
<1>5. /\ u \o v \in Seq(Identifiers \X Identifiers) /\ Len(u \o v) = Len(u) + Len(v)
      /\ \A i \in 1..Len(u) : (u \o v)[i] = u[i]
      /\ \A i \in 1..Len(v) : (u \o v)[Len(u) + i] = v[i]
  BY <1>1, <1>4, ConcatIs
<1>6. Terms(u, names, n) = u \o v
  BY DEF Terms, v
<1> DEFINE t == u \o v
<1> HIDE DEF t
<1>7. /\ t \in Seq(Identifiers \X Identifiers) /\ Len(t) = m + n /\ m + n \in Nat
      /\ \A i \in 1..m : t[i] = u[i]
      /\ \A i \in 1..n : t[m + i] = <<Z!Y[i], names[i]>>
  BY <1>1, <1>2, <1>3, <1>4, <1>5 DEF t
<1> QED
  BY <1>6, <1>7 DEF t, IsRow

\* Their names.
LEMMA TermNames ==
  ASSUME NEW names \in NameLists, NEW n \in 1..5, NEW u, NEW m, IsRow(u, m), NEW l
  PROVE  LET e == Z!Equation(l, Terms(u, names, n)) IN
         /\ RowScalars(e) = {u[j][1] : j \in 1..m} \cup NamesTo(Z!Y, n)
         /\ RowPoints(e) = {l} \cup {u[j][2] : j \in 1..m} \cup NamesTo(names, n)
<1> DEFINE t == Terms(u, names, n)
           e == Z!Equation(l, t)
<1>1. /\ Len(t) = m + n /\ m \in Nat /\ n \in Nat
      /\ \A i \in 1..m : t[i] = u[i]
      /\ \A i \in 1..n : t[m + i] = <<Z!Y[i], names[i]>>
  <2>1. /\ IsRow(t, m + n)
        /\ \A i \in 1..m : t[i] = u[i]
        /\ \A i \in 1..n : t[m + i] = <<Z!Y[i], names[i]>>
    BY TermsAre
  <2> HIDE DEF t
  <2>2. m \in Nat /\ n \in Nat /\ Len(t) = m + n
    BY <2>1 DEF IsRow
  <2> QED
    BY <2>1, <2>2
<1>2. e.lhs = l /\ e.rhs = t
  BY DEF Z!Equation
<1> HIDE DEF t, e
<1>3. ASSUME NEW j \in 1..(m + n)
      PROVE  j \in 1..m \/ \E i \in 1..n : j = m + i
  <2>1. CASE j <= m
    BY <1>1, <2>1
  <2>2. CASE j > m
    <3>1. j - m \in 1..n /\ j = m + (j - m)
      BY <1>1, <2>2
    <3> QED
      BY <3>1
  <2> QED
    BY <1>1, <2>1, <2>2
<1>4. \A j \in 1..m : j \in 1..(m + n)
  BY <1>1
<1>5. \A i \in 1..n : m + i \in 1..(m + n)
  BY <1>1
<1>6. \A i \in 1..n : t[m + i][1] = Z!Y[i] /\ t[m + i][2] = names[i]
  BY <1>1
<1>7. {t[j][1] : j \in 1..(m + n)} = {u[j][1] : j \in 1..m} \cup NamesTo(Z!Y, n)
  <2>1. ASSUME NEW j \in 1..(m + n)
        PROVE  t[j][1] \in {u[k][1] : k \in 1..m} \cup NamesTo(Z!Y, n)
    BY <1>1, <1>3, <1>6 DEF NamesTo
  <2>2. ASSUME NEW j \in 1..m PROVE u[j][1] \in {t[k][1] : k \in 1..(m + n)}
    BY <1>1, <1>4
  <2>3. ASSUME NEW i \in 1..n PROVE Z!Y[i] \in {t[k][1] : k \in 1..(m + n)}
    BY <1>5, <1>6
  <2> QED
    BY <2>1, <2>2, <2>3 DEF NamesTo
<1>8. {t[j][2] : j \in 1..(m + n)} = {u[j][2] : j \in 1..m} \cup NamesTo(names, n)
  <2>1. ASSUME NEW j \in 1..(m + n)
        PROVE  t[j][2] \in {u[k][2] : k \in 1..m} \cup NamesTo(names, n)
    BY <1>1, <1>3, <1>6 DEF NamesTo
  <2>2. ASSUME NEW j \in 1..m PROVE u[j][2] \in {t[k][2] : k \in 1..(m + n)}
    BY <1>1, <1>4
  <2>3. ASSUME NEW i \in 1..n PROVE names[i] \in {t[k][2] : k \in 1..(m + n)}
    BY <1>5, <1>6
  <2> QED
    BY <2>1, <2>2, <2>3 DEF NamesTo
<1>9. RowScalars(e) = {t[j][1] : j \in 1..(m + n)}
      /\ RowPoints(e) = {l} \cup {t[j][2] : j \in 1..(m + n)}
  BY <1>1, <1>2 DEF RowScalars, RowPoints
<1> QED
  BY <1>7, <1>8, <1>9 DEF e, t


(***************************************************************************)
(* The values that credentials are proved with                             *)
(***************************************************************************)

\* The equations of KeyEquations() and MacStatement().
KeyTerms == <<<<"x0", "G_x0">>, <<"x1", "G_x1">>>>
TagTerms == <<<<"w", "G_w">>, <<"x0", "U">>, <<"x1", "tU">>>>
Published == Z!Equation("C_W", <<<<"w", "G_w">>, <<"wprime", "G_wprime">>>>)
Issuing(n) == Z!Equation("G_V_I", Terms(KeyTerms, Z!GY, n))
Tag(n) == Z!Equation("V", Terms(TagTerms, Z!MM, n))
MacEquations(n) == Z!KeyEquations(n) \o <<Tag(n)>>

\* Which names occur in them.
LEMMA RowsAre ==
  /\ IsRow(KeyTerms, 2) /\ IsRow(TagTerms, 3) /\ Published \in Equations
  /\ {KeyTerms[j][1] : j \in 1..2} = {"x0", "x1"}
  /\ {KeyTerms[j][2] : j \in 1..2} = {"G_x0", "G_x1"}
  /\ {TagTerms[j][1] : j \in 1..3} = {"w", "x0", "x1"}
  /\ {TagTerms[j][2] : j \in 1..3} = {"G_w", "U", "tU"}
  /\ RowScalars(Published) = {"w", "wprime"}
  /\ RowPoints(Published) = {"C_W", "G_w", "G_wprime"}
<1>1. \A x \in {"w", "wprime", "x0", "x1", "G_w", "G_wprime", "C_W", "G_x0", "G_x1", "U", "tU"} :
        x \in Identifiers
  BY DEF Identifiers
<1>2. 1..2 = {1, 2} /\ 1..3 = {1, 2, 3}
  OBVIOUS
<1> DEFINE u == <<<<"w", "G_w">>, <<"wprime", "G_wprime">>>>
<1>3. u \in Seq(Identifiers \X Identifiers) /\ Len(u) = 2
  BY <1>1
<1>4. IsRow(KeyTerms, 2)
  BY <1>1 DEF KeyTerms, IsRow
<1>5. IsRow(TagTerms, 3)
  BY <1>1 DEF TagTerms, IsRow
<1>6. Published = [lhs |-> "C_W", rhs |-> u]
  BY DEF Published, Z!Equation
<1>7. /\ {KeyTerms[j][1] : j \in 1..2} = {"x0", "x1"}
      /\ {KeyTerms[j][2] : j \in 1..2} = {"G_x0", "G_x1"}
  BY <1>2 DEF KeyTerms
<1>8. /\ {TagTerms[j][1] : j \in 1..3} = {"w", "x0", "x1"}
      /\ {TagTerms[j][2] : j \in 1..3} = {"G_w", "U", "tU"}
  BY <1>2 DEF TagTerms
<1>9. {u[j][1] : j \in 1..2} = {"w", "wprime"} /\ {u[j][2] : j \in 1..2} = {"G_w", "G_wprime"}
  BY <1>2
<1> HIDE DEF u
<1>10. Published \in Equations /\ RowScalars(Published) = {u[j][1] : j \in 1..2}
       /\ RowPoints(Published) = {"C_W"} \cup {u[j][2] : j \in 1..2}
  BY <1>1, <1>3, <1>6 DEF Equations, RowScalars, RowPoints
<1> QED
  BY <1>4, <1>5, <1>7, <1>8, <1>9, <1>10

\* The lists of equations.
LEMMA MacEquationsAre ==
  ASSUME NEW n \in 1..5
  PROVE  /\ Issuing(n) \in Equations /\ Tag(n) \in Equations
         /\ Z!KeyEquations(n) = <<Published, Issuing(n)>>
         /\ Z!MacStatement(n) = Z!Statement(MacEquations(n))
         /\ MacEquations(n) \in Seq(Equations) /\ Len(MacEquations(n)) = 3
         /\ MacEquations(n)[1] = Published /\ MacEquations(n)[2] = Issuing(n)
         /\ MacEquations(n)[3] = Tag(n)
<1>1. Z!KeyEquations(n) = <<Published, Issuing(n)>>
  BY DEF Z!KeyEquations, Published, Issuing, Terms, KeyTerms
<1>2. Z!MacStatement(n) = Z!Statement(MacEquations(n))
  BY DEF Z!MacStatement, MacEquations, Tag, Terms, TagTerms
<1>3. Z!GY \in NameLists /\ Z!MM \in NameLists
  BY DEF NameLists
<1>4. IsRow(Terms(KeyTerms, Z!GY, n), 2 + n) /\ IsRow(Terms(TagTerms, Z!MM, n), 3 + n)
  BY <1>3, RowsAre, TermsAre
<1>5. Issuing(n) \in Equations /\ Tag(n) \in Equations
  <2>1. "G_V_I" \in Identifiers /\ "V" \in Identifiers
    BY DEF Identifiers
  <2> QED
    BY <1>4, <2>1 DEF Issuing, Tag, Z!Equation, Equations, IsRow
<1>6. Published \in Equations
  BY RowsAre
<1> DEFINE u == <<Published, Issuing(n)>>
           v == <<Tag(n)>>
<1>7. MacEquations(n) = u \o v
  BY <1>1 DEF MacEquations
<1>8. u \in Seq(Equations) /\ v \in Seq(Equations)
  BY <1>5, <1>6
<1>9. Len(u) = 2 /\ Len(v) = 1
  OBVIOUS
<1>10. u[1] = Published /\ u[2] = Issuing(n) /\ v[1] = Tag(n)
  OBVIOUS
<1> HIDE DEF u, v
<1>11. /\ u \o v \in Seq(Equations) /\ Len(u \o v) = Len(u) + Len(v)
       /\ \A i \in 1..Len(u) : (u \o v)[i] = u[i]
       /\ \A i \in 1..Len(v) : (u \o v)[Len(u) + i] = v[i]
  BY <1>8, ConcatIs
<1> DEFINE w == u \o v
<1> HIDE DEF w
<1>12. w \in Seq(Equations) /\ Len(w) = 3 /\ w[1] = u[1] /\ w[2] = u[2] /\ w[3] = v[1]
  BY <1>9, <1>11 DEF w
<1> QED
  BY <1>1, <1>2, <1>5, <1>7, <1>10, <1>12 DEF w

\* What the scalars and the points of a key are.
KeyValues(a, key, n) ==
  /\ a["w"] = key.w /\ a["wprime"] = key.wprime /\ a["x0"] = key.x0 /\ a["x1"] = key.x1
  /\ \A i \in 1..n : a[Z!Y[i]] = key.y[i]

\* The points of KeyPoints().
KeyPointValues(P, key, G, n) ==
  /\ P["C_W"] = key.C_W /\ P["G_w"] = G[1] /\ P["G_wprime"] = G[2]
  /\ P["G_V_I"] = (G[16] - key.I) % Q /\ P["G_x0"] = G[3] /\ P["G_x1"] = G[4]
  /\ \A i \in 1..n : P[Z!GY[i]] = G[4 + i]

\* The scalars are those of the key.
LEMMA KeyScalarsAre ==
  ASSUME NEW key, NEW size \in Nat, NEW G, IsKey(key, size, G), NEW n \in 1..5, n <= size
  PROVE  /\ DOMAIN Z!KeyScalars(key, n) = {"w", "wprime", "x0", "x1"} \cup NamesTo(Z!Y, n)
         /\ KeyValues(Z!KeyScalars(key, n), key, n)
<1> DEFINE f == [w |-> key.w, wprime |-> key.wprime, x0 |-> key.x0, x1 |-> key.x1]
           y == SubSeq(key.y, 1, n)
           g == Z!Numbered(Z!Y, y)
<1>1. Z!KeyScalars(key, n) = Z!Join(f, g)
  BY DEF Z!KeyScalars
<1>2. key.y \in Seq(NonZero) /\ Len(key.y) = size
  BY DEF IsKey
<1>3. y \in Seq(NonZero) /\ Len(y) = n /\ \A i \in 1..n : y[i] = key.y[i]
  <2>1. 1 \in Nat /\ n \in Nat /\ 1 <= 1 /\ 1 <= n /\ n <= Len(key.y) /\ n - 1 + 1 = n
    BY <1>2
  <2>2. /\ y \in Seq(NonZero) /\ Len(y) = n - 1 + 1
        /\ \A i \in 1..(n - 1 + 1) : y[i] = key.y[1 + i - 1]
    BY <1>2, <2>1, PartIs
  <2> HIDE DEF y
  <2> QED
    BY <2>1, <2>2
<1> HIDE DEF y
<1>4. Z!Y \in NameLists
  BY DEF NameLists
<1>5. DOMAIN g = NamesTo(Z!Y, n) /\ \A i \in 1..n : g[Z!Y[i]] = y[i]
  <2> DEFINE names == Z!Y
  <2>1. names \in NameLists /\ n \in 1..5 /\ y \in Seq(NonZero) /\ Len(y) = n
        /\ g = Z!Numbered(names, y)
    BY <1>3, <1>4
  <2> HIDE DEF names, g
  <2>2. DOMAIN g = NamesTo(names, n) /\ \A i \in 1..n : g[names[i]] = y[i]
    BY <2>1, NumberedIs
  <2> QED
    BY <2>2 DEF names
<1>6. \A i \in 1..n : Z!Y[i] \in DOMAIN g
  BY <1>5 DEF NamesTo
<1>7. \A x \in {"w", "wprime", "x0", "x1"} : x \notin NamesTo(Z!Y, n)
  <2>1. \A i \in 1..n : i \in 1..5
    OBVIOUS
  <2> QED
    BY <2>1, NamesApart DEF NamesTo
<1>8. DOMAIN f = {"w", "wprime", "x0", "x1"}
      /\ f["w"] = key.w /\ f["wprime"] = key.wprime /\ f["x0"] = key.x0 /\ f["x1"] = key.x1
  OBVIOUS
<1> HIDE DEF f, g
<1>9. /\ DOMAIN Z!Join(f, g) = DOMAIN f \cup DOMAIN g
      /\ \A x \in DOMAIN g : Z!Join(f, g)[x] = g[x]
      /\ \A x \in DOMAIN f : x \notin DOMAIN g => Z!Join(f, g)[x] = f[x]
  BY JoinIs
<1> QED
  BY <1>1, <1>3, <1>5, <1>6, <1>7, <1>8, <1>9 DEF KeyValues

\* The points are those of the key and the parameters.
LEMMA KeyPointsAre ==
  ASSUME IsParams(params.cred), NEW key, NEW n \in 1..5
  PROVE  /\ DOMAIN Z!KeyPoints(key, n) =
              {"C_W", "G_w", "G_wprime", "G_V_I", "G_x0", "G_x1"} \cup NamesTo(Z!GY, n)
         /\ KeyPointValues(Z!KeyPoints(key, n), key, params.cred, n)
<1> DEFINE G == params.cred
           f == [C_W |-> key.C_W, G_w |-> G[1], G_wprime |-> G[2],
                 G_V_I |-> (G[16] - key.I) % Q, G_x0 |-> G[3], G_x1 |-> G[4]]
           y == SubSeq(G, 5, 5 + n - 1)
           g == Z!Numbered(Z!GY, y)
           names == {"C_W", "G_w", "G_wprime", "G_V_I", "G_x0", "G_x1"}
<1>1. Z!KeyPoints(key, n) = Z!Join(f, g)
  BY DEF Z!KeyPoints, Z!CRED_G_w, Z!CRED_G_wprime, Z!CRED_G_x0, Z!CRED_G_x1, Z!CRED_G_y, Z!CRED_G_V
<1>2. G \in Seq(NonZero) /\ Len(G) = 17
  BY DEF IsParams
<1>3. y \in Seq(NonZero) /\ Len(y) = n /\ \A i \in 1..n : y[i] = G[4 + i]
  <2>1. 5 \in Nat /\ 5 + n - 1 \in Nat /\ 1 <= 5 /\ 5 <= 5 + n - 1 /\ 5 + n - 1 <= Len(G)
        /\ (5 + n - 1) - 5 + 1 = n
    BY <1>2
  <2>2. /\ y \in Seq(NonZero) /\ Len(y) = (5 + n - 1) - 5 + 1
        /\ \A i \in 1..((5 + n - 1) - 5 + 1) : y[i] = G[5 + i - 1]
    BY <1>2, <2>1, PartIs
  <2> HIDE DEF y, G
  <2>3. \A i \in 1..n : 5 + i - 1 = 4 + i
    OBVIOUS
  <2> QED
    BY <2>1, <2>2, <2>3
<1> HIDE DEF y
<1>4. Z!GY \in NameLists
  BY DEF NameLists
<1>5. DOMAIN g = NamesTo(Z!GY, n) /\ \A i \in 1..n : g[Z!GY[i]] = y[i]
  BY <1>3, <1>4, NumberedIs
<1>6. \A i \in 1..n : Z!GY[i] \in DOMAIN g
  BY <1>5 DEF NamesTo
<1>7. \A x \in names : x \notin NamesTo(Z!GY, n)
  <2>1. \A i \in 1..n : i \in 1..5
    OBVIOUS
  <2> QED
    BY <2>1, NamesApart DEF NamesTo
<1>8. DOMAIN f = names
      /\ f["C_W"] = key.C_W /\ f["G_w"] = G[1] /\ f["G_wprime"] = G[2]
      /\ f["G_V_I"] = (G[16] - key.I) % Q /\ f["G_x0"] = G[3] /\ f["G_x1"] = G[4]
  OBVIOUS
<1> HIDE DEF f, g
<1>9. /\ DOMAIN Z!Join(f, g) = DOMAIN f \cup DOMAIN g
      /\ \A x \in DOMAIN g : Z!Join(f, g)[x] = g[x]
      /\ \A x \in DOMAIN f : x \notin DOMAIN g => Z!Join(f, g)[x] = f[x]
  BY JoinIs
<1> HIDE DEF G
<1>10. /\ DOMAIN Z!KeyPoints(key, n) = names \cup NamesTo(Z!GY, n)
       /\ KeyPointValues(Z!KeyPoints(key, n), key, G, n)
  BY <1>1, <1>3, <1>5, <1>6, <1>7, <1>8, <1>9 DEF KeyPointValues
<1> QED
  BY <1>10 DEF G


(***************************************************************************)
(* The equations of a key and of a credential hold                         *)
(***************************************************************************)

\* The names of terms have numbers.
RowNumbers(u, a, P) == \A i \in 1..Len(u) : P[u[i][2]] \in Int /\ a[u[i][1]] \in Int

\* The products of the terms of a row are numbers.
LEMMA RowProducts ==
  ASSUME NEW u, NEW m, IsRow(u, m), NEW a, NEW P, RowNumbers(u, a, P)
  PROVE  /\ Products(u, a, P) \in Seq(Int) /\ Len(Products(u, a, P)) = m /\ m \in Nat
         /\ \A i \in 1..m : Products(u, a, P)[i] = P[u[i][2]] * a[u[i][1]]
<1>1. m \in Nat /\ Len(u) = m
  BY DEF IsRow
<1> DEFINE f == [i \in 1..m |-> P[u[i][2]]]
           g == [i \in 1..m |-> a[u[i][1]]]
<1>2. \A i \in 1..m : f[i] \in Int /\ g[i] \in Int
  BY <1>1 DEF RowNumbers
<1>3. Products(u, a, P) = [i \in 1..m |-> f[i] * g[i]]
  BY <1>1 DEF Products
<1>4. \A i \in 1..m : Products(u, a, P)[i] = P[u[i][2]] * a[u[i][1]]
  BY <1>3
<1> HIDE DEF f, g
<1>5. Products(u, a, P) \in Seq(Int) /\ Len(Products(u, a, P)) = m
  BY <1>1, <1>2, <1>3, PairsType
<1> QED
  BY <1>1, <1>4, <1>5

\* The attributes M and the scalars y of a key, in mappings.
HasShares(M, y, n, names, a, P) ==
  \A i \in 1..n : P[names[i]] = M[i] /\ a[Z!Y[i]] = y[i] /\ M[i] \in Int /\ y[i] \in Int

\* The right hand side of an equation is that of its first terms and the shares of the
\* attributes.
LEMMA TermsSum ==
  ASSUME NEW names \in NameLists, NEW n \in 1..5, NEW u, NEW m, IsRow(u, m), NEW a, NEW P,
         RowNumbers(u, a, P), NEW M, NEW y, HasShares(M, y, n, names, a, P)
  PROVE  /\ Z!Sum(Products(Terms(u, names, n), a, P)) =
              Z!Sum(Products(u, a, P)) + Z!Sum(Shares(M, y, n))
         /\ Z!Sum(Products(u, a, P)) \in Int /\ Z!Sum(Shares(M, y, n)) \in Int
<1> DEFINE t == Terms(u, names, n)
           f == Products(u, a, P)
           g == Shares(M, y, n)
           h == Products(t, a, P)
<1>1. /\ IsRow(t, m + n)
      /\ \A i \in 1..m : t[i] = u[i]
      /\ \A i \in 1..n : t[m + i] = <<Z!Y[i], names[i]>>
  BY TermsAre
<1>2. f \in Seq(Int) /\ Len(f) = m /\ m \in Nat /\ \A i \in 1..m : f[i] = P[u[i][2]] * a[u[i][1]]
  BY RowProducts
<1> HIDE DEF t
<1>3. Len(t) = m + n /\ n \in Nat /\ m + n \in Nat /\ Len(u) = m
  BY <1>1 DEF IsRow
<1>4. \A i \in 1..n : t[m + i][1] = Z!Y[i] /\ t[m + i][2] = names[i]
  BY <1>1
<1>5. \A i \in 1..n : P[names[i]] = M[i] /\ a[Z!Y[i]] = y[i] /\ M[i] \in Int /\ y[i] \in Int
  BY DEF HasShares
<1>6. RowNumbers(t, a, P)
  <2> SUFFICES ASSUME NEW j \in 1..(m + n) PROVE P[t[j][2]] \in Int /\ a[t[j][1]] \in Int
    BY <1>3 DEF RowNumbers
  <2>1. CASE j <= m
    <3>1. j \in 1..m
      BY <1>2, <1>3, <2>1
    <3>2. P[u[j][2]] \in Int /\ a[u[j][1]] \in Int
      BY <1>3, <3>1 DEF RowNumbers
    <3> QED
      BY <1>1, <3>1, <3>2
  <2>2. CASE j > m
    <3> DEFINE i == j - m
    <3>1. i \in 1..n /\ j = m + i
      BY <1>2, <1>3, <2>2
    <3> HIDE DEF i
    <3> QED
      BY <1>4, <1>5, <3>1
  <2> QED
    BY <1>2, <1>3, <2>1, <2>2
<1>7. h \in Seq(Int) /\ Len(h) = m + n /\ \A i \in 1..(m + n) : h[i] = P[t[i][2]] * a[t[i][1]]
  BY <1>1, <1>6, RowProducts
<1>8. g \in Seq(Int) /\ Len(g) = n
  <2>1. \A i \in 1..n : M[i] \in Int /\ y[i] \in Int
    BY <1>5
  <2> QED
    BY <1>3, <2>1, PairsType DEF Shares
<1>9. \A i \in 1..n : g[i] = M[i] * y[i]
  BY DEF Shares
<1> HIDE DEF f, g, h
<1>10. ASSUME NEW i \in 1..m PROVE h[i] = f[i]
  <2>1. i \in 1..(m + n)
    BY <1>2, <1>3
  <2>2. h[i] = P[t[i][2]] * a[t[i][1]] /\ f[i] = P[u[i][2]] * a[u[i][1]] /\ t[i] = u[i]
    BY <1>1, <1>2, <1>7, <2>1
  <2> QED
    BY <2>2
<1>11. ASSUME NEW i \in 1..n PROVE h[m + i] = g[i]
  <2>1. m + i \in 1..(m + n)
    BY <1>2, <1>3
  <2> DEFINE j == m + i
  <2>2. t[j][1] = Z!Y[i] /\ t[j][2] = names[i] /\ j \in 1..(m + n)
    BY <1>4, <2>1
  <2> HIDE DEF j
  <2>3. h[j] = P[t[j][2]] * a[t[j][1]]
    BY <1>7, <2>2
  <2>4. P[names[i]] = M[i] /\ a[Z!Y[i]] = y[i] /\ g[i] = M[i] * y[i]
    BY <1>5, <1>9
  <2>5. h[j] = g[i]
    BY <2>2, <2>3, <2>4
  <2> QED
    BY <2>5 DEF j
<1>12. Z!Sum(h) = Z!Sum(f) + Z!Sum(g)
  <2>1. f \in Seq(Int) /\ Len(f) = m /\ m \in Nat
    BY <1>2
  <2>2. h \in Seq(Int) /\ Len(h) = m + n
    BY <1>7
  <2>3. n \in Nat
    BY <1>3
  <2>4. (\A i \in 1..m : h[i] = f[i]) /\ \A i \in 1..n : h[m + i] = g[i]
    BY <1>10, <1>11
  <2>5. HasParts(h, f, g, m, n)
    BY <1>8, <2>1, <2>2, <2>3, <2>4, Zenon DEF HasParts
  <2> QED
    BY <2>5, SumParts
<1>13. Z!Sum(f) \in Int /\ Z!Sum(g) \in Int
  BY <1>2, <1>8, SumType
<1> QED
  BY <1>12, <1>13 DEF f, g, h, t

\* A key and the parameters, in mappings.
KeyIn(a, P, key, size, n, G) ==
  /\ IsParams(G) /\ IsKey(key, size, G) /\ size \in 5..7 /\ n \in 1..5 /\ n <= size
  /\ KeyValues(a, key, n) /\ KeyPointValues(P, key, G, n)

\* They are numbers.
LEMMA KeyInIs ==
  ASSUME NEW a, NEW P, NEW key, NEW size, NEW n, NEW G, KeyIn(a, P, key, size, n, G)
  PROVE  /\ a["w"] \in NonZero /\ a["wprime"] \in NonZero /\ a["x0"] \in NonZero /\ a["x1"] \in NonZero
         /\ \A i \in 1..n : a[Z!Y[i]] = key.y[i] /\ key.y[i] \in NonZero
         /\ P["G_w"] \in NonZero /\ P["G_wprime"] \in NonZero
         /\ P["G_x0"] \in NonZero /\ P["G_x1"] \in NonZero /\ P["C_W"] \in Int /\ P["G_V_I"] \in Int
         /\ \A i \in 1..n : P[Z!GY[i]] = G[4 + i] /\ G[4 + i] \in NonZero
<1>1. IsParams(G) /\ IsKey(key, size, G) /\ size \in 5..7 /\ n \in 1..5 /\ n <= size
  BY DEF KeyIn
<1>2. KeyValues(a, key, n) /\ KeyPointValues(P, key, G, n)
  BY DEF KeyIn
<1>3. \A i \in 1..17 : G[i] \in NonZero
  BY <1>1, ParamIs
<1>4. G[1] \in NonZero /\ G[2] \in NonZero /\ G[3] \in NonZero /\ G[4] \in NonZero
      /\ G[16] \in NonZero
  BY <1>3
<1>5. \A i \in 1..n : G[4 + i] \in NonZero
  <2>1. \A i \in 1..n : 4 + i \in 1..17
    BY <1>1
  <2> QED
    BY <1>3, <2>1
<1>6. key.y \in Seq(NonZero) /\ Len(key.y) = size
  BY <1>1 DEF IsKey
<1>7. \A i \in 1..n : key.y[i] \in NonZero
  <2>1. \A i \in 1..n : i \in 1..Len(key.y)
    BY <1>1, <1>6
  <2> QED
    BY <1>6, <2>1, SeqIsFunction
<1>8. key.w \in NonZero /\ key.wprime \in NonZero /\ key.x0 \in NonZero /\ key.x1 \in NonZero
      /\ key.C_W \in Int /\ key.I \in Int
  BY <1>1 DEF IsKey
<1>9. (G[16] - key.I) % Q \in Int
  <2>1. G[16] \in Int
    BY <1>4, NonZeroIs
  <2>2. G[16] - key.I \in Int
    BY <1>8, <2>1
  <2> QED
    BY <2>2, QAssumption
<1>10. /\ a["w"] = key.w /\ a["wprime"] = key.wprime /\ a["x0"] = key.x0 /\ a["x1"] = key.x1
       /\ \A i \in 1..n : a[Z!Y[i]] = key.y[i]
  BY <1>2 DEF KeyValues
<1>11. /\ P["C_W"] = key.C_W /\ P["G_w"] = G[1] /\ P["G_wprime"] = G[2]
       /\ P["G_V_I"] = (G[16] - key.I) % Q /\ P["G_x0"] = G[3] /\ P["G_x1"] = G[4]
       /\ \A i \in 1..n : P[Z!GY[i]] = G[4 + i]
  BY <1>2 DEF KeyPointValues
<1> QED
  BY <1>4, <1>5, <1>7, <1>8, <1>9, <1>10, <1>11

\* The first equation: the key is the published one.
LEMMA PublishedHolds ==
  ASSUME NEW a, NEW P, NEW key, NEW size, NEW n, NEW G, KeyIn(a, P, key, size, n, G)
  PROVE  Holds(Published, a, P)
<1> DEFINE u == <<<<"w", "G_w">>, <<"wprime", "G_wprime">>>>
           f == Products(u, a, P)
<1>1. Published.lhs = "C_W" /\ Published.rhs = u
  BY DEF Published, Z!Equation
<1>2. u[1] = <<"w", "G_w">> /\ u[2] = <<"wprime", "G_wprime">>
  OBVIOUS
<1>3. IsRow(u, 2)
  <2>1. \A x \in {"w", "wprime", "G_w", "G_wprime"} : x \in Identifiers
    BY DEF Identifiers
  <2> QED
    BY <2>1 DEF IsRow
<1>4. a["w"] \in Int /\ a["wprime"] \in Int /\ P["G_w"] \in Int /\ P["G_wprime"] \in Int
  BY KeyInIs, NonZeroIs
<1> HIDE DEF u
<1>5. RowNumbers(u, a, P)
  <2>1. 1..Len(u) = {1, 2}
    BY <1>3 DEF IsRow
  <2> QED
    BY <1>2, <1>4, <2>1 DEF RowNumbers
<1>6. f \in Seq(Int) /\ Len(f) = 2 /\ \A i \in 1..2 : f[i] = P[u[i][2]] * a[u[i][1]]
  <2> DEFINE m == 2
  <2>1. IsRow(u, m)
    BY <1>3
  <2> HIDE DEF m, f
  <2>2. f \in Seq(Int) /\ Len(f) = m /\ \A i \in 1..m : f[i] = P[u[i][2]] * a[u[i][1]]
    BY <1>5, <2>1, RowProducts DEF f
  <2> QED
    BY <2>2 DEF m
<1>7. f[1] = P["G_w"] * a["w"] /\ f[2] = P["G_wprime"] * a["wprime"]
  BY <1>2, <1>6
<1>8. Z!Sum(f) = f[1] + f[2]
  <2> HIDE DEF f
  <2> QED
    BY <1>6, SumShort
<1>9. Cong(P["C_W"], P["G_w"] * a["w"] + P["G_wprime"] * a["wprime"])
  <2>1. Cong(key.C_W, G[1] * key.w + G[2] * key.wprime)
    BY DEF KeyIn, IsKey
  <2>2. P["C_W"] = key.C_W /\ P["G_w"] = G[1] /\ P["G_wprime"] = G[2]
        /\ a["w"] = key.w /\ a["wprime"] = key.wprime
    BY DEF KeyIn, KeyValues, KeyPointValues
  <2> QED
    BY <2>1, <2>2
<1> HIDE DEF f
<1>10. Cong(P["C_W"], Z!Sum(f))
  BY <1>7, <1>8, <1>9
<1> QED
  BY <1>1, <1>10 DEF Holds, f


\* Sums of rows with two and three terms.
LEMMA RowOfTwo ==
  ASSUME NEW u, IsRow(u, 2), NEW a, NEW P, RowNumbers(u, a, P)
  PROVE  Z!Sum(Products(u, a, P)) = P[u[1][2]] * a[u[1][1]] + P[u[2][2]] * a[u[2][1]]
<1> DEFINE m == 2
           f == Products(u, a, P)
<1>1. IsRow(u, m)
  OBVIOUS
<1> HIDE DEF m, f
<1>2. f \in Seq(Int) /\ Len(f) = m /\ \A i \in 1..m : f[i] = P[u[i][2]] * a[u[i][1]]
  BY <1>1, RowProducts DEF f
<1>3. f[1] = P[u[1][2]] * a[u[1][1]] /\ f[2] = P[u[2][2]] * a[u[2][1]]
  BY <1>2 DEF m
<1>4. f \in Seq(Int) /\ Len(f) = 2
  BY <1>2 DEF m
<1>5. Z!Sum(f) = f[1] + f[2]
  BY <1>4, SumShort
<1> QED
  BY <1>3, <1>5 DEF f

\* With three terms.
LEMMA RowOfThree ==
  ASSUME NEW u, IsRow(u, 3), NEW a, NEW P, RowNumbers(u, a, P)
  PROVE  Z!Sum(Products(u, a, P)) =
           P[u[1][2]] * a[u[1][1]] + P[u[2][2]] * a[u[2][1]] + P[u[3][2]] * a[u[3][1]]
<1> DEFINE m == 3
           f == Products(u, a, P)
<1>1. IsRow(u, m)
  OBVIOUS
<1> HIDE DEF m, f
<1>2. f \in Seq(Int) /\ Len(f) = m /\ \A i \in 1..m : f[i] = P[u[i][2]] * a[u[i][1]]
  BY <1>1, RowProducts DEF f
<1>3. f[1] = P[u[1][2]] * a[u[1][1]] /\ f[2] = P[u[2][2]] * a[u[2][1]]
      /\ f[3] = P[u[3][2]] * a[u[3][1]]
  BY <1>2 DEF m
<1>4. f \in Seq(Int) /\ Len(f) = 3
  BY <1>2 DEF m
<1>5. Z!Sum(f) = f[1] + f[2] + f[3]
  BY <1>4, SumShort
<1> QED
  BY <1>3, <1>5 DEF f

\* The second equation, of a key with as many attributes as the credential has.
LEMMA IssuingHolds ==
  ASSUME NEW a, NEW P, NEW key, NEW n, NEW G, KeyIn(a, P, key, n, n, G)
  PROVE  Holds(Issuing(n), a, P)
<1> DEFINE u == KeyTerms
           t == Terms(u, Z!GY, n)
           M == [i \in 1..n |-> G[4 + i]]
           y == key.y
           s == Z!Sum(Shares(M, y, n))
           x0 == a["x0"]
           x1 == a["x1"]
           g3 == P["G_x0"]
           g4 == P["G_x1"]
           g16 == G[16]
           l == P["G_V_I"]
           I == key.I
<1>1. Issuing(n).lhs = "G_V_I" /\ Issuing(n).rhs = t
  BY DEF Issuing, Z!Equation
<1>2. u[1] = <<"x0", "G_x0">> /\ u[2] = <<"x1", "G_x1">>
  BY DEF KeyTerms
<1>3. IsRow(u, 2)
  BY RowsAre
<1>4. /\ x0 \in Int /\ x1 \in Int /\ g3 \in Int /\ g4 \in Int
      /\ \A i \in 1..n : a[Z!Y[i]] = y[i] /\ y[i] \in Int
      /\ \A i \in 1..n : P[Z!GY[i]] = G[4 + i] /\ G[4 + i] \in Int
  BY KeyInIs, NonZeroIs
<1> HIDE DEF u
<1>5. RowNumbers(u, a, P)
  <2>1. 1..Len(u) = {1, 2}
    BY <1>3 DEF IsRow
  <2> QED
    BY <1>2, <1>4, <2>1 DEF RowNumbers
<1>6. n \in 1..5 /\ Z!GY \in NameLists
  BY DEF KeyIn, NameLists
<1>7. HasShares(M, y, n, Z!GY, a, P)
  BY <1>4 DEF HasShares
<1>8. Z!Sum(Products(t, a, P)) = Z!Sum(Products(u, a, P)) + s /\ s \in Int
  <2> DEFINE m == 2
  <2>1. IsRow(u, m)
    BY <1>3
  <2> HIDE DEF M, m
  <2> QED
    BY <1>5, <1>6, <1>7, <2>1, TermsSum
<1>9. Z!Sum(Products(u, a, P)) = g3 * x0 + g4 * x1
  <2>1. Z!Sum(Products(u, a, P)) = P[u[1][2]] * a[u[1][1]] + P[u[2][2]] * a[u[2][1]]
    BY <1>3, <1>5, RowOfTwo
  <2> QED
    BY <1>2, <2>1
<1>10. Cong(I, g16 - G[3] * key.x0 - G[4] * key.x1 - s) /\ I \in Int
  <2>1. Shares(M, y, n) = [i \in 1..n |-> G[4 + i] * key.y[i]]
    BY DEF Shares
  <2>2. /\ Cong(key.I, G[16] - G[3] * key.x0 - G[4] * key.x1
                         - Z!Sum([i \in 1..n |-> G[4 + i] * key.y[i]]))
        /\ key.I \in Int
    BY DEF KeyIn, IsKey
  <2> QED
    BY <2>1, <2>2
<1>11. x0 = key.x0 /\ x1 = key.x1 /\ g3 = G[3] /\ g4 = G[4] /\ l = (g16 - I) % Q
  BY DEF KeyIn, KeyValues, KeyPointValues
<1>12. g16 \in Int
  <2>1. IsParams(G)
    BY DEF KeyIn
  <2> QED
    BY <2>1, ParamIs
<1> DEFINE p == g3 * x0
           q == g4 * x1
<1>13. p \in Int /\ q \in Int
  BY <1>4
<1>14. Cong(I, g16 - p - q - s)
  BY <1>10, <1>11
<1>15. Z!Sum(Products(t, a, P)) = p + q + s
  BY <1>8, <1>9
<1>16. g16 - I \in Int
  BY <1>10, <1>12
<1> HIDE DEF p, q, s, t, g16, l, I
<1>17. l \in Int /\ Cong(l, g16 - I)
  <2>1. (g16 - I) % Q \in Int /\ Cong((g16 - I) % Q, g16 - I)
    BY <1>16, CongMod, QAssumption
  <2> QED
    BY <1>11, <2>1
<1> DEFINE r == g16 - p - q - s
           e == p + q + s
<1>18. r \in Int /\ e \in Int /\ g16 - r = e /\ s \in Int
  BY <1>8, <1>12, <1>13
<1>19. Cong(I, r)
  BY <1>14
<1> HIDE DEF r, e
<1>20. Cong(g16 - I, g16 - r)
  BY <1>10, <1>12, <1>18, <1>19, CongRefl, CongSub
<1>21. Cong(l, e)
  BY <1>16, <1>17, <1>18, <1>20, CongTrans
<1> QED
  BY <1>1, <1>15, <1>21 DEF Holds, l, e

\* What is issued, in a mapping.
TagIn(P, key, t, U, V, M, n) ==
  /\ IsAttributes(M, n) /\ t \in NonZero /\ U \in NonZero
  /\ V = Z!PrepareV(key, t, U, M)
  /\ P["V"] = V /\ P["U"] = U /\ P["tU"] = (U * t) % Q
  /\ \A i \in 1..n : P[Z!MM[i]] = M[i]

\* The third equation of a credential: V is what the key makes of the attributes.
LEMMA TagHolds ==
  ASSUME NEW a, NEW P, NEW key, NEW size, NEW n, NEW G, KeyIn(a, P, key, size, n, G),
         NEW t, NEW U, NEW V, NEW M, TagIn(P, key, t, U, V, M, n)
  PROVE  Holds(Tag(n), a, P)
<1> DEFINE u == TagTerms
           r == Terms(u, Z!MM, n)
           y == key.y
           s == Z!Sum(Shares(M, y, n))
           w == a["w"]
           x0 == a["x0"]
           x1 == a["x1"]
           g1 == P["G_w"]
           tU == P["tU"]
           W == key.W
<1>1. Tag(n).lhs = "V" /\ Tag(n).rhs = r
  BY DEF Tag, Z!Equation
<1>2. u[1] = <<"w", "G_w">> /\ u[2] = <<"x0", "U">> /\ u[3] = <<"x1", "tU">>
  BY DEF TagTerms
<1>3. IsRow(u, 3)
  BY RowsAre
<1>4. /\ x0 \in Int /\ x1 \in Int /\ w \in Int /\ g1 \in Int
      /\ \A i \in 1..n : a[Z!Y[i]] = y[i] /\ y[i] \in Int
  BY KeyInIs, NonZeroIs
<1>5. IsAttributes(M, n) /\ t \in Int /\ U \in Int /\ P["V"] = Z!PrepareV(key, t, U, M)
      /\ P["U"] = U /\ tU = (U * t) % Q /\ \A i \in 1..n : P[Z!MM[i]] = M[i]
  BY NonZeroIs DEF TagIn
<1>6. U * t \in Int
  BY <1>5
<1>7. tU \in Int /\ Cong(tU, U * t)
  <2> DEFINE z == U * t
  <2>1. z \in Int /\ tU = z % Q
    BY <1>5, <1>6
  <2> HIDE DEF z, tU
  <2>2. z % Q \in Int /\ Cong(z % Q, z)
    BY <2>1, CongMod, QAssumption
  <2>3. tU \in Int /\ Cong(tU, z)
    BY <2>1, <2>2
  <2> QED
    BY <2>3 DEF z
<1> HIDE DEF u
<1>8. RowNumbers(u, a, P)
  <2>1. 1..Len(u) = {1, 2, 3}
    BY <1>3 DEF IsRow
  <2> HIDE DEF w, x0, x1, g1, tU
  <2>2. /\ a["w"] \in Int /\ a["x0"] \in Int /\ a["x1"] \in Int
        /\ P["G_w"] \in Int /\ P["U"] \in Int /\ P["tU"] \in Int
    BY <1>4, <1>5, <1>7 DEF w, x0, x1, g1, tU
  <2> QED
    BY <1>2, <2>1, <2>2 DEF RowNumbers
<1>9. n \in 1..5 /\ Z!MM \in NameLists /\ IsKey(key, size, G) /\ n <= size
  BY DEF KeyIn, NameLists
<1>10. HasShares(M, y, n, Z!MM, a, P)
  <2>1. \A i \in 1..n : M[i] \in Int
    BY <1>5, ElementType DEF IsAttributes
  <2> QED
    BY <1>4, <1>5, <2>1 DEF HasShares
<1>11. Z!Sum(Products(r, a, P)) = Z!Sum(Products(u, a, P)) + s /\ s \in Int
  <2> DEFINE m == 3
  <2>1. IsRow(u, m)
    BY <1>3
  <2> HIDE DEF m
  <2> QED
    BY <1>8, <1>9, <1>10, <2>1, TermsSum
<1>12. Z!Sum(Products(u, a, P)) = g1 * w + U * x0 + tU * x1
  <2>1. Z!Sum(Products(u, a, P)) =
          P[u[1][2]] * a[u[1][1]] + P[u[2][2]] * a[u[2][1]] + P[u[3][2]] * a[u[3][1]]
    BY <1>3, <1>8, RowOfThree
  <2>2. Z!Sum(Products(u, a, P)) = P["G_w"] * a["w"] + P["U"] * a["x0"] + P["tU"] * a["x1"]
    BY <1>2, <2>1
  <2>3. P["U"] = U
    BY <1>5
  <2> QED
    BY <2>2, <2>3
<1>13. x0 = key.x0 /\ x1 = key.x1 /\ w = key.w /\ g1 = G[1]
  BY DEF KeyIn, KeyValues, KeyPointValues
<1>14. Cong(W, g1 * w) /\ W \in Int
  <2>1. Cong(key.W, G[1] * key.w) /\ key.W \in Int
    BY <1>9 DEF IsKey
  <2> QED
    BY <1>13, <2>1
<1> DEFINE V0 == P["V"]
           b == U * (x0 + x1 * t)
<1>15. V0 \in 0..(Q - 1) /\ Cong(V0, W + b + s)
  <2>1. LET sum == key.W + U * (key.x0 + key.x1 * t) + Z!Sum(Shares(M, key.y, n)) IN
        /\ sum \in Int /\ Z!Sum(Shares(M, key.y, n)) \in Int
        /\ Z!PrepareV(key, t, U, M) \in 0..(Q - 1)
        /\ Cong(Z!PrepareV(key, t, U, M), sum)
    BY <1>5, <1>9, PreparedIs
  <2>2. V0 = Z!PrepareV(key, t, U, M)
    BY <1>5
  <2> QED
    BY <1>13, <2>1, <2>2
<1> DEFINE p == g1 * w
           q == U * x0
           z == tU * x1
           zz == (U * t) * x1
<1>16. p \in Int /\ q \in Int /\ z \in Int /\ zz \in Int /\ b \in Int /\ b = q + zz
  <2>1. /\ U \in Int /\ t \in Int /\ x0 \in Int /\ x1 \in Int /\ w \in Int /\ g1 \in Int
        /\ tU \in Int
    BY <1>4, <1>5, <1>7
  <2> HIDE DEF x0, x1, w, g1, tU
  <2> QED
    BY <2>1, Z3
<1>17. Cong(z, zz)
  BY <1>4, <1>6, <1>7, CongRefl, CongMul
<1>18. Z!Sum(Products(r, a, P)) = ((p + q) + z) + s
  BY <1>11, <1>12
<1>19. Cong(W, p) /\ W \in Int
  BY <1>14
<1>20. V0 \in Int
  BY <1>15, QAssumption
<1> HIDE DEF p, q, z, zz, b, s, V0, r, W
<1>21. Cong(V0, (W + b) + s) /\ W + b \in Int /\ (W + b) + s \in Int
  BY <1>11, <1>15, <1>16, <1>19
<1> DEFINE c == p + q
<1>22. c \in Int /\ c + zz \in Int /\ c + z \in Int /\ (c + z) + s \in Int /\ (c + zz) + s \in Int
  BY <1>11, <1>16
<1>23. Cong(b, b) /\ Cong(s, s) /\ Cong(c, c)
  BY <1>11, <1>16, <1>22, CongRefl
<1>24. Cong(W + b, p + b) /\ p + b = c + zz
  BY <1>16, <1>19, <1>23, CongAdd
<1>25. Cong(zz, z)
  BY <1>16, <1>17, CongSym
<1> HIDE DEF c
<1>26. Cong(c + zz, c + z)
  BY <1>16, <1>22, <1>23, <1>25, CongAdd
<1> DEFINE d == c + zz
           f == c + z
           h == W + b
<1>27. d \in Int /\ f \in Int /\ h \in Int /\ Cong(h, d) /\ Cong(d, f)
  BY <1>21, <1>22, <1>24, <1>26
<1>28. Cong(V0, h + s) /\ h + s \in Int /\ f + s \in Int
  BY <1>21, <1>22
<1> HIDE DEF d, f, h
<1>29. Cong(h, f)
  BY <1>27, CongTrans
<1>30. Cong(h + s, f + s)
  BY <1>11, <1>23, <1>27, <1>29, CongAdd
<1>31. Cong(V0, f + s)
  BY <1>20, <1>28, <1>30, CongTrans
<1>32. Cong(V0, Z!Sum(Products(r, a, P)))
  BY <1>18, <1>31 DEF f, c
<1> QED
  BY <1>1, <1>32 DEF Holds, V0

(***************************************************************************)
(* The credentials for accounts and call links                             *)
(***************************************************************************)

\* Two mappings without a common name.
LEMMA JoinApart ==
  ASSUME NEW f, NEW g, DOMAIN f \cap DOMAIN g = {}
  PROVE  /\ DOMAIN Z!Join(f, g) = DOMAIN f \cup DOMAIN g
         /\ \A x \in DOMAIN f : Z!Join(f, g)[x] = f[x]
         /\ \A x \in DOMAIN g : Z!Join(f, g)[x] = g[x]
  BY JoinIs

\* The names of the points of a key, and of a credential.
KeyNames == {"C_W", "G_w", "G_wprime", "G_V_I", "G_x0", "G_x1"}
TagNames == {"V", "U", "tU"}

\* What the points of a credential are.
AreMacPoints(P, key, G, n, t, U, V, M) ==
  /\ DOMAIN P = {"G"} \cup KeyNames \cup NamesTo(Z!GY, n) \cup TagNames \cup NamesTo(Z!MM, n)
  /\ KeyPointValues(P, key, G, n)
  /\ P["G"] = 1 /\ P["V"] = V /\ P["U"] = U /\ P["tU"] = (U * t) % Q
  /\ \A i \in 1..n : P[Z!MM[i]] = M[i]

\* They are that.
LEMMA MacPointsAre ==
  ASSUME IsParams(params.cred), NEW key, NEW n \in 1..5, NEW M, IsAttributes(M, n), NEW t, NEW U, NEW V
  PROVE  AreMacPoints(WithG(Z!MacPoints(key, t, U, V, M)), key, params.cred, n, t, U, V, M)
<1> DEFINE A == Z!KeyPoints(key, n)
           B == [V |-> V, U |-> U, tU |-> (U * t) % Q]
           C == Z!Numbered(Z!MM, M)
           F == [G |-> 1]
           X == Z!Join(A, B)
           Y == Z!Join(X, C)
           P == Z!Join(Y, F)
           G == params.cred
<1>1. WithG(Z!MacPoints(key, t, U, V, M)) = P
  <2>1. Len(M) = n
    BY DEF IsAttributes
  <2> QED
    BY <2>1 DEF WithG, Z!MacPoints
<1>2. DOMAIN A = KeyNames \cup NamesTo(Z!GY, n) /\ KeyPointValues(A, key, G, n)
  BY KeyPointsAre DEF KeyNames
<1>3. DOMAIN B = TagNames /\ B["V"] = V /\ B["U"] = U /\ B["tU"] = (U * t) % Q
  BY DEF TagNames
<1>4. DOMAIN C = NamesTo(Z!MM, n) /\ \A i \in 1..n : C[Z!MM[i]] = M[i]
  <2> DEFINE S == Int
  <2>1. Z!MM \in NameLists /\ n \in 1..5 /\ M \in Seq(S) /\ Len(M) = n
    BY DEF NameLists, IsAttributes
  <2> HIDE DEF S
  <2> QED
    BY <2>1, NumberedIs, ZenonT(60)
<1>5. DOMAIN F = {"G"} /\ F["G"] = 1
  OBVIOUS
<1>6. \A i \in 1..n : i \in 1..5
  OBVIOUS
<1>7. \A x \in {"G"} \cup KeyNames \cup TagNames : x \notin NamesTo(Z!GY, n) /\ x \notin NamesTo(Z!MM, n)
  BY <1>6, NamesApart DEF NamesTo, KeyNames, TagNames
<1>8. NamesTo(Z!GY, n) \cap NamesTo(Z!MM, n) = {}
  BY <1>6, NamesApart DEF NamesTo
<1>9. KeyNames \cap TagNames = {} /\ "G" \notin KeyNames /\ "G" \notin TagNames
  BY DEF KeyNames, TagNames
<1> HIDE DEF A, B, C, F
<1>10. /\ DOMAIN X = DOMAIN A \cup DOMAIN B
       /\ \A x \in DOMAIN A : X[x] = A[x]
       /\ \A x \in DOMAIN B : X[x] = B[x]
  <2>1. DOMAIN A \cap DOMAIN B = {}
    BY <1>2, <1>3, <1>7, <1>9
  <2> QED
    BY <2>1, JoinApart
<1> HIDE DEF X
<1>11. /\ DOMAIN Y = DOMAIN X \cup DOMAIN C
       /\ \A x \in DOMAIN X : Y[x] = X[x]
       /\ \A x \in DOMAIN C : Y[x] = C[x]
  <2>1. DOMAIN X \cap DOMAIN C = {}
    BY <1>2, <1>3, <1>4, <1>7, <1>8, <1>10
  <2> QED
    BY <2>1, JoinApart
<1> HIDE DEF Y
<1>12. /\ DOMAIN P = DOMAIN Y \cup DOMAIN F
       /\ \A x \in DOMAIN Y : P[x] = Y[x]
       /\ \A x \in DOMAIN F : P[x] = F[x]
  <2>1. DOMAIN Y \cap DOMAIN F = {}
    BY <1>2, <1>3, <1>4, <1>5, <1>7, <1>9, <1>10, <1>11
  <2> QED
    BY <2>1, JoinApart
<1> HIDE DEF P
<1>13. /\ \A x \in DOMAIN A : P[x] = A[x]
       /\ \A x \in DOMAIN B : P[x] = B[x]
       /\ \A x \in DOMAIN C : P[x] = C[x]
       /\ \A x \in DOMAIN F : P[x] = F[x]
  BY <1>10, <1>11, <1>12
<1>14. DOMAIN P = {"G"} \cup KeyNames \cup NamesTo(Z!GY, n) \cup TagNames \cup NamesTo(Z!MM, n)
  BY <1>2, <1>3, <1>4, <1>5, <1>10, <1>11, <1>12
<1>15. KeyPointValues(P, key, G, n)
  <2>1. \A i \in 1..n : Z!GY[i] \in DOMAIN A
    BY <1>2 DEF NamesTo
  <2>2. \A x \in KeyNames : x \in DOMAIN A
    BY <1>2
  <2>3. /\ "C_W" \in DOMAIN A /\ "G_w" \in DOMAIN A /\ "G_wprime" \in DOMAIN A
        /\ "G_V_I" \in DOMAIN A /\ "G_x0" \in DOMAIN A /\ "G_x1" \in DOMAIN A
    BY <2>2 DEF KeyNames
  <2> QED
    BY <1>2, <1>13, <2>1, <2>3 DEF KeyPointValues
<1>16. P["G"] = 1 /\ P["V"] = V /\ P["U"] = U /\ P["tU"] = (U * t) % Q
  <2>1. "G" \in DOMAIN F /\ "V" \in DOMAIN B /\ "U" \in DOMAIN B /\ "tU" \in DOMAIN B
    BY <1>3, <1>5 DEF TagNames
  <2> QED
    BY <1>3, <1>5, <1>13, <2>1
<1>17. \A i \in 1..n : P[Z!MM[i]] = M[i]
  BY <1>4, <1>13 DEF NamesTo
<1> QED
  BY <1>1, <1>14, <1>15, <1>16, <1>17 DEF AreMacPoints

\* The names in the equations of a credential.
LEMMA KeyRowNames ==
  ASSUME NEW n \in 1..5
  PROVE  /\ RowScalars(Published) = {"w", "wprime"}
         /\ RowScalars(Issuing(n)) = {"x0", "x1"} \cup NamesTo(Z!Y, n)
         /\ RowScalars(Tag(n)) = {"w", "x0", "x1"} \cup NamesTo(Z!Y, n)
         /\ RowPoints(Published) = {"C_W", "G_w", "G_wprime"}
         /\ RowPoints(Issuing(n)) = {"G_V_I", "G_x0", "G_x1"} \cup NamesTo(Z!GY, n)
         /\ RowPoints(Tag(n)) = {"V", "G_w", "U", "tU"} \cup NamesTo(Z!MM, n)
<1>1. Z!GY \in NameLists /\ Z!MM \in NameLists
  BY DEF NameLists
<1> DEFINE m == 2
           k == 3
<1>2. IsRow(KeyTerms, m) /\ IsRow(TagTerms, k)
  BY RowsAre
<1> HIDE DEF m, k
<1>3. /\ RowScalars(Issuing(n)) = {KeyTerms[j][1] : j \in 1..m} \cup NamesTo(Z!Y, n)
      /\ RowPoints(Issuing(n)) =
           {"G_V_I"} \cup {KeyTerms[j][2] : j \in 1..m} \cup NamesTo(Z!GY, n)
  BY <1>1, <1>2, TermNames DEF Issuing
<1>4. /\ RowScalars(Tag(n)) = {TagTerms[j][1] : j \in 1..k} \cup NamesTo(Z!Y, n)
      /\ RowPoints(Tag(n)) = {"V"} \cup {TagTerms[j][2] : j \in 1..k} \cup NamesTo(Z!MM, n)
  BY <1>1, <1>2, TermNames DEF Tag
<1> QED
  BY <1>3, <1>4, RowsAre DEF m, k

\* Where a scalar is once: in the first part of the terms, or in that of the attributes.
UniqueScalar(u, m, j) == j \in 1..m /\ \A k \in 1..m : u[k][1] = u[j][1] => k = j

\* A scalar that is one of the first terms occurs once in an equation.
LEMMA OccursInRow ==
  ASSUME NEW names \in NameLists, NEW n \in 1..5, NEW u, NEW m, IsRow(u, m),
         NEW j, UniqueScalar(u, m, j), u[j][1] \notin NamesTo(Z!Y, n),
         NEW P, P[u[j][2]] % Q # 0
  PROVE  OccursOnce(u[j][1], Terms(u, names, n), j, P)
<1> DEFINE t == Terms(u, names, n)
<1>1. /\ IsRow(t, m + n)
      /\ \A i \in 1..m : t[i] = u[i]
      /\ \A i \in 1..n : t[m + i] = <<Z!Y[i], names[i]>>
  BY TermsAre
<1> HIDE DEF t
<1>2. Len(t) = m + n /\ m \in Nat /\ n \in Nat
  BY <1>1 DEF IsRow
<1>3. j \in 1..m /\ j \in 1..(m + n) /\ t[j] = u[j]
  BY <1>1, <1>2 DEF UniqueScalar
<1>4. ASSUME NEW k \in (1..(m + n)) \ {j} PROVE t[k][1] # u[j][1]
  <2>1. CASE k <= m
    <3>1. k \in 1..m
      BY <1>2, <2>1
    <3> QED
      BY <1>1, <3>1 DEF UniqueScalar
  <2>2. CASE k > m
    <3> DEFINE i == k - m
    <3>1. i \in 1..n /\ k = m + i
      BY <1>2, <2>2
    <3> HIDE DEF i
    <3>2. t[k][1] = Z!Y[i] /\ Z!Y[i] \in NamesTo(Z!Y, n)
      BY <1>1, <3>1 DEF NamesTo
    <3> QED
      BY <3>2
  <2> QED
    BY <1>2, <2>1, <2>2
<1>5. OccursOnce(u[j][1], t, j, P)
  BY <1>2, <1>3, <1>4 DEF OccursOnce
<1> QED
  BY <1>5 DEF t

\* The scalar of an attribute.
NoAttribute(u, m, n) == \A k \in 1..m : u[k][1] \notin NamesTo(Z!Y, n)

\* A scalar that multiplies an attribute occurs once in an equation.
LEMMA OccursInShare ==
  ASSUME NEW names \in NameLists, NEW n \in 1..5, NEW u, NEW m, IsRow(u, m),
         NoAttribute(u, m, n),
         NEW i \in 1..n, NEW P, P[names[i]] % Q # 0
  PROVE  OccursOnce(Z!Y[i], Terms(u, names, n), m + i, P)
<1> DEFINE t == Terms(u, names, n)
<1>1. /\ IsRow(t, m + n)
      /\ \A j \in 1..m : t[j] = u[j]
      /\ \A j \in 1..n : t[m + j] = <<Z!Y[j], names[j]>>
  BY TermsAre
<1> HIDE DEF t
<1>2. Len(t) = m + n /\ m \in Nat /\ n \in Nat /\ m + i \in 1..(m + n)
  BY <1>1 DEF IsRow
<1>3. t[m + i][1] = Z!Y[i] /\ P[t[m + i][2]] % Q # 0
  BY <1>1
<1>4. Z!Y \in NameLists
  BY DEF NameLists
<1>5. ASSUME NEW k \in (1..(m + n)) \ {m + i} PROVE t[k][1] # Z!Y[i]
  <2>1. Z!Y[i] \in NamesTo(Z!Y, n)
    BY DEF NamesTo
  <2>2. CASE k <= m
    <3>1. k \in 1..m
      BY <1>2, <2>2
    <3> QED
      BY <1>1, <2>1, <3>1 DEF NoAttribute
  <2>3. CASE k > m
    <3> DEFINE j == k - m
    <3>1. j \in 1..n /\ k = m + j /\ j # i /\ j \in 1..5 /\ i \in 1..5
      BY <1>2, <2>3
    <3> HIDE DEF j
    <3>2. t[k][1] = Z!Y[j]
      BY <1>1, <3>1
    <3>3. Z!Y[j] # Z!Y[i]
      BY <1>4, <3>1, NameListsAre
    <3> QED
      BY <3>2, <3>3
  <2> QED
    BY <1>2, <2>2, <2>3
<1>6. OccursOnce(Z!Y[i], t, m + i, P)
  BY <1>2, <1>3, <1>5 DEF OccursOnce
<1> QED
  BY <1>6 DEF t

\* w and wprime are once in the first equation.
LEMMA PublishedNotices ==
  ASSUME NEW a, NEW P, NEW key, NEW size, NEW n, NEW G, KeyIn(a, P, key, size, n, G)
  PROVE  /\ Len(Published.rhs) = 2
         /\ OccursOnce("w", Published.rhs, 1, P) /\ OccursOnce("wprime", Published.rhs, 2, P)
<1>1. P["G_w"] % Q # 0 /\ P["G_wprime"] % Q # 0
  BY KeyInIs, NonZeroIs
<1> DEFINE u == <<<<"w", "G_w">>, <<"wprime", "G_wprime">>>>
<1>2. Published.rhs = u
  BY DEF Published, Z!Equation
<1>3. u[1] = <<"w", "G_w">> /\ u[2] = <<"wprime", "G_wprime">> /\ Len(u) = 2
  OBVIOUS
<1> HIDE DEF u
<1>4. 1..Len(u) = {1, 2}
  BY <1>3
<1>5. OccursOnce("w", u, 1, P)
  <2>1. \A k \in (1..Len(u)) \ {1} : u[k][1] # "w"
    BY <1>3, <1>4
  <2> QED
    BY <1>1, <1>3, <1>4, <2>1 DEF OccursOnce
<1>6. OccursOnce("wprime", u, 2, P)
  <2>1. \A k \in (1..Len(u)) \ {2} : u[k][1] # "wprime"
    BY <1>3, <1>4
  <2> QED
    BY <1>1, <1>3, <1>4, <2>1 DEF OccursOnce
<1> QED
  BY <1>2, <1>3, <1>5, <1>6

\* What is to be shown of a proof: every change of a response is refused.
ChangesRefused(stmt, proof, p) ==
  \A d \in DOMAIN proof.response : ~ Z!Verify(stmt, Changed(proof, d), p)
AllHold(eqs, a, P) == \A k \in 1..Len(eqs) : Holds(eqs[k], a, P)

\* With nonces that were drawn, prove() makes a proof that is accepted as it is and
\* refused after a change.
LEMMA ProofIsSound ==
  ASSUME NEW eqs \in Seq(Equations), NEW a, NEW p, Fits(eqs, a, p),
         AllScalars(eqs) \subseteq ScalarSet, Noticed(eqs, a, WithG(p)),
         NEW m, Drawn(m), NEW c \in Int
  PROVE  LET stmt  == Z!Statement(eqs)
             proof == Z!Prove(stmt, a, p, m, c)
         IN /\ AllHold(eqs, a, WithG(p)) => Z!Verify(stmt, proof, p)
            /\ ChangesRefused(stmt, proof, p)
<1> DEFINE stmt == Z!Statement(eqs)
           D == DOMAIN stmt.scalars
           proof == Z!Prove(stmt, a, p, m, c)
<1>1. stmt.scalars \in UniqueNames /\ Names(stmt.scalars) = AllScalars(eqs)
  <2>1. IsStatement(stmt, eqs, Len(eqs))
    BY StatementIs
  <2> HIDE DEF stmt
  <2> QED
    BY <2>1 DEF IsStatement, Statements, AllScalars
<1>2. D \subseteq 1..17
  <2> HIDE DEF stmt
  <2> QED
    BY <1>1, FewScalars
<1>3. Numbers(m, D)
  <2>1. \A i \in 1..17 : m[i] \in Int
    BY DrawIs
  <2> HIDE DEF D
  <2> QED
    BY <1>2, <2>1 DEF Numbers
<1>4. DOMAIN proof.response = D
  <2> DEFINE g == Z!GetScalars(stmt, a)
             P == Z!GetPoints(stmt, p)
  <2>1. DOMAIN g = D
    BY ArgumentsIndexed
  <2>2. proof.response = Z!Response(g, c, m)
    BY DEF Z!Prove
  <2> HIDE DEF g, D, proof
  <2> QED
    BY <2>1, <2>2 DEF Z!Response
<1>5. AllHold(eqs, a, WithG(p)) => Z!Verify(stmt, proof, p)
  <2> SUFFICES ASSUME AllHold(eqs, a, WithG(p)) PROVE Z!Verify(stmt, proof, p)
    OBVIOUS
  <2>1. \A k \in 1..Len(eqs) : Holds(eqs[k], a, WithG(p))
    BY DEF AllHold
  <2> QED
    BY <1>3, <2>1, ProvedIsVerified
<1>6. ASSUME NEW d \in D PROVE ~ Z!Verify(stmt, Changed(proof, d), p)
  BY <1>3, <1>6, ChangedIsRefused
<1>7. ChangesRefused(stmt, proof, p)
  <2> HIDE DEF D, proof, stmt
  <2> QED
    BY <1>4, <1>6 DEF ChangesRefused
<1> QED
  BY <1>5, <1>7

\* What a credential is issued from.
MacFrom(key, size, n, t, U, M) ==
  /\ IsParams(params.cred) /\ IsKey(key, size, params.cred) /\ size \in 5..7
  /\ n \in 1..5 /\ n <= size
  /\ t \in NonZero /\ U \in NonZero /\ M \in Seq(NonZero) /\ Len(M) = n

\* Its numbers are those of the equations.
LEMMA MacIn ==
  ASSUME NEW key, NEW size, NEW n, NEW t, NEW U, NEW M, MacFrom(key, size, n, t, U, M)
  PROVE  LET V == Z!PrepareV(key, t, U, M)
             a == Z!KeyScalars(key, n)
             P == WithG(Z!MacPoints(key, t, U, V, M))
         IN /\ DOMAIN a = {"w", "wprime", "x0", "x1"} \cup NamesTo(Z!Y, n)
            /\ AreMacPoints(P, key, params.cred, n, t, U, V, M)
            /\ KeyIn(a, P, key, size, n, params.cred)
            /\ TagIn(P, key, t, U, V, M, n)
            /\ P["G"] = 1 /\ \A i \in 1..n : P[Z!MM[i]] \in NonZero
            /\ V \in Int
<1> DEFINE V == Z!PrepareV(key, t, U, M)
           a == Z!KeyScalars(key, n)
           P == WithG(Z!MacPoints(key, t, U, V, M))
<1>1. /\ IsParams(params.cred) /\ IsKey(key, size, params.cred) /\ size \in 5..7
      /\ n \in 1..5 /\ n <= size /\ n \in Nat /\ size \in Nat
      /\ t \in NonZero /\ U \in NonZero /\ M \in Seq(NonZero) /\ Len(M) = n
  BY DEF MacFrom
<1>2. \A i \in 1..n : M[i] \in NonZero
  BY <1>1, SeqIsFunction
<1>3. IsAttributes(M, n)
  <2>1. M \in Seq(Int)
    BY <1>1, NonZeroIs
  <2> QED
    BY <1>1, <2>1 DEF IsAttributes
<1>4. /\ DOMAIN a = {"w", "wprime", "x0", "x1"} \cup NamesTo(Z!Y, n)
      /\ KeyValues(a, key, n)
  BY <1>1, KeyScalarsAre
<1>5. V \in Int
  <2> HIDE DEF V
  <2>1. t \in Int /\ U \in Int
    BY <1>1, NonZeroIs
  <2>2. V \in 0..(Q - 1)
    BY <1>1, <1>3, <2>1, PreparedIs DEF V
  <2> QED
    BY <2>2, QAssumption
<1> HIDE DEF V
<1>6. /\ AreMacPoints(P, key, params.cred, n, t, U, V, M)
      /\ KeyPointValues(P, key, params.cred, n)
      /\ P["G"] = 1 /\ P["V"] = V /\ P["U"] = U /\ P["tU"] = (U * t) % Q
      /\ \A i \in 1..n : P[Z!MM[i]] = M[i]
  <2>1. IsParams(params.cred) /\ n \in 1..5 /\ IsAttributes(M, n)
    BY <1>1, <1>3
  <2>2. AreMacPoints(P, key, params.cred, n, t, U, V, M)
    BY <2>1, MacPointsAre
  <2> HIDE DEF P
  <2> QED
    BY <2>2 DEF AreMacPoints
<1> HIDE DEF a, P
<1>7. KeyIn(a, P, key, size, n, params.cred)
  BY <1>1, <1>4, <1>6 DEF KeyIn
<1>8. TagIn(P, key, t, U, V, M, n)
  BY <1>1, <1>3, <1>6 DEF TagIn, V
<1>9. \A i \in 1..n : P[Z!MM[i]] \in NonZero
  BY <1>2, <1>6
<1> QED
  BY <1>4, <1>5, <1>6, <1>7, <1>8, <1>9 DEF a, P, V

\* The values fit the equations.
LEMMA MacFits ==
  ASSUME NEW key, NEW size, NEW n, NEW t, NEW U, NEW M, MacFrom(key, size, n, t, U, M)
  PROVE  /\ Fits(MacEquations(n), Z!KeyScalars(key, n),
                 Z!MacPoints(key, t, U, Z!PrepareV(key, t, U, M), M))
         /\ AllScalars(MacEquations(n)) = {"w", "wprime", "x0", "x1"} \cup NamesTo(Z!Y, n)
<1> DEFINE eqs == MacEquations(n)
           V == Z!PrepareV(key, t, U, M)
           a == Z!KeyScalars(key, n)
           p == Z!MacPoints(key, t, U, V, M)
           P == WithG(p)
<1>1. n \in 1..5
  BY DEF MacFrom
<1>2. eqs \in Seq(Equations) /\ Len(eqs) = 3 /\ eqs[1] = Published /\ eqs[2] = Issuing(n)
      /\ eqs[3] = Tag(n)
  BY <1>1, MacEquationsAre
<1>3. /\ DOMAIN a = {"w", "wprime", "x0", "x1"} \cup NamesTo(Z!Y, n)
      /\ DOMAIN P = {"G"} \cup KeyNames \cup NamesTo(Z!GY, n) \cup TagNames \cup NamesTo(Z!MM, n)
      /\ KeyIn(a, P, key, size, n, params.cred) /\ TagIn(P, key, t, U, V, M, n)
      /\ P["G"] = 1 /\ (\A i \in 1..n : P[Z!MM[i]] \in NonZero) /\ V \in Int
  <2>1. DOMAIN a = {"w", "wprime", "x0", "x1"} \cup NamesTo(Z!Y, n)
    BY MacIn
  <2>2. DOMAIN P = {"G"} \cup KeyNames \cup NamesTo(Z!GY, n) \cup TagNames \cup NamesTo(Z!MM, n)
    <3>1. AreMacPoints(P, key, params.cred, n, t, U, V, M)
      BY MacIn
    <3> QED
      BY <3>1 DEF AreMacPoints
  <2>3. /\ KeyIn(a, P, key, size, n, params.cred) /\ TagIn(P, key, t, U, V, M, n)
        /\ \A i \in 1..n : P[Z!MM[i]] \in NonZero
    BY MacIn
  <2>4. P["G"] = 1 /\ V \in Int
    BY MacIn
  <2> HIDE DEF a, P, V
  <2> QED
    BY <2>1, <2>2, <2>3, <2>4
<1> HIDE DEF a, V, P, eqs
<1>4. /\ AllScalars(eqs) = RowScalars(eqs[1]) \cup RowScalars(eqs[2]) \cup RowScalars(eqs[3])
      /\ AllPoints(eqs) = {"G"} \cup RowPoints(eqs[1]) \cup RowPoints(eqs[2]) \cup RowPoints(eqs[3])
  BY <1>2, NamesOfThree
<1>5. AllScalars(eqs) = {"w", "wprime", "x0", "x1"} \cup NamesTo(Z!Y, n)
  BY <1>1, <1>2, <1>4, KeyRowNames
<1>6. AllPoints(eqs) = {"G"} \cup KeyNames \cup NamesTo(Z!GY, n) \cup TagNames \cup NamesTo(Z!MM, n)
  BY <1>1, <1>2, <1>4, KeyRowNames DEF KeyNames, TagNames
<1>7. /\ a["w"] \in NonZero /\ a["wprime"] \in NonZero /\ a["x0"] \in NonZero /\ a["x1"] \in NonZero
      /\ \A i \in 1..n : a[Z!Y[i]] = key.y[i] /\ key.y[i] \in NonZero
      /\ P["G_w"] \in NonZero /\ P["G_wprime"] \in NonZero
      /\ P["G_x0"] \in NonZero /\ P["G_x1"] \in NonZero /\ P["C_W"] \in Int /\ P["G_V_I"] \in Int
      /\ \A i \in 1..n : P[Z!GY[i]] = params.cred[4 + i] /\ params.cred[4 + i] \in NonZero
  BY <1>3, KeyInIs
<1>8. Numbers(a, AllScalars(eqs))
  <2>1. \A x \in NamesTo(Z!Y, n) : a[x] \in Int
    BY <1>7, NonZeroIs DEF NamesTo
  <2>2. \A x \in {"w", "wprime", "x0", "x1"} : a[x] \in Int
    BY <1>7, NonZeroIs
  <2> QED
    BY <1>5, <2>1, <2>2 DEF Numbers
<1>9. Numbers(P, AllPoints(eqs))
  <2>1. \A x \in NamesTo(Z!GY, n) : P[x] \in Int
    BY <1>7, NonZeroIs DEF NamesTo
  <2>2. \A x \in NamesTo(Z!MM, n) : P[x] \in Int
    BY <1>3, NonZeroIs DEF NamesTo
  <2>3. \A x \in KeyNames : P[x] \in Int
    BY <1>7, NonZeroIs DEF KeyNames
  <2>4. P["G"] \in Int
    BY <1>3
  <2>5. P["V"] \in Int /\ P["U"] \in Int /\ P["tU"] \in Int
    <3>1. t \in NonZero /\ U \in NonZero /\ P["V"] = V /\ P["U"] = U /\ P["tU"] = (U * t) % Q
      BY <1>3 DEF TagIn
    <3>2. (U * t) % Q \in Int
      BY <3>1, NonZeroIs
    <3> QED
      BY <1>3, <3>1, <3>2, NonZeroIs
  <2>6. \A x \in TagNames : P[x] \in Int
    BY <2>5 DEF TagNames
  <2> QED
    BY <1>6, <2>1, <2>2, <2>3, <2>4, <2>6 DEF Numbers
<1>10. Fits(eqs, a, p)
  BY <1>3, <1>5, <1>6, <1>8, <1>9 DEF Fits, P
<1> QED
  BY <1>5, <1>10 DEF eqs, a, V

\* Every scalar is noticed: w and wprime in the first equation, the others in the third.
LEMMA MacNoticed ==
  ASSUME NEW key, NEW size, NEW n, NEW t, NEW U, NEW M, MacFrom(key, size, n, t, U, M)
  PROVE  Noticed(MacEquations(n), Z!KeyScalars(key, n),
                 WithG(Z!MacPoints(key, t, U, Z!PrepareV(key, t, U, M), M)))
<1> DEFINE eqs == MacEquations(n)
           V == Z!PrepareV(key, t, U, M)
           a == Z!KeyScalars(key, n)
           P == WithG(Z!MacPoints(key, t, U, V, M))
           u == TagTerms
           r == Terms(u, Z!MM, n)
           m == 3
<1>1. n \in 1..5 /\ Z!MM \in NameLists
  BY DEF MacFrom, NameLists
<1>2. Len(eqs) = 3 /\ eqs[1] = Published /\ eqs[3] = Tag(n)
  BY <1>1, MacEquationsAre
<1>3. KeyIn(a, P, key, size, n, params.cred) /\ TagIn(P, key, t, U, V, M, n)
      /\ \A i \in 1..n : P[Z!MM[i]] \in NonZero
  BY MacIn
<1>4. AllScalars(eqs) = {"w", "wprime", "x0", "x1"} \cup NamesTo(Z!Y, n)
  BY MacFits
<1> HIDE DEF a, V, P, eqs
<1>5. Holds(Published, a, P)
  BY <1>3, PublishedHolds
<1>6. Holds(Tag(n), a, P)
  BY <1>3, TagHolds
<1>7. /\ Len(Published.rhs) = 2
      /\ OccursOnce("w", Published.rhs, 1, P) /\ OccursOnce("wprime", Published.rhs, 2, P)
  BY <1>3, PublishedNotices
<1>8. u[1] = <<"w", "G_w">> /\ u[2] = <<"x0", "U">> /\ u[3] = <<"x1", "tU">>
  BY DEF TagTerms
<1>9. IsRow(u, m)
  BY RowsAre
<1>10. 1..m = {1, 2, 3}
  OBVIOUS
<1> HIDE DEF u, r, m
<1>11. Tag(n).rhs = r
  BY DEF Tag, Z!Equation, u, r
<1>12. Len(r) = m + n
  <2>1. IsRow(r, m + n)
    BY <1>1, <1>9, TermsAre DEF r
  <2> QED
    BY <2>1 DEF IsRow
<1>13. \A x \in {"w", "wprime", "x0", "x1"} : x \notin NamesTo(Z!Y, n)
  <2>1. \A i \in 1..n : i \in 1..5
    BY <1>1
  <2> QED
    BY <2>1, NamesApart DEF NamesTo
<1>14. P["U"] % Q # 0 /\ P["tU"] % Q # 0
  <2>1. t \in NonZero /\ U \in NonZero /\ P["U"] = U /\ P["tU"] = (U * t) % Q
    BY <1>3 DEF TagIn
  <2>2. P["U"] \in NonZero /\ P["tU"] \in NonZero
    BY <2>1, NonZeroIs
  <2> QED
    BY <2>2, NonZeroIs
<1>15. OccursOnce("x0", r, 2, P)
  <2>1. UniqueScalar(u, m, 2) /\ u[2][1] = "x0" /\ u[2][2] = "U"
    BY <1>8, <1>10 DEF UniqueScalar
  <2>2. u[2][1] \notin NamesTo(Z!Y, n)
    BY <1>13, <2>1
  <2>3. P[u[2][2]] % Q # 0
    BY <1>14, <2>1
  <2>4. OccursOnce(u[2][1], Terms(u, Z!MM, n), 2, P)
    BY <1>1, <1>9, <2>1, <2>2, <2>3, OccursInRow
  <2> QED
    BY <2>1, <2>4 DEF r
<1>16. OccursOnce("x1", r, 3, P)
  <2>1. UniqueScalar(u, m, 3) /\ u[3][1] = "x1" /\ u[3][2] = "tU"
    BY <1>8, <1>10 DEF UniqueScalar
  <2>2. u[3][1] \notin NamesTo(Z!Y, n)
    BY <1>13, <2>1
  <2>3. P[u[3][2]] % Q # 0
    BY <1>14, <2>1
  <2>4. OccursOnce(u[3][1], Terms(u, Z!MM, n), 3, P)
    BY <1>1, <1>9, <2>1, <2>2, <2>3, OccursInRow
  <2> QED
    BY <2>1, <2>4 DEF r
<1>17. ASSUME NEW i \in 1..n PROVE OccursOnce(Z!Y[i], r, m + i, P)
  <2>1. NoAttribute(u, m, n)
    BY <1>8, <1>10, <1>13 DEF NoAttribute
  <2>2. P[Z!MM[i]] % Q # 0
    BY <1>3, NonZeroIs
  <2>3. OccursOnce(Z!Y[i], Terms(u, Z!MM, n), m + i, P)
    BY <1>1, <1>9, <2>1, <2>2, OccursInShare
  <2> QED
    BY <2>3 DEF r
<1> QED
  <2> SUFFICES ASSUME NEW x \in AllScalars(eqs)
               PROVE  \E k \in 1..Len(eqs) : \E j \in 1..Len(eqs[k].rhs) :
                        Holds(eqs[k], a, P) /\ OccursOnce(x, eqs[k].rhs, j, P)
    BY DEF Noticed, eqs, a, P, V
  <2>1. 1 \in 1..Len(eqs) /\ 3 \in 1..Len(eqs)
    BY <1>2
  <2>2. \A j : OccursOnce(x, Published.rhs, j, P) =>
               \E k \in 1..Len(eqs) : \E i \in 1..Len(eqs[k].rhs) :
                  Holds(eqs[k], a, P) /\ OccursOnce(x, eqs[k].rhs, i, P)
    BY <1>2, <1>5, <2>1 DEF OccursOnce
  <2>3. \A j : OccursOnce(x, r, j, P) =>
               \E k \in 1..Len(eqs) : \E i \in 1..Len(eqs[k].rhs) :
                  Holds(eqs[k], a, P) /\ OccursOnce(x, eqs[k].rhs, i, P)
    BY <1>2, <1>6, <1>11, <2>1 DEF OccursOnce
  <2>4. CASE x \in {"w", "wprime"}
    BY <1>7, <2>2, <2>4
  <2>5. CASE x \in {"x0", "x1"}
    BY <1>15, <1>16, <2>3, <2>5
  <2>6. CASE x \in NamesTo(Z!Y, n)
    BY <1>17, <2>3, <2>6 DEF NamesTo
  <2> QED
    BY <1>4, <2>4, <2>5, <2>6

\* The scalars are few.
LEMMA KeyScalarsFew ==
  ASSUME NEW n \in 1..5
  PROVE  {"w", "wprime", "x0", "x1", "rprime"} \cup NamesTo(Z!Y, n) \subseteq ScalarSet
<1>1. ScalarList[1] = "w" /\ ScalarList[2] = "wprime" /\ ScalarList[3] = "x0"
      /\ ScalarList[4] = "x1" /\ ScalarList[10] = "rprime"
      /\ \A i \in 1..5 : Z!Y[i] = ScalarList[4 + i]
  BY DEF ScalarList, Z!Y
<1>2. \A i \in 1..n : i \in 1..5 /\ 4 + i \in 1..14
  OBVIOUS
<1>3. NamesTo(Z!Y, n) \subseteq ScalarSet
  BY <1>1, <1>2 DEF NamesTo, ScalarSet
<1>4. 1 \in 1..14 /\ 2 \in 1..14 /\ 3 \in 1..14 /\ 4 \in 1..14 /\ 10 \in 1..14
  OBVIOUS
<1>5. {"w", "wprime", "x0", "x1", "rprime"} \subseteq ScalarSet
  BY <1>1, <1>4 DEF ScalarSet
<1> QED
  BY <1>3, <1>5

\* Credentials for accounts are accepted, and no credential is with a changed proof.
LEMMA MacSound ==
  ASSUME NEW key, NEW size, NEW n, NEW t, NEW U, NEW M, MacFrom(key, size, n, t, U, M),
         NEW nonce, Drawn(nonce), NEW c \in Int
  PROVE  LET stmt  == Z!MacStatement(n)
             p     == Z!MacPoints(key, t, U, Z!PrepareV(key, t, U, M), M)
             proof == Z!Prove(stmt, Z!KeyScalars(key, n), p, nonce, c)
         IN /\ size = n => Z!Verify(stmt, proof, p)
            /\ ChangesRefused(stmt, proof, p)
<1> DEFINE eqs == MacEquations(n)
           V == Z!PrepareV(key, t, U, M)
           a == Z!KeyScalars(key, n)
           p == Z!MacPoints(key, t, U, V, M)
           P == WithG(p)
           proof == Z!Prove(Z!Statement(eqs), a, p, nonce, c)
<1>1. n \in 1..5
  BY DEF MacFrom
<1>2. eqs \in Seq(Equations) /\ Len(eqs) = 3 /\ eqs[1] = Published /\ eqs[2] = Issuing(n)
      /\ eqs[3] = Tag(n)
  BY <1>1, MacEquationsAre
<1>3. Z!MacStatement(n) = Z!Statement(eqs)
  BY <1>1, MacEquationsAre
<1>4. KeyIn(a, P, key, size, n, params.cred) /\ TagIn(P, key, t, U, V, M, n)
  BY MacIn
<1>5. Fits(eqs, a, p) /\ AllScalars(eqs) = {"w", "wprime", "x0", "x1"} \cup NamesTo(Z!Y, n)
  BY MacFits
<1>6. Noticed(eqs, a, P)
  BY MacNoticed
<1> HIDE DEF a, V, p, eqs
<1>7. AllScalars(eqs) \subseteq ScalarSet
  BY <1>1, <1>5, KeyScalarsFew
<1>8. /\ AllHold(eqs, a, P) => Z!Verify(Z!Statement(eqs), proof, p)
      /\ ChangesRefused(Z!Statement(eqs), proof, p)
  <2>1. eqs \in Seq(Equations)
    BY <1>2
  <2> QED
    BY <1>5, <1>6, <1>7, <2>1, ProofIsSound
<1>9. ASSUME size = n PROVE AllHold(eqs, a, P)
  <2>1. KeyIn(a, P, key, n, n, params.cred)
    BY <1>4, <1>9
  <2>2. Holds(Published, a, P) /\ Holds(Issuing(n), a, P)
    BY <2>1, PublishedHolds, IssuingHolds
  <2>3. Holds(Tag(n), a, P)
    BY <1>4, TagHolds
  <2>4. 1..Len(eqs) = {1, 2, 3}
    BY <1>2
  <2> HIDE DEF P
  <2> QED
    BY <1>2, <2>2, <2>3, <2>4 DEF AllHold
<1> QED
  BY <1>3, <1>8, <1>9 DEF a, V, p, eqs

(***************************************************************************)
(* The request for a credential for a profile key                          *)
(***************************************************************************)

\* Sums of rows with one term.
LEMMA RowOfOne ==
  ASSUME NEW u, IsRow(u, 1), NEW a, NEW P, RowNumbers(u, a, P)
  PROVE  Z!Sum(Products(u, a, P)) = P[u[1][2]] * a[u[1][1]]
<1> DEFINE m == 1
           f == Products(u, a, P)
<1>1. IsRow(u, m)
  OBVIOUS
<1> HIDE DEF m, f
<1>2. f \in Seq(Int) /\ Len(f) = m /\ \A i \in 1..m : f[i] = P[u[i][2]] * a[u[i][1]]
  BY <1>1, RowProducts DEF f
<1>3. f[1] = P[u[1][2]] * a[u[1][1]]
  BY <1>2 DEF m
<1>4. f \in Seq(Int) /\ Len(f) = 1
  BY <1>2 DEF m
<1>5. Z!Sum(f) = f[1]
  BY <1>4, SumShort
<1> QED
  BY <1>3, <1>5 DEF f

\* Equations with one and two terms, given by their names.
One(l, s, q) == Z!Equation(l, <<<<s, q>>>>)
Two(l, s, q, t, r) == Z!Equation(l, <<<<s, q>>, <<t, r>>>>)

\* Which equations these are.
IsOne(e, l, s, q) ==
  e \in Equations /\ RowScalars(e) = {s} /\ RowPoints(e) = {l, q} /\ Len(e.rhs) = 1
IsTwo(e, l, s, q, t, r) ==
  e \in Equations /\ RowScalars(e) = {s, t} /\ RowPoints(e) = {l, q, r}

\* Their names.
LEMMA OneIs ==
  ASSUME NEW l \in Identifiers, NEW s \in Identifiers, NEW q \in Identifiers
  PROVE  IsOne(One(l, s, q), l, s, q)
<1> DEFINE e == One(l, s, q)
           u == <<<<s, q>>>>
<1>1. e.lhs = l /\ e.rhs = u /\ e = [lhs |-> l, rhs |-> u]
  BY DEF One, Z!Equation
<1>2. u[1] = <<s, q>> /\ Len(u) = 1 /\ 1..Len(u) = {1} /\ IsRow(u, 1)
  BY DEF IsRow
<1> HIDE DEF u, e
<1>3. e \in Equations
  <2>1. u \in Seq(Identifiers \X Identifiers)
    BY <1>2 DEF IsRow
  <2> QED
    BY <1>1, <2>1 DEF Equations
<1>4. RowScalars(e) = {s} /\ RowPoints(e) = {l, q}
  <2>1. RowScalars(e) = {u[1][1]} /\ RowPoints(e) = {l} \cup {u[1][2]}
    BY <1>1, <1>2 DEF RowScalars, RowPoints
  <2> QED
    BY <1>2, <2>1
<1> QED
  BY <1>1, <1>2, <1>3, <1>4 DEF e, IsOne

\* The one with two terms is one.
LEMMA TwoIs ==
  ASSUME NEW l \in Identifiers, NEW s \in Identifiers, NEW q \in Identifiers,
         NEW t \in Identifiers, NEW r \in Identifiers
  PROVE  IsTwo(Two(l, s, q, t, r), l, s, q, t, r)
<1> DEFINE e == Two(l, s, q, t, r)
           u == <<<<s, q>>, <<t, r>>>>
<1>1. e.lhs = l /\ e.rhs = u /\ e = [lhs |-> l, rhs |-> u]
  BY DEF Two, Z!Equation
<1>2. u[1] = <<s, q>> /\ u[2] = <<t, r>> /\ 1..Len(u) = {1, 2} /\ IsRow(u, 2)
  BY DEF IsRow
<1> HIDE DEF u, e
<1>3. e \in Equations
  <2>1. u \in Seq(Identifiers \X Identifiers)
    BY <1>2 DEF IsRow
  <2> QED
    BY <1>1, <2>1 DEF Equations
<1>4. RowScalars(e) = {s, t} /\ RowPoints(e) = {l, q, r}
  <2>1. RowScalars(e) = {u[1][1], u[2][1]} /\ RowPoints(e) = {l} \cup {u[1][2], u[2][2]}
    BY <1>1, <1>2 DEF RowScalars, RowPoints
  <2> QED
    BY <1>2, <2>1
<1> QED
  BY <1>1, <1>3, <1>4 DEF e, IsTwo

\* The first holds if a product is what is on the left, the second if a sum is.
IsProduct(a, P, l, s, q) == P[q] \in Int /\ a[s] \in Int /\ Cong(P[l], P[q] * a[s])
IsSum(a, P, l, s, q, t, r) ==
  /\ P[q] \in Int /\ a[s] \in Int /\ P[r] \in Int /\ a[t] \in Int
  /\ Cong(P[l], P[q] * a[s] + P[r] * a[t])

\* An equation with one term holds.
LEMMA OneHolds ==
  ASSUME NEW l \in Identifiers, NEW s \in Identifiers, NEW q \in Identifiers,
         NEW a, NEW P, IsProduct(a, P, l, s, q)
  PROVE  Holds(One(l, s, q), a, P)
<1> DEFINE e == One(l, s, q)
           u == <<<<s, q>>>>
<1>1. e.lhs = l /\ e.rhs = u
  BY DEF One, Z!Equation
<1>2. u[1] = <<s, q>> /\ 1..Len(u) = {1} /\ IsRow(u, 1)
  BY DEF IsRow
<1> HIDE DEF u, e
<1>3. P[q] \in Int /\ a[s] \in Int
  BY DEF IsProduct
<1>4. RowNumbers(u, a, P)
  BY <1>2, <1>3 DEF RowNumbers
<1>5. Z!Sum(Products(u, a, P)) = P[u[1][2]] * a[u[1][1]]
  BY <1>2, <1>4, RowOfOne
<1>6. Z!Sum(Products(u, a, P)) = P[q] * a[s]
  BY <1>2, <1>5
<1>7. Cong(P[l], P[q] * a[s])
  BY DEF IsProduct
<1> QED
  BY <1>1, <1>6, <1>7 DEF Holds, e

\* An equation with two terms holds.
LEMMA TwoHolds ==
  ASSUME NEW l \in Identifiers, NEW s \in Identifiers, NEW q \in Identifiers,
         NEW t \in Identifiers, NEW r \in Identifiers, NEW a, NEW P, IsSum(a, P, l, s, q, t, r)
  PROVE  Holds(Two(l, s, q, t, r), a, P)
<1> DEFINE e == Two(l, s, q, t, r)
           u == <<<<s, q>>, <<t, r>>>>
<1>1. e.lhs = l /\ e.rhs = u
  BY DEF Two, Z!Equation
<1>2. u[1] = <<s, q>> /\ u[2] = <<t, r>> /\ 1..Len(u) = {1, 2} /\ IsRow(u, 2)
  BY DEF IsRow
<1> HIDE DEF u, e
<1>3. P[q] \in Int /\ a[s] \in Int /\ P[r] \in Int /\ a[t] \in Int
  BY DEF IsSum
<1>4. RowNumbers(u, a, P)
  BY <1>2, <1>3 DEF RowNumbers
<1>5. Z!Sum(Products(u, a, P)) = P[u[1][2]] * a[u[1][1]] + P[u[2][2]] * a[u[2][1]]
  BY <1>2, <1>4, RowOfTwo
<1>6. Z!Sum(Products(u, a, P)) = P[q] * a[s] + P[r] * a[t]
  BY <1>2, <1>5
<1>7. Cong(P[l], P[q] * a[s] + P[r] * a[t])
  BY DEF IsSum
<1> QED
  BY <1>1, <1>6, <1>7 DEF Holds, e

\* Where the scalar of the first is.
LEMMA OneOccurs ==
  ASSUME NEW l, NEW s, NEW q, NEW P, P[q] % Q # 0
  PROVE  OccursOnce(s, One(l, s, q).rhs, 1, P)
<1> DEFINE u == <<<<s, q>>>>
<1>1. One(l, s, q).rhs = u
  BY DEF One, Z!Equation
<1>2. u[1] = <<s, q>> /\ 1..Len(u) = {1}
  OBVIOUS
<1> HIDE DEF u
<1> QED
  BY <1>1, <1>2 DEF OccursOnce

\* The equations of RequestStatement.
RequestEquations ==
  <<One("Y", "y", "G"), One("D1", "r1", "G"), One("E1", "r2", "G"), One("J3", "j3", "G_j3"),
    Two("D2_J1", "r1", "Y", "j3", "neg_G_j1"), Two("E2_J2", "r2", "Y", "j3", "neg_G_j2")>>

\* The names in these equations.
RequestScalars == {"y", "r1", "r2", "j3"}
RequestNames == {"Y", "D1", "E1", "J3", "G_j3", "D2_J1", "neg_G_j1", "E2_J2", "neg_G_j2"}

\* They are equations, and these are their names.
LEMMA RequestEquationsAre ==
  /\ Z!RequestStatement = Z!Statement(RequestEquations)
  /\ RequestEquations \in Seq(Equations) /\ Len(RequestEquations) = 6
  /\ AllScalars(RequestEquations) = RequestScalars
  /\ AllPoints(RequestEquations) = {"G"} \cup RequestNames
<1> DEFINE eqs == RequestEquations
<1>1. Z!RequestStatement = Z!Statement(eqs)
  BY DEF Z!RequestStatement, RequestEquations, One, Two
<1>2. /\ "G" \in Identifiers /\ "y" \in Identifiers /\ "r1" \in Identifiers
      /\ "r2" \in Identifiers /\ "j3" \in Identifiers
      /\ "Y" \in Identifiers /\ "D1" \in Identifiers /\ "E1" \in Identifiers
      /\ "J3" \in Identifiers /\ "G_j3" \in Identifiers /\ "D2_J1" \in Identifiers
      /\ "neg_G_j1" \in Identifiers /\ "E2_J2" \in Identifiers /\ "neg_G_j2" \in Identifiers
  BY DEF Identifiers
<1> DEFINE e1 == One("Y", "y", "G")
           e2 == One("D1", "r1", "G")
           e3 == One("E1", "r2", "G")
           e4 == One("J3", "j3", "G_j3")
           e5 == Two("D2_J1", "r1", "Y", "j3", "neg_G_j1")
           e6 == Two("E2_J2", "r2", "Y", "j3", "neg_G_j2")
<1>4. IsOne(e1, "Y", "y", "G")
  BY <1>2, OneIs
<1>5. IsOne(e2, "D1", "r1", "G")
  BY <1>2, OneIs
<1>6. IsOne(e3, "E1", "r2", "G")
  BY <1>2, OneIs
<1>7. IsOne(e4, "J3", "j3", "G_j3")
  BY <1>2, OneIs
<1>8. IsTwo(e5, "D2_J1", "r1", "Y", "j3", "neg_G_j1")
  BY <1>2, TwoIs
<1>9. IsTwo(e6, "E2_J2", "r2", "Y", "j3", "neg_G_j2")
  BY <1>2, TwoIs
<1>10. eqs = <<e1, e2, e3, e4, e5, e6>>
  BY DEF RequestEquations
<1> HIDE DEF e1, e2, e3, e4, e5, e6, eqs
<1>3. /\ e1 \in Equations /\ RowScalars(e1) = {"y"} /\ RowPoints(e1) = {"Y", "G"}
      /\ e2 \in Equations /\ RowScalars(e2) = {"r1"} /\ RowPoints(e2) = {"D1", "G"}
      /\ e3 \in Equations /\ RowScalars(e3) = {"r2"} /\ RowPoints(e3) = {"E1", "G"}
      /\ e4 \in Equations /\ RowScalars(e4) = {"j3"} /\ RowPoints(e4) = {"J3", "G_j3"}
      /\ e5 \in Equations /\ RowScalars(e5) = {"r1", "j3"}
      /\ RowPoints(e5) = {"D2_J1", "Y", "neg_G_j1"}
      /\ e6 \in Equations /\ RowScalars(e6) = {"r2", "j3"}
      /\ RowPoints(e6) = {"E2_J2", "Y", "neg_G_j2"}
  BY <1>4, <1>5, <1>6, <1>7, <1>8, <1>9 DEF IsOne, IsTwo
<1>11. eqs \in Seq(Equations) /\ Len(eqs) = 6
  BY <1>3, <1>10
<1>12. eqs[1] = e1 /\ eqs[2] = e2 /\ eqs[3] = e3 /\ eqs[4] = e4 /\ eqs[5] = e5 /\ eqs[6] = e6
  BY <1>10
<1>13. /\ AllScalars(eqs) = RowScalars(eqs[1]) \cup RowScalars(eqs[2]) \cup RowScalars(eqs[3])
                              \cup RowScalars(eqs[4]) \cup RowScalars(eqs[5]) \cup RowScalars(eqs[6])
       /\ AllPoints(eqs) =
            {"G"} \cup RowPoints(eqs[1]) \cup RowPoints(eqs[2]) \cup RowPoints(eqs[3])
              \cup RowPoints(eqs[4]) \cup RowPoints(eqs[5]) \cup RowPoints(eqs[6])
  BY <1>11, NamesOfSix
<1>14. AllScalars(eqs) = RequestScalars /\ AllPoints(eqs) = {"G"} \cup RequestNames
  BY <1>3, <1>12, <1>13 DEF RequestScalars, RequestNames
<1> QED
  BY <1>1, <1>11, <1>14 DEF eqs

\* The parameters for profile keys.
IsPkc(G) == G \in Seq(NonZero) /\ Len(G) = 3

\* A client's profile key p, and the request for it with the client's secret s.
RequestFrom(r, s, p) == IsPkc(params.pkc) /\ IsEncrypted(r, s, p) /\ p \in ProfileKeys
ScalarsOf(r, s, p) == [y |-> s, r1 |-> r.D1, r2 |-> r.E1, j3 |-> p.j3]

\* Profile keys, and what a client commits to.
LEMMA CommitmentIs ==
  ASSUME IsPkc(params.pkc), NEW p \in ProfileKeys
  PROVE  LET c == Z!Commitment(p) G == params.pkc IN
         /\ G[1] \in NonZero /\ G[2] \in NonZero /\ G[3] \in NonZero
         /\ p.j3 \in 0..(Q - 1) /\ p.M3 \in 0..(Q - 1) /\ p.M4 \in 0..(Q - 1)
         /\ p.j3 \in Int /\ p.M3 \in Int /\ p.M4 \in Int
         /\ c.J1 \in 0..(Q - 1) /\ Cong(c.J1, p.j3 * G[1] + p.M3)
         /\ c.J2 \in 0..(Q - 1) /\ Cong(c.J2, p.j3 * G[2] + p.M4)
         /\ c.J3 \in 0..(Q - 1) /\ c.J3 = (p.j3 * G[3]) % Q
<1> DEFINE c == Z!Commitment(p)
           G == params.pkc
           j3 == p.j3
           M3 == p.M3
           M4 == p.M4
<1>1. G[1] \in NonZero /\ G[2] \in NonZero /\ G[3] \in NonZero
  BY SeqIsFunction DEF IsPkc
<1>2. G[1] \in Int /\ G[2] \in Int /\ G[3] \in Int
  BY <1>1, NonZeroIs
<1>3. j3 \in 0..(Q - 1) /\ M3 \in 0..(Q - 1) /\ M4 \in 0..(Q - 1)
  BY ProfileKeysAssumption
<1>4. j3 \in Int /\ M3 \in Int /\ M4 \in Int
  BY <1>3
<1> DEFINE a == j3 * G[1] + M3
           b == j3 * G[2] + M4
           d == j3 * G[3]
<1>5. c.J1 = a % Q /\ c.J2 = b % Q /\ c.J3 = d % Q
  BY DEF Z!Commitment
<1>6. a \in Int /\ b \in Int /\ d \in Int
  BY <1>2, <1>4
<1> HIDE DEF a, b, d
<1>7. /\ a % Q \in 0..(Q - 1) /\ Cong(a % Q, a) /\ b % Q \in 0..(Q - 1) /\ Cong(b % Q, b)
      /\ d % Q \in 0..(Q - 1)
  BY <1>6, CongMod
<1>8. c.J1 \in 0..(Q - 1) /\ Cong(c.J1, a) /\ c.J2 \in 0..(Q - 1) /\ Cong(c.J2, b)
      /\ c.J3 \in 0..(Q - 1)
  BY <1>5, <1>7
<1> QED
  BY <1>1, <1>3, <1>4, <1>5, <1>8 DEF a, b, d

\* The points of a request r and a commitment c, and their values.
ArePoints(P, c, r) ==
  /\ DOMAIN P = {"G"} \cup RequestNames
  /\ P["G"] = 1 /\ P["Y"] = r.publicKey /\ P["D1"] = r.D1 /\ P["E1"] = r.E1
  /\ P["J3"] = c.J3 /\ P["G_j3"] = params.pkc[3]
  /\ P["D2_J1"] = (r.D2 - c.J1) % Q /\ P["neg_G_j1"] = (-params.pkc[1]) % Q
  /\ P["E2_J2"] = (r.E2 - c.J2) % Q /\ P["neg_G_j2"] = (-params.pkc[2]) % Q

\* The points of a request.
LEMMA RequestPointsAre ==
  ASSUME NEW c, NEW r
  PROVE  ArePoints(WithG(Z!RequestPoints(c, r)), c, r)
<1> DEFINE A == Z!RequestPoints(c, r)
           F == [G |-> 1]
           P == Z!Join(A, F)
<1>1. WithG(Z!RequestPoints(c, r)) = P
  BY DEF WithG
<1>2. /\ DOMAIN A = RequestNames
      /\ A["Y"] = r.publicKey /\ A["D1"] = r.D1 /\ A["E1"] = r.E1
      /\ A["J3"] = c.J3 /\ A["G_j3"] = params.pkc[3]
      /\ A["D2_J1"] = (r.D2 - c.J1) % Q /\ A["neg_G_j1"] = (-params.pkc[1]) % Q
      /\ A["E2_J2"] = (r.E2 - c.J2) % Q /\ A["neg_G_j2"] = (-params.pkc[2]) % Q
  BY DEF Z!RequestPoints, RequestNames
<1>3. DOMAIN F = {"G"} /\ F["G"] = 1
  OBVIOUS
<1>4. "G" \notin RequestNames
  BY DEF RequestNames
<1> HIDE DEF A, F
<1>5. /\ DOMAIN P = DOMAIN A \cup DOMAIN F
      /\ \A x \in DOMAIN A : P[x] = A[x]
      /\ \A x \in DOMAIN F : P[x] = F[x]
  <2>1. DOMAIN A \cap DOMAIN F = {}
    BY <1>2, <1>3, <1>4
  <2> QED
    BY <2>1, JoinApart
<1> HIDE DEF P
<1>6. DOMAIN P = {"G"} \cup RequestNames /\ P["G"] = 1
  BY <1>2, <1>3, <1>5
<1>7. \A x \in RequestNames : P[x] = A[x]
  BY <1>2, <1>5
<1>8. /\ P["Y"] = A["Y"] /\ P["D1"] = A["D1"] /\ P["E1"] = A["E1"] /\ P["J3"] = A["J3"]
      /\ P["G_j3"] = A["G_j3"] /\ P["D2_J1"] = A["D2_J1"] /\ P["neg_G_j1"] = A["neg_G_j1"]
      /\ P["E2_J2"] = A["E2_J2"] /\ P["neg_G_j2"] = A["neg_G_j2"]
  BY <1>7 DEF RequestNames
<1> QED
  BY <1>1, <1>2, <1>6, <1>8 DEF ArePoints

\* They are numbers, for the commitment to any profile key.
LEMMA PointsNumbers ==
  ASSUME NEW r, NEW s, NEW p, RequestFrom(r, s, p), NEW other \in ProfileKeys, NEW P,
         ArePoints(P, Z!Commitment(other), r)
  PROVE  /\ \A x \in {"G"} \cup RequestNames : P[x] \in Int
         /\ LET c == Z!Commitment(other) IN
            /\ P["D2_J1"] \in 0..(Q - 1) /\ Cong(P["D2_J1"], r.D2 - c.J1)
            /\ P["E2_J2"] \in 0..(Q - 1) /\ Cong(P["E2_J2"], r.E2 - c.J2)
            /\ Cong(P["neg_G_j1"], -params.pkc[1]) /\ Cong(P["neg_G_j2"], -params.pkc[2])
<1> DEFINE c == Z!Commitment(other)
           G == params.pkc
           a == r.D2 - c.J1
           b == r.E2 - c.J2
           d == -G[1]
           e == -G[2]
<1>1. IsPkc(params.pkc) /\ IsEncrypted(r, s, p)
  BY DEF RequestFrom
<1>2. /\ G[1] \in NonZero /\ G[2] \in NonZero /\ G[3] \in NonZero
      /\ c.J1 \in 0..(Q - 1) /\ c.J2 \in 0..(Q - 1) /\ c.J3 \in 0..(Q - 1)
  BY <1>1, CommitmentIs
<1>3. G[1] \in Int /\ G[2] \in Int /\ G[3] \in Int /\ c.J1 \in Int /\ c.J2 \in Int /\ c.J3 \in Int
  BY <1>2, NonZeroIs
<1>4. s \in Int /\ r.D1 \in Int /\ r.E1 \in Int /\ r.D2 \in Int /\ r.E2 \in Int /\ r.publicKey = s
  BY <1>1, EncryptedIs DEF IsEncrypted
<1>5. a \in Int /\ b \in Int /\ d \in Int /\ e \in Int
  BY <1>3, <1>4
<1>6. /\ P["D2_J1"] = a % Q /\ P["neg_G_j1"] = d % Q
      /\ P["E2_J2"] = b % Q /\ P["neg_G_j2"] = e % Q
  BY DEF ArePoints
<1>7. /\ P["G"] = 1 /\ P["Y"] = s /\ P["D1"] = r.D1 /\ P["E1"] = r.E1
      /\ P["J3"] = c.J3 /\ P["G_j3"] = G[3]
  BY <1>4 DEF ArePoints
<1> HIDE DEF a, b, d, e, c
<1>8. /\ a % Q \in 0..(Q - 1) /\ Cong(a % Q, a) /\ b % Q \in 0..(Q - 1) /\ Cong(b % Q, b)
      /\ d % Q \in 0..(Q - 1) /\ Cong(d % Q, d) /\ e % Q \in 0..(Q - 1) /\ Cong(e % Q, e)
  BY <1>5, CongMod
<1>9. /\ P["D2_J1"] \in 0..(Q - 1) /\ Cong(P["D2_J1"], a)
      /\ P["E2_J2"] \in 0..(Q - 1) /\ Cong(P["E2_J2"], b)
      /\ P["neg_G_j1"] \in 0..(Q - 1) /\ Cong(P["neg_G_j1"], d)
      /\ P["neg_G_j2"] \in 0..(Q - 1) /\ Cong(P["neg_G_j2"], e)
  BY <1>6, <1>8
<1>10. P["D2_J1"] \in Int /\ P["E2_J2"] \in Int /\ P["neg_G_j1"] \in Int /\ P["neg_G_j2"] \in Int
  BY <1>9
<1>11. P["G"] \in Int /\ P["Y"] \in Int /\ P["D1"] \in Int /\ P["E1"] \in Int /\ P["J3"] \in Int
       /\ P["G_j3"] \in Int
  BY <1>3, <1>4, <1>7
<1>12. \A x \in {"G"} \cup RequestNames : P[x] \in Int
  BY <1>10, <1>11 DEF RequestNames
<1> QED
  BY <1>9, <1>12 DEF a, b, d, e, c

\* The values of the scalars.
LEMMA ScalarsAre ==
  ASSUME NEW r, NEW s, NEW p, RequestFrom(r, s, p)
  PROVE  LET a == ScalarsOf(r, s, p) IN
         /\ DOMAIN a = RequestScalars
         /\ a["y"] = s /\ a["r1"] = r.D1 /\ a["r2"] = r.E1 /\ a["j3"] = p.j3
         /\ s \in Int /\ r.D1 \in Int /\ r.E1 \in Int /\ p.j3 \in Int
         /\ Numbers(a, RequestScalars)
<1>1. IsPkc(params.pkc) /\ IsEncrypted(r, s, p) /\ p \in ProfileKeys
  BY DEF RequestFrom
<1>2. s \in Int /\ r.D1 \in Int /\ r.E1 \in Int
  BY <1>1, EncryptedIs
<1>3. p.j3 \in Int
  BY <1>1, CommitmentIs
<1> DEFINE a == ScalarsOf(r, s, p)
<1>4. /\ DOMAIN a = RequestScalars
      /\ a["y"] = s /\ a["r1"] = r.D1 /\ a["r2"] = r.E1 /\ a["j3"] = p.j3
  BY DEF ScalarsOf, RequestScalars
<1> HIDE DEF a
<1>5. Numbers(a, RequestScalars)
  BY <1>2, <1>3, <1>4 DEF Numbers, RequestScalars
<1> QED
  BY <1>2, <1>3, <1>4, <1>5 DEF a

\* The values fit the equations, for the commitment to any profile key.
LEMMA RequestFits ==
  ASSUME NEW r, NEW s, NEW p, RequestFrom(r, s, p), NEW other \in ProfileKeys
  PROVE  Fits(RequestEquations, ScalarsOf(r, s, p), Z!RequestPoints(Z!Commitment(other), r))
<1> DEFINE eqs == RequestEquations
           a == ScalarsOf(r, s, p)
           P == WithG(Z!RequestPoints(Z!Commitment(other), r))
<1>1. DOMAIN a = RequestScalars /\ Numbers(a, RequestScalars)
  BY ScalarsAre
<1>2. ArePoints(P, Z!Commitment(other), r)
  BY RequestPointsAre
<1> HIDE DEF P, a, eqs
<1>3. \A x \in {"G"} \cup RequestNames : P[x] \in Int
  BY <1>2, PointsNumbers
<1>4. AllScalars(eqs) = RequestScalars /\ AllPoints(eqs) = {"G"} \cup RequestNames
  BY RequestEquationsAre DEF eqs
<1>5. DOMAIN P = AllPoints(eqs) /\ Numbers(P, AllPoints(eqs))
  BY <1>2, <1>3, <1>4 DEF ArePoints, Numbers
<1>6. DOMAIN a = AllScalars(eqs) /\ Numbers(a, AllScalars(eqs))
  BY <1>1, <1>4
<1> QED
  BY <1>5, <1>6 DEF Fits, P, a, eqs

\* What is committed to and encrypted drops out of the difference of both.
Differs(D1, s, M, g, j, D2, J, l, n) ==
  /\ D1 \in Int /\ s \in Int /\ M \in Int /\ g \in Int /\ j \in Int
  /\ D2 \in Int /\ J \in Int /\ l \in Int /\ n \in Int
  /\ Cong(D2, D1 * s + M) /\ Cong(J, j * g + M) /\ Cong(l, D2 - J) /\ Cong(n, -g)

\* The encrypted point drops out of the difference of D2 and the commitment.
LEMMA DropsOut ==
  ASSUME NEW D1, NEW s, NEW M, NEW g, NEW j, NEW D2, NEW J, NEW l, NEW n,
         Differs(D1, s, M, g, j, D2, J, l, n)
  PROVE  Cong(l, s * D1 + n * j)
<1> DEFINE a == D1 * s + M
           b == j * g + M
           e == -g
           x == s * D1
           y == e * j
           z == n * j
<1>1. /\ D1 \in Int /\ s \in Int /\ M \in Int /\ g \in Int /\ j \in Int
      /\ D2 \in Int /\ J \in Int /\ l \in Int /\ n \in Int
  BY DEF Differs
<1>2. Cong(D2, a) /\ Cong(J, b) /\ Cong(l, D2 - J) /\ Cong(n, e)
  BY DEF Differs
<1>3. a \in Int /\ b \in Int /\ e \in Int /\ x \in Int /\ y \in Int /\ z \in Int
  BY <1>1
<1>4. a - b = x + y
  BY <1>1, Z3
<1> HIDE DEF a, b, e, x
<1>5. D2 - J \in Int /\ a - b \in Int
  BY <1>1, <1>3
<1>6. Cong(D2 - J, a - b)
  BY <1>1, <1>2, <1>3, CongSub
<1>7. Cong(l, x + y)
  <2>1. Cong(l, a - b)
    BY <1>1, <1>2, <1>5, <1>6, CongTrans
  <2> QED
    BY <1>4, <2>1
<1>8. Cong(y, z)
  <2>1. Cong(e, n) /\ Cong(j, j)
    BY <1>1, <1>2, <1>3, CongSym, CongRefl
  <2> QED
    BY <1>1, <1>3, <2>1, CongMul
<1> HIDE DEF y, z
<1>9. Cong(x + y, x + z) /\ x + y \in Int /\ x + z \in Int
  <2>1. Cong(x, x)
    BY <1>3, CongRefl
  <2> QED
    BY <1>3, <1>8, <2>1, CongAdd
<1>10. Cong(l, x + z)
  BY <1>1, <1>7, <1>9, CongTrans
<1> QED
  BY <1>10 DEF x, z

\* The equations hold for the commitment to the profile key that is encrypted.
LEMMA RequestHolds ==
  ASSUME NEW r, NEW s, NEW p, RequestFrom(r, s, p)
  PROVE  AllHold(RequestEquations, ScalarsOf(r, s, p),
                 WithG(Z!RequestPoints(Z!Commitment(p), r)))
<1> DEFINE eqs == RequestEquations
           a == ScalarsOf(r, s, p)
           c == Z!Commitment(p)
           P == WithG(Z!RequestPoints(c, r))
           G == params.pkc
<1>1. IsPkc(params.pkc) /\ IsEncrypted(r, s, p) /\ p \in ProfileKeys
  BY DEF RequestFrom
<1>2. a["y"] = s /\ a["r1"] = r.D1 /\ a["r2"] = r.E1 /\ a["j3"] = p.j3
      /\ s \in Int /\ r.D1 \in Int /\ r.E1 \in Int /\ p.j3 \in Int
  BY ScalarsAre
<1>3. ArePoints(P, c, r)
  BY RequestPointsAre
<1>4. /\ G[1] \in Int /\ G[2] \in Int /\ G[3] \in Int
      /\ p.M3 \in Int /\ p.M4 \in Int /\ c.J1 \in Int /\ c.J2 \in Int
      /\ Cong(c.J1, p.j3 * G[1] + p.M3) /\ Cong(c.J2, p.j3 * G[2] + p.M4)
      /\ c.J3 = (p.j3 * G[3]) % Q
  <2>1. G[1] \in NonZero /\ G[2] \in NonZero /\ G[3] \in NonZero
    BY <1>1, CommitmentIs
  <2>2. c.J1 \in 0..(Q - 1) /\ c.J2 \in 0..(Q - 1)
    BY <1>1, CommitmentIs
  <2> QED
    BY <1>1, <2>1, <2>2, CommitmentIs, NonZeroIs
<1>5. /\ r.D2 \in Int /\ r.E2 \in Int /\ r.publicKey = s
      /\ Cong(r.D2, r.D1 * s + p.M3) /\ Cong(r.E2, r.E1 * s + p.M4)
  BY <1>1, EncryptedIs DEF IsEncrypted
<1> HIDE DEF a, c, P, G
<1>6. /\ \A x \in {"G"} \cup RequestNames : P[x] \in Int
      /\ Cong(P["D2_J1"], r.D2 - c.J1) /\ Cong(P["E2_J2"], r.E2 - c.J2)
      /\ Cong(P["neg_G_j1"], -G[1]) /\ Cong(P["neg_G_j2"], -G[2])
  BY <1>1, <1>3, PointsNumbers DEF c, G
<1>7. /\ P["G"] = 1 /\ P["Y"] = s /\ P["D1"] = r.D1 /\ P["E1"] = r.E1
      /\ P["J3"] = c.J3 /\ P["G_j3"] = G[3]
  BY <1>3, <1>5 DEF ArePoints, G
<1>8. P["D2_J1"] \in Int /\ P["E2_J2"] \in Int /\ P["neg_G_j1"] \in Int /\ P["neg_G_j2"] \in Int
  BY <1>6 DEF RequestNames
<1>9. IsProduct(a, P, "Y", "y", "G")
  <2>1. s = 1 * s
    BY <1>2
  <2> QED
    BY <1>2, <1>7, <2>1, CongRefl DEF IsProduct
<1>10. IsProduct(a, P, "D1", "r1", "G")
  <2>1. r.D1 = 1 * r.D1
    BY <1>2
  <2> QED
    BY <1>2, <1>7, <2>1, CongRefl DEF IsProduct
<1>11. IsProduct(a, P, "E1", "r2", "G")
  <2>1. r.E1 = 1 * r.E1
    BY <1>2
  <2> QED
    BY <1>2, <1>7, <2>1, CongRefl DEF IsProduct
<1>12. IsProduct(a, P, "J3", "j3", "G_j3")
  <2> DEFINE d == p.j3 * G[3]
  <2>1. d \in Int /\ d = G[3] * p.j3
    BY <1>2, <1>4
  <2>2. c.J3 = d % Q
    BY <1>4
  <2> HIDE DEF d
  <2>3. Cong(d % Q, d)
    BY <2>1, CongMod
  <2>4. Cong(c.J3, d)
    BY <2>2, <2>3
  <2>5. Cong(P["J3"], P["G_j3"] * a["j3"])
    BY <1>2, <1>7, <2>1, <2>4
  <2> QED
    BY <1>2, <1>4, <1>7, <2>5 DEF IsProduct
<1>13. IsSum(a, P, "D2_J1", "r1", "Y", "j3", "neg_G_j1")
  <2>1. Differs(r.D1, s, p.M3, G[1], p.j3, r.D2, c.J1, P["D2_J1"], P["neg_G_j1"])
    BY <1>2, <1>4, <1>5, <1>6, <1>8 DEF Differs
  <2>2. Cong(P["D2_J1"], s * r.D1 + P["neg_G_j1"] * p.j3)
    BY <2>1, DropsOut
  <2> QED
    BY <1>2, <1>7, <1>8, <2>2 DEF IsSum
<1>14. IsSum(a, P, "E2_J2", "r2", "Y", "j3", "neg_G_j2")
  <2>1. Differs(r.E1, s, p.M4, G[2], p.j3, r.E2, c.J2, P["E2_J2"], P["neg_G_j2"])
    BY <1>2, <1>4, <1>5, <1>6, <1>8 DEF Differs
  <2>2. Cong(P["E2_J2"], s * r.E1 + P["neg_G_j2"] * p.j3)
    BY <2>1, DropsOut
  <2> QED
    BY <1>2, <1>7, <1>8, <2>2 DEF IsSum
<1>15. /\ "G" \in Identifiers /\ "y" \in Identifiers /\ "r1" \in Identifiers
       /\ "r2" \in Identifiers /\ "j3" \in Identifiers
       /\ "Y" \in Identifiers /\ "D1" \in Identifiers /\ "E1" \in Identifiers
       /\ "J3" \in Identifiers /\ "G_j3" \in Identifiers /\ "D2_J1" \in Identifiers
       /\ "neg_G_j1" \in Identifiers /\ "E2_J2" \in Identifiers /\ "neg_G_j2" \in Identifiers
  BY DEF Identifiers
<1>16. Holds(One("Y", "y", "G"), a, P)
  BY <1>9, <1>15, OneHolds
<1>17. Holds(One("D1", "r1", "G"), a, P)
  BY <1>10, <1>15, OneHolds
<1>18. Holds(One("E1", "r2", "G"), a, P)
  BY <1>11, <1>15, OneHolds
<1>19. Holds(One("J3", "j3", "G_j3"), a, P)
  BY <1>12, <1>15, OneHolds
<1>20. Holds(Two("D2_J1", "r1", "Y", "j3", "neg_G_j1"), a, P)
  BY <1>13, <1>15, TwoHolds
<1>21. Holds(Two("E2_J2", "r2", "Y", "j3", "neg_G_j2"), a, P)
  BY <1>14, <1>15, TwoHolds
<1>22. /\ eqs[1] = One("Y", "y", "G") /\ eqs[2] = One("D1", "r1", "G")
       /\ eqs[3] = One("E1", "r2", "G") /\ eqs[4] = One("J3", "j3", "G_j3")
       /\ eqs[5] = Two("D2_J1", "r1", "Y", "j3", "neg_G_j1")
       /\ eqs[6] = Two("E2_J2", "r2", "Y", "j3", "neg_G_j2")
  BY DEF RequestEquations
<1>23. 1..Len(eqs) = {1, 2, 3, 4, 5, 6}
  BY RequestEquationsAre
<1> HIDE DEF eqs
<1>24. \A k \in 1..Len(eqs) : Holds(eqs[k], a, P)
  BY <1>16, <1>17, <1>18, <1>19, <1>20, <1>21, <1>22, <1>23
<1> QED
  BY <1>24 DEF AllHold, eqs, a, P, c

\* Every scalar is noticed, in the equation in which it is alone.
LEMMA RequestNoticed ==
  ASSUME NEW r, NEW s, NEW p, RequestFrom(r, s, p)
  PROVE  Noticed(RequestEquations, ScalarsOf(r, s, p),
                 WithG(Z!RequestPoints(Z!Commitment(p), r)))
<1> DEFINE eqs == RequestEquations
           a == ScalarsOf(r, s, p)
           c == Z!Commitment(p)
           P == WithG(Z!RequestPoints(c, r))
<1>1. AllHold(eqs, a, P)
  BY RequestHolds
<1>2. P["G"] = 1 /\ P["G_j3"] = params.pkc[3]
  <2>1. ArePoints(P, c, r)
    BY RequestPointsAre
  <2> HIDE DEF P
  <2> QED
    BY <2>1 DEF ArePoints
<1>3. params.pkc[3] \in NonZero
  BY CommitmentIs DEF RequestFrom
<1> HIDE DEF a, P
<1>4. P["G"] % Q # 0 /\ P["G_j3"] % Q # 0
  <2>1. 1 \in NonZero
    BY QAssumption DEF NonZero
  <2> QED
    BY <1>2, <1>3, <2>1, NonZeroIs
<1> DEFINE e1 == One("Y", "y", "G")
           e2 == One("D1", "r1", "G")
           e3 == One("E1", "r2", "G")
           e4 == One("J3", "j3", "G_j3")
<1>5. eqs[1] = e1 /\ eqs[2] = e2 /\ eqs[3] = e3 /\ eqs[4] = e4
  BY DEF RequestEquations
<1>6. /\ OccursOnce("y", e1.rhs, 1, P) /\ OccursOnce("r1", e2.rhs, 1, P)
      /\ OccursOnce("r2", e3.rhs, 1, P) /\ OccursOnce("j3", e4.rhs, 1, P)
  BY <1>4, OneOccurs
<1>7. 1 \in 1..Len(eqs) /\ 2 \in 1..Len(eqs) /\ 3 \in 1..Len(eqs) /\ 4 \in 1..Len(eqs)
  BY RequestEquationsAre
<1>8. AllScalars(eqs) = RequestScalars
  BY RequestEquationsAre
<1> HIDE DEF eqs, e1, e2, e3, e4
<1> QED
  <2> SUFFICES ASSUME NEW x \in RequestScalars
               PROVE  \E k \in 1..Len(eqs) : \E j \in 1..Len(eqs[k].rhs) :
                        Holds(eqs[k], a, P) /\ OccursOnce(x, eqs[k].rhs, j, P)
    BY <1>8 DEF Noticed, eqs, a, P
  <2>1. \A k \in 1..Len(eqs) : Holds(eqs[k], a, P)
    BY <1>1 DEF AllHold
  <2>2. \A k \in 1..Len(eqs) : OccursOnce(x, eqs[k].rhs, 1, P) =>
          1 \in 1..Len(eqs[k].rhs) /\ Holds(eqs[k], a, P) /\ OccursOnce(x, eqs[k].rhs, 1, P)
    BY <2>1 DEF OccursOnce
  <2>3. x \in {"y", "r1", "r2", "j3"}
    BY DEF RequestScalars
  <2>4. \E k \in 1..Len(eqs) : OccursOnce(x, eqs[k].rhs, 1, P)
    BY <1>5, <1>6, <1>7, <2>3
  <2> QED
    BY <2>2, <2>4

\* A request is accepted for the profile key it was made for, and not after a change.
LEMMA RequestSound ==
  ASSUME NEW r, NEW s, NEW p, RequestFrom(r, s, p), NEW nonce, Drawn(nonce), NEW c \in Int
  PROVE  LET q     == Z!RequestPoints(Z!Commitment(p), r)
             proof == Z!Prove(Z!RequestStatement, ScalarsOf(r, s, p), q, nonce, c)
         IN /\ Z!Verify(Z!RequestStatement, proof, q)
            /\ ChangesRefused(Z!RequestStatement, proof, q)
<1> DEFINE eqs == RequestEquations
           a == ScalarsOf(r, s, p)
           q == Z!RequestPoints(Z!Commitment(p), r)
           proof == Z!Prove(Z!Statement(eqs), a, q, nonce, c)
<1>1. Fits(eqs, a, q)
  BY RequestFits DEF RequestFrom
<1>2. Noticed(eqs, a, WithG(q)) /\ AllHold(eqs, a, WithG(q))
  BY RequestNoticed, RequestHolds
<1>3. Z!RequestStatement = Z!Statement(eqs) /\ eqs \in Seq(Equations)
      /\ AllScalars(eqs) = RequestScalars
  BY RequestEquationsAre
<1>4. RequestScalars \subseteq ScalarSet
  <2>1. ScalarList[11] = "y" /\ ScalarList[12] = "r1" /\ ScalarList[13] = "r2"
        /\ ScalarList[14] = "j3"
    BY DEF ScalarList
  <2>2. 11 \in 1..14 /\ 12 \in 1..14 /\ 13 \in 1..14 /\ 14 \in 1..14
    OBVIOUS
  <2> QED
    BY <2>1, <2>2 DEF ScalarSet, RequestScalars
<1> HIDE DEF eqs, a, q
<1>5. /\ AllHold(eqs, a, WithG(q)) => Z!Verify(Z!Statement(eqs), proof, q)
      /\ ChangesRefused(Z!Statement(eqs), proof, q)
  BY <1>1, <1>2, <1>3, <1>4, ProofIsSound
<1> QED
  BY <1>2, <1>3, <1>5 DEF eqs, a, q

\* A factor that is not zero can be cancelled.
LEMMA Cancel ==
  ASSUME NEW a \in 0..(Q - 1), NEW b \in 0..(Q - 1), NEW g \in NonZero, (a * g) % Q = (b * g) % Q
  PROVE  a = b
<1>1. \A x, y \in 0..(Q - 1) : x > y /\ Cong(x * g, y * g) => FALSE
  <2> SUFFICES ASSUME NEW x \in 0..(Q - 1), NEW y \in 0..(Q - 1), x > y, Cong(x * g, y * g)
               PROVE  FALSE
    OBVIOUS
  <2> DEFINE d == x - y
             u == x * g
             v == y * g
  <2>1. x \in Int /\ y \in Int /\ g \in Int
    BY NonZeroIs
  <2>2. d \in NonZero
    BY QAssumption DEF NonZero
  <2>3. d * g = u - v
    BY <2>1, Z3
  <2>4. u \in Int /\ v \in Int
    BY <2>1
  <2>5. (d * g) % Q \in NonZero
    BY <2>2, NonZeroIs
  <2> HIDE DEF u, v, d
  <2>6. u - v \in Int /\ v - v \in Int /\ v - v = 0 /\ 0 \in Int
    BY <2>4
  <2>7. Cong(u - v, v - v)
    <3>1. Cong(u, v) /\ Cong(v, v)
      BY <2>4, CongRefl DEF u, v
    <3> QED
      BY <2>4, <3>1, CongSub
  <2>8. (u - v) % Q = 0 % Q
    BY <2>6, <2>7, CongSame
  <2>9. 0 % Q = 0
    BY QAssumption
  <2>10. (u - v) % Q \in NonZero
    BY <2>3, <2>5
  <2> QED
    BY <2>8, <2>9, <2>10 DEF NonZero
<1>2. a \in Int /\ b \in Int /\ g \in Int
  BY NonZeroIs
<1>3. a * g \in Int /\ b * g \in Int
  BY <1>2
<1>4. Cong(a * g, b * g)
  <2> DEFINE u == a * g
             v == b * g
  <2>1. u \in Int /\ v \in Int /\ u % Q = v % Q
    BY <1>3
  <2> HIDE DEF u, v
  <2>2. Cong(u, v)
    BY <2>1, SameCong
  <2> QED
    BY <2>2 DEF u, v
<1>5. Cong(b * g, a * g)
  BY <1>3, <1>4, CongSym
<1>6. ~ (a > b) /\ ~ (b > a)
  BY <1>1, <1>4, <1>5
<1> QED
  BY <1>2, <1>6

\* Numbers that differ from the same number by the same are the same modulo Q.
LEMMA SameDifference ==
  ASSUME NEW l \in Int, NEW a \in Int, NEW b \in Int, NEW d \in Int,
         Cong(l, d - a), Cong(l, d - b)
  PROVE  Cong(a, b)
<1> DEFINE x == d - a
           y == d - b
<1>1. x \in Int /\ y \in Int /\ d - x = a /\ d - y = b
  OBVIOUS
<1> HIDE DEF x, y
<1>2. Cong(l, x) /\ Cong(l, y)
  BY DEF x, y
<1>3. Cong(x, y)
  BY <1>1, <1>2, CongSym, CongTrans
<1>4. Cong(d - x, d - y)
  BY <1>1, <1>3, CongRefl, CongSub
<1> QED
  BY <1>1, <1>4

\* Commitments to profile keys that are alike where the points of a request are
\* compared with them are commitments to the same profile key.
LEMMA CommitmentsDiffer ==
  ASSUME IsPkc(params.pkc), NEW p \in ProfileKeys, NEW o \in ProfileKeys,
         Cong(Z!Commitment(p).J1, Z!Commitment(o).J1), Cong(Z!Commitment(p).J2, Z!Commitment(o).J2),
         Z!Commitment(p).J3 = Z!Commitment(o).J3
  PROVE  p = o
<1> DEFINE c == Z!Commitment(p)
           e == Z!Commitment(o)
           G == params.pkc
<1>1. /\ G[1] \in NonZero /\ G[2] \in NonZero /\ G[3] \in NonZero
      /\ p.j3 \in 0..(Q - 1) /\ p.M3 \in 0..(Q - 1) /\ p.M4 \in 0..(Q - 1)
      /\ c.J1 \in 0..(Q - 1) /\ Cong(c.J1, p.j3 * G[1] + p.M3)
      /\ c.J2 \in 0..(Q - 1) /\ Cong(c.J2, p.j3 * G[2] + p.M4)
      /\ c.J3 = (p.j3 * G[3]) % Q
  BY CommitmentIs
<1>2. /\ o.j3 \in 0..(Q - 1) /\ o.M3 \in 0..(Q - 1) /\ o.M4 \in 0..(Q - 1)
      /\ e.J1 \in 0..(Q - 1) /\ Cong(e.J1, o.j3 * G[1] + o.M3)
      /\ e.J2 \in 0..(Q - 1) /\ Cong(e.J2, o.j3 * G[2] + o.M4)
      /\ e.J3 = (o.j3 * G[3]) % Q
  BY CommitmentIs
<1>3. Cong(c.J1, e.J1) /\ Cong(c.J2, e.J2) /\ c.J3 = e.J3
  OBVIOUS
<1> HIDE DEF c, e, G
<1>4. p.j3 = o.j3
  <2>1. (p.j3 * G[3]) % Q = (o.j3 * G[3]) % Q
    BY <1>1, <1>2, <1>3
  <2> QED
    BY <1>1, <1>2, <2>1, Cancel
<1>5. ASSUME NEW J \in Int, NEW K \in Int, NEW g \in Int, NEW M \in 0..(Q - 1), NEW N \in 0..(Q - 1),
             Cong(J, p.j3 * g + M), Cong(K, p.j3 * g + N), Cong(J, K)
      PROVE  M = N
  <2> DEFINE f == p.j3 * g
             x == f + M
             y == f + N
  <2>1. p.j3 \in Int /\ M \in Int /\ N \in Int
    BY <1>1
  <2>2. f \in Int
    BY <2>1
  <2>3. Cong(J, x) /\ Cong(K, y) /\ Cong(J, K)
    BY <1>5
  <2> HIDE DEF f
  <2>4. x \in Int /\ y \in Int /\ x - f = M /\ y - f = N
    BY <2>1, <2>2
  <2> HIDE DEF x, y
  <2>5. Cong(x, y)
    BY <2>3, <2>4, CongSym, CongTrans
  <2>6. Cong(x - f, y - f)
    BY <2>2, <2>4, <2>5, CongRefl, CongSub
  <2>7. Cong(M, N)
    BY <2>4, <2>6
  <2> QED
    BY <2>7, CongSmall
<1>6. /\ c.J1 \in Int /\ c.J2 \in Int /\ e.J1 \in Int /\ e.J2 \in Int /\ G[1] \in Int /\ G[2] \in Int
  BY <1>1, <1>2, NonZeroIs
<1>7. p.M3 = o.M3
  <2>1. /\ Cong(c.J1, p.j3 * G[1] + p.M3) /\ Cong(e.J1, p.j3 * G[1] + o.M3)
        /\ Cong(c.J1, e.J1)
    BY <1>1, <1>2, <1>3, <1>4
  <2>2. /\ c.J1 \in Int /\ e.J1 \in Int /\ G[1] \in Int
        /\ p.M3 \in 0..(Q - 1) /\ o.M3 \in 0..(Q - 1)
    BY <1>1, <1>2, <1>6
  <2> QED
    BY <1>5, <2>1, <2>2
<1>8. p.M4 = o.M4
  <2>1. /\ Cong(c.J2, p.j3 * G[2] + p.M4) /\ Cong(e.J2, p.j3 * G[2] + o.M4)
        /\ Cong(c.J2, e.J2)
    BY <1>1, <1>2, <1>3, <1>4
  <2>2. /\ c.J2 \in Int /\ e.J2 \in Int /\ G[2] \in Int
        /\ p.M4 \in 0..(Q - 1) /\ o.M4 \in 0..(Q - 1)
    BY <1>1, <1>2, <1>6
  <2> QED
    BY <1>5, <2>1, <2>2
<1>9. /\ p \in [j3 : 0..(Q - 1), M3 : 0..(Q - 1), M4 : 0..(Q - 1)]
      /\ o \in [j3 : 0..(Q - 1), M3 : 0..(Q - 1), M4 : 0..(Q - 1)]
  BY ProfileKeysAssumption
<1> QED
  BY <1>4, <1>7, <1>8, <1>9

\* The points of a statement are in its order in the transcript: other values of a
\* name make another transcript.
LEMMA OtherPoints ==
  ASSUME NEW eqs \in Seq(Equations), NEW a, NEW p, Fits(eqs, a, p), NEW b, NEW q, Fits(eqs, b, q),
         Z!GetPoints(Z!Statement(eqs), p) = Z!GetPoints(Z!Statement(eqs), q),
         NEW x \in AllPoints(eqs)
  PROVE  WithG(p)[x] = WithG(q)[x]
<1> DEFINE stmt == Z!Statement(eqs)
           P == Z!GetPoints(stmt, p)
           R == Z!GetPoints(stmt, q)
<1>1. IsIndexed(P, stmt.points, WithG(p))
  BY ArgumentsIndexed
<1>2. IsIndexed(R, stmt.points, WithG(q))
  BY ArgumentsIndexed
<1>3. P = R
  OBVIOUS
<1>4. Names(stmt.points) = AllPoints(eqs)
  <2>1. IsStatement(stmt, eqs, Len(eqs))
    BY StatementIs
  <2> HIDE DEF stmt
  <2> QED
    BY <2>1 DEF IsStatement, AllPoints
<1> HIDE DEF stmt, P, R
<1>5. PICK i \in DOMAIN stmt.points : stmt.points[i] = x
  BY <1>4 DEF Names
<1> QED
  BY <1>1, <1>2, <1>3, <1>5 DEF IsIndexed

\* A proof that was made for the commitment to one profile key is refused for the
\* commitment to another.
LEMMA OtherRefused ==
  ASSUME NEW r, NEW s, NEW p, RequestFrom(r, s, p), NEW o \in ProfileKeys, o # p,
         NEW proof, NEW nonce, NEW c,
         proof.transcript = Z!Prove(Z!RequestStatement, ScalarsOf(r, s, p),
                                    Z!RequestPoints(Z!Commitment(p), r), nonce, c).transcript
  PROVE  ~ Z!Verify(Z!RequestStatement, proof, Z!RequestPoints(Z!Commitment(o), r))
<1> SUFFICES ASSUME Z!Verify(Z!RequestStatement, proof, Z!RequestPoints(Z!Commitment(o), r))
             PROVE  FALSE
  OBVIOUS
<1> DEFINE stmt == Z!RequestStatement
           a == ScalarsOf(r, s, p)
           q == Z!RequestPoints(Z!Commitment(p), r)
           t == Z!RequestPoints(Z!Commitment(o), r)
           eqs == RequestEquations
           d == Z!Commitment(p)
           e == Z!Commitment(o)
<1>0. p \in ProfileKeys /\ IsPkc(params.pkc)
  BY DEF RequestFrom
<1>1. proof.transcript[2] = Z!GetPoints(stmt, q)
  BY DEF Z!Prove
<1>2. proof.transcript[2] = Z!GetPoints(stmt, t)
  BY DEF Z!Verify
<1>3. Fits(eqs, a, q) /\ Fits(eqs, a, t)
  BY <1>0, RequestFits
<1>4. stmt = Z!Statement(eqs) /\ eqs \in Seq(Equations) /\ AllPoints(eqs) = {"G"} \cup RequestNames
  BY RequestEquationsAre
<1> DEFINE P == WithG(q)
           R == WithG(t)
<1>5. ArePoints(P, d, r) /\ ArePoints(R, e, r)
  BY RequestPointsAre
<1>6. IsEncrypted(r, s, p)
  BY DEF RequestFrom
<1>7. r.D2 \in Int /\ r.E2 \in Int
  BY <1>6, EncryptedIs
<1>8. d.J1 \in 0..(Q - 1) /\ d.J2 \in 0..(Q - 1)
  BY <1>0, CommitmentIs
<1>9. e.J1 \in 0..(Q - 1) /\ e.J2 \in 0..(Q - 1)
  BY <1>0, CommitmentIs
<1> HIDE DEF stmt, a, q, t, eqs
<1>10. \A x \in {"G"} \cup RequestNames : P[x] = R[x]
  <2>1. Z!GetPoints(Z!Statement(eqs), q) = Z!GetPoints(Z!Statement(eqs), t)
    BY <1>1, <1>2, <1>4
  <2> QED
    BY <1>3, <1>4, <2>1, OtherPoints
<1> HIDE DEF P, R
<1>11. P["J3"] = R["J3"] /\ P["D2_J1"] = R["D2_J1"] /\ P["E2_J2"] = R["E2_J2"]
  BY <1>10 DEF RequestNames
<1>12. d.J3 = e.J3
  BY <1>5, <1>11 DEF ArePoints
<1>13. /\ P["D2_J1"] \in 0..(Q - 1) /\ Cong(P["D2_J1"], r.D2 - d.J1)
       /\ P["E2_J2"] \in 0..(Q - 1) /\ Cong(P["E2_J2"], r.E2 - d.J2)
  BY <1>0, <1>5, PointsNumbers
<1>14. Cong(R["D2_J1"], r.D2 - e.J1) /\ Cong(R["E2_J2"], r.E2 - e.J2)
  BY <1>5, PointsNumbers
<1> HIDE DEF d, e
<1>15. /\ d.J1 \in Int /\ e.J1 \in Int /\ d.J2 \in Int /\ e.J2 \in Int
       /\ P["D2_J1"] \in Int /\ P["E2_J2"] \in Int
  BY <1>8, <1>9, <1>13
<1>16. Cong(d.J1, e.J1)
  <2>1. Cong(P["D2_J1"], r.D2 - d.J1) /\ Cong(P["D2_J1"], r.D2 - e.J1)
    BY <1>11, <1>13, <1>14
  <2> QED
    BY <1>7, <1>15, <2>1, SameDifference
<1>17. Cong(d.J2, e.J2)
  <2>1. Cong(P["E2_J2"], r.E2 - d.J2) /\ Cong(P["E2_J2"], r.E2 - e.J2)
    BY <1>11, <1>13, <1>14
  <2> QED
    BY <1>7, <1>15, <2>1, SameDifference
<1>18. p = o
  BY <1>0, <1>12, <1>16, <1>17, CommitmentsDiffer DEF d, e
<1> QED
  BY <1>18

(***************************************************************************)
(* The credential for a profile key                                        *)
(***************************************************************************)

\* The equations of ResponseStatement.
FirstTerms == <<<<"y3", "D1">>, <<"y4", "E1">>, <<"rprime", "G">>>>
SecondTerms == <<<<"y3", "D2">>, <<"y4", "E2">>, <<"rprime", "Y">>,
                 <<"w", "G_w">>, <<"x0", "U">>, <<"x1", "tU">>,
                 <<"y1", "M1">>, <<"y2", "M2">>, <<"y5", "M5">>>>
First == Z!Equation("S1", FirstTerms)
Second == Z!Equation("S2", SecondTerms)
ResponseEquations == Z!KeyEquations(5) \o <<First, Second>>

\* The names in these equations.
ResponseScalars == {"w", "wprime", "x0", "x1", "rprime"} \cup NamesTo(Z!Y, 5)
BlindNames == {"S1", "D1", "E1", "S2", "D2", "E2", "Y", "U", "tU", "M1", "M2", "M5"}

\* Terms, and the names of an equation with them.
LEMMA BlindRows ==
  /\ IsRow(FirstTerms, 3) /\ IsRow(SecondTerms, 9)
  /\ RowScalars(First) = {"y3", "y4", "rprime"} /\ RowPoints(First) = {"S1", "D1", "E1", "G"}
  /\ RowScalars(Second) = {"y3", "y4", "rprime", "w", "x0", "x1", "y1", "y2", "y5"}
  /\ RowPoints(Second) = {"S2", "D2", "E2", "Y", "G_w", "U", "tU", "M1", "M2", "M5"}
  /\ First \in Equations /\ Second \in Equations
<1>1. \A x \in {"y1", "y2", "y3", "y4", "y5", "rprime", "w", "x0", "x1", "S1", "S2", "D1", "D2",
                "E1", "E2", "G", "Y", "G_w", "U", "tU", "M1", "M2", "M5"} : x \in Identifiers
  BY DEF Identifiers
<1> DEFINE u == FirstTerms
           v == SecondTerms
<1>2. /\ u[1] = <<"y3", "D1">> /\ u[2] = <<"y4", "E1">> /\ u[3] = <<"rprime", "G">>
      /\ IsRow(u, 3)
  BY <1>1 DEF FirstTerms, IsRow
<1>3. /\ v[1] = <<"y3", "D2">> /\ v[2] = <<"y4", "E2">> /\ v[3] = <<"rprime", "Y">>
      /\ v[4] = <<"w", "G_w">> /\ v[5] = <<"x0", "U">> /\ v[6] = <<"x1", "tU">>
      /\ v[7] = <<"y1", "M1">> /\ v[8] = <<"y2", "M2">> /\ v[9] = <<"y5", "M5">>
      /\ IsRow(v, 9)
  BY <1>1 DEF SecondTerms, IsRow
<1>4. First = [lhs |-> "S1", rhs |-> u] /\ Second = [lhs |-> "S2", rhs |-> v]
  BY DEF First, Second, Z!Equation
<1> HIDE DEF u, v
<1>5. u \in Seq(Identifiers \X Identifiers) /\ v \in Seq(Identifiers \X Identifiers)
  BY <1>2, <1>3 DEF IsRow
<1>6. First \in Equations /\ Second \in Equations
  <2>1. "S1" \in Identifiers /\ "S2" \in Identifiers
    BY <1>1
  <2> QED
    BY <1>4, <1>5, <2>1 DEF Equations
<1>7. 1..Len(u) = {1, 2, 3}
  BY <1>2 DEF IsRow
<1>8. 1..Len(v) = {1, 2, 3, 4, 5, 6, 7, 8, 9}
  BY <1>3 DEF IsRow
<1>9. /\ RowScalars(First) = {u[j][1] : j \in 1..Len(u)}
      /\ RowPoints(First) = {"S1"} \cup {u[j][2] : j \in 1..Len(u)}
      /\ RowScalars(Second) = {v[j][1] : j \in 1..Len(v)}
      /\ RowPoints(Second) = {"S2"} \cup {v[j][2] : j \in 1..Len(v)}
  BY <1>4 DEF RowScalars, RowPoints
<1>10. /\ RowScalars(First) = {u[1][1], u[2][1], u[3][1]}
       /\ RowPoints(First) = {"S1"} \cup {u[1][2], u[2][2], u[3][2]}
  BY <1>7, <1>9
<1>11. RowScalars(Second) = {v[1][1], v[2][1], v[3][1], v[4][1], v[5][1], v[6][1], v[7][1],
                             v[8][1], v[9][1]}
  BY <1>8, <1>9
<1>12. RowPoints(Second) = {"S2"} \cup {v[1][2], v[2][2], v[3][2], v[4][2], v[5][2], v[6][2],
                             v[7][2], v[8][2], v[9][2]}
  BY <1>8, <1>9
<1>13. RowScalars(First) = {"y3", "y4", "rprime"} /\ RowPoints(First) = {"S1", "D1", "E1", "G"}
  BY <1>2, <1>10
<1>14. RowScalars(Second) = {"y3", "y4", "rprime", "w", "x0", "x1", "y1", "y2", "y5"}
  BY <1>3, <1>11
<1>15. RowPoints(Second) = {"S2", "D2", "E2", "Y", "G_w", "U", "tU", "M1", "M2", "M5"}
  BY <1>3, <1>12
<1> QED
  BY <1>2, <1>3, <1>6, <1>13, <1>14, <1>15 DEF u, v

\* They are equations, and these are their names.
LEMMA ResponseEquationsAre ==
  /\ Z!ResponseStatement = Z!Statement(ResponseEquations)
  /\ ResponseEquations \in Seq(Equations) /\ Len(ResponseEquations) = 4
  /\ ResponseEquations[1] = Published /\ ResponseEquations[2] = Issuing(5)
  /\ ResponseEquations[3] = First /\ ResponseEquations[4] = Second
  /\ AllScalars(ResponseEquations) = ResponseScalars
  /\ AllPoints(ResponseEquations) = {"G"} \cup KeyNames \cup NamesTo(Z!GY, 5) \cup BlindNames
<1> DEFINE n == 5
           u == <<Published, Issuing(n)>>
           v == <<First, Second>>
           eqs == u \o v
<1>1. n \in 1..5
  OBVIOUS
<1>2. Z!ResponseStatement = Z!Statement(ResponseEquations)
  BY DEF Z!ResponseStatement, ResponseEquations, First, Second, FirstTerms, SecondTerms
<1> HIDE DEF n
<1>3. Issuing(n) \in Equations /\ Z!KeyEquations(n) = <<Published, Issuing(n)>>
  BY <1>1, MacEquationsAre
<1>4. ResponseEquations = eqs
  BY <1>3 DEF ResponseEquations, n
<1>5. Published \in Equations /\ First \in Equations /\ Second \in Equations
  BY RowsAre, BlindRows
<1>6. u \in Seq(Equations) /\ v \in Seq(Equations)
  BY <1>3, <1>5
<1>7. Len(u) = 2 /\ Len(v) = 2
  OBVIOUS
<1>8. u[1] = Published /\ u[2] = Issuing(n) /\ v[1] = First /\ v[2] = Second
  OBVIOUS
<1> HIDE DEF u, v
<1>9. /\ u \o v \in Seq(Equations) /\ Len(u \o v) = Len(u) + Len(v)
      /\ \A i \in 1..Len(u) : (u \o v)[i] = u[i]
      /\ \A i \in 1..Len(v) : (u \o v)[Len(u) + i] = v[i]
  BY <1>6, ConcatIs
<1> HIDE DEF eqs
<1>10. eqs \in Seq(Equations) /\ Len(eqs) = 4 /\ eqs[1] = u[1] /\ eqs[2] = u[2] /\ eqs[3] = v[1]
       /\ eqs[4] = v[2]
  BY <1>7, <1>9 DEF eqs
<1>11. /\ AllScalars(eqs) = RowScalars(eqs[1]) \cup RowScalars(eqs[2]) \cup RowScalars(eqs[3])
                              \cup RowScalars(eqs[4])
       /\ AllPoints(eqs) =
            {"G"} \cup RowPoints(eqs[1]) \cup RowPoints(eqs[2]) \cup RowPoints(eqs[3])
              \cup RowPoints(eqs[4])
  BY <1>10, NamesOfFour
<1>12. /\ RowScalars(Published) = {"w", "wprime"}
       /\ RowScalars(Issuing(n)) = {"x0", "x1"} \cup NamesTo(Z!Y, n)
       /\ RowPoints(Published) = {"C_W", "G_w", "G_wprime"}
       /\ RowPoints(Issuing(n)) = {"G_V_I", "G_x0", "G_x1"} \cup NamesTo(Z!GY, n)
  BY <1>1, KeyRowNames
<1>13. \A x \in {"y1", "y2", "y3", "y4", "y5"} : x \in NamesTo(Z!Y, n)
  <2>1. /\ Z!Y[1] = "y1" /\ Z!Y[2] = "y2" /\ Z!Y[3] = "y3" /\ Z!Y[4] = "y4" /\ Z!Y[5] = "y5"
    BY DEF Z!Y
  <2>2. 1 \in 1..n /\ 2 \in 1..n /\ 3 \in 1..n /\ 4 \in 1..n /\ 5 \in 1..n
    BY DEF n
  <2> QED
    BY <2>1, <2>2 DEF NamesTo
<1>14. AllScalars(eqs) = {"w", "wprime", "x0", "x1", "rprime"} \cup NamesTo(Z!Y, n)
  <2>1. AllScalars(eqs) = {"w", "wprime"} \cup ({"x0", "x1"} \cup NamesTo(Z!Y, n))
                            \cup {"y3", "y4", "rprime"}
                            \cup {"y3", "y4", "rprime", "w", "x0", "x1", "y1", "y2", "y5"}
    BY <1>8, <1>10, <1>11, <1>12, BlindRows
  <2> QED
    BY <1>13, <2>1
<1>15. AllPoints(eqs) = {"G"} \cup KeyNames \cup NamesTo(Z!GY, n) \cup BlindNames
  <2>1. AllPoints(eqs) = {"G"} \cup {"C_W", "G_w", "G_wprime"}
                           \cup ({"G_V_I", "G_x0", "G_x1"} \cup NamesTo(Z!GY, n))
                           \cup {"S1", "D1", "E1", "G"}
                           \cup {"S2", "D2", "E2", "Y", "G_w", "U", "tU", "M1", "M2", "M5"}
    BY <1>8, <1>10, <1>11, <1>12, BlindRows
  <2> QED
    BY <2>1 DEF KeyNames, BlindNames
<1> QED
  BY <1>2, <1>4, <1>8, <1>10, <1>14, <1>15 DEF ResponseScalars, n

\* The scalars and the points of the credential.
BlindScalars(key, rp) == Z!Join(Z!KeyScalars(key, 5), [rprime |-> rp])
BlindPoints(key, b, r, t, U, M, M5) ==
  Z!Join(Z!KeyPoints(key, 5),
         [S1 |-> b.S1, D1 |-> r.D1, E1 |-> r.E1, S2 |-> b.S2, D2 |-> r.D2,
          E2 |-> r.E2, Y |-> r.publicKey, U |-> U, tU |-> (U * t) % Q,
          M1 |-> M[1], M2 |-> M[2], M5 |-> M5])

\* Their values.
AreBlindScalars(a, key, rp) ==
  /\ DOMAIN a = ResponseScalars /\ KeyValues(a, key, 5) /\ a["rprime"] = rp

\* What they are.
AreBlindPoints(P, key, G, b, r, t, U, M, M5) ==
  /\ DOMAIN P = {"G"} \cup KeyNames \cup NamesTo(Z!GY, 5) \cup BlindNames
  /\ KeyPointValues(P, key, G, 5)
  /\ P["G"] = 1 /\ P["S1"] = b.S1 /\ P["D1"] = r.D1 /\ P["E1"] = r.E1
  /\ P["S2"] = b.S2 /\ P["D2"] = r.D2 /\ P["E2"] = r.E2 /\ P["Y"] = r.publicKey
  /\ P["U"] = U /\ P["tU"] = (U * t) % Q /\ P["M1"] = M[1] /\ P["M2"] = M[2] /\ P["M5"] = M5

\* The scalars are those of the key and rprime.
LEMMA BlindScalarsAre ==
  ASSUME NEW G, NEW key, IsKey(key, 5, G), NEW rp
  PROVE  AreBlindScalars(BlindScalars(key, rp), key, rp)
<1> DEFINE n == 5
           A == Z!KeyScalars(key, n)
           F == [rprime |-> rp]
           a == Z!Join(A, F)
<1>1. BlindScalars(key, rp) = a
  BY DEF BlindScalars
<1>2. /\ DOMAIN A = {"w", "wprime", "x0", "x1"} \cup NamesTo(Z!Y, n)
      /\ KeyValues(A, key, n)
  <2> DEFINE size == 5
  <2>1. IsKey(key, size, G) /\ n \in 1..5 /\ n <= size /\ size \in Nat
    OBVIOUS
  <2> HIDE DEF size, n
  <2> QED
    BY <2>1, KeyScalarsAre
<1>3. DOMAIN F = {"rprime"} /\ F["rprime"] = rp
  OBVIOUS
<1>4. "rprime" \notin NamesTo(Z!Y, n)
  BY NamesApart DEF NamesTo
<1>5. n \in 1..5
  OBVIOUS
<1> HIDE DEF A, F, n
<1>6. /\ DOMAIN a = DOMAIN A \cup DOMAIN F
      /\ \A x \in DOMAIN A : a[x] = A[x]
      /\ \A x \in DOMAIN F : a[x] = F[x]
  <2>1. DOMAIN A \cap DOMAIN F = {}
    BY <1>2, <1>3, <1>4
  <2> QED
    BY <2>1, JoinApart
<1> HIDE DEF a
<1>7. DOMAIN a = {"w", "wprime", "x0", "x1", "rprime"} \cup NamesTo(Z!Y, n)
  BY <1>2, <1>3, <1>6
<1>8. KeyValues(a, key, n)
  <2>1. \A i \in 1..n : Z!Y[i] \in DOMAIN A
    BY <1>2 DEF NamesTo
  <2>2. "w" \in DOMAIN A /\ "wprime" \in DOMAIN A /\ "x0" \in DOMAIN A /\ "x1" \in DOMAIN A
    BY <1>2
  <2> QED
    BY <1>2, <1>6, <2>1, <2>2 DEF KeyValues
<1>9. a["rprime"] = rp
  BY <1>3, <1>6
<1> QED
  BY <1>1, <1>7, <1>8, <1>9 DEF AreBlindScalars, ResponseScalars, n

\* The points are those of the key, the request and the credential.
LEMMA BlindPointsAre ==
  ASSUME IsParams(params.cred), NEW key, NEW b, NEW r, NEW t, NEW U, NEW M, NEW M5
  PROVE  AreBlindPoints(WithG(BlindPoints(key, b, r, t, U, M, M5)), key, params.cred,
                        b, r, t, U, M, M5)
<1> DEFINE n == 5
           G == params.cred
           A == Z!KeyPoints(key, n)
           B == [S1 |-> b.S1, D1 |-> r.D1, E1 |-> r.E1, S2 |-> b.S2, D2 |-> r.D2,
                 E2 |-> r.E2, Y |-> r.publicKey, U |-> U, tU |-> (U * t) % Q,
                 M1 |-> M[1], M2 |-> M[2], M5 |-> M5]
           F == [G |-> 1]
           X == Z!Join(A, B)
           P == Z!Join(X, F)
<1>1. WithG(BlindPoints(key, b, r, t, U, M, M5)) = P
  BY DEF WithG, BlindPoints
<1>2. DOMAIN A = KeyNames \cup NamesTo(Z!GY, n) /\ KeyPointValues(A, key, G, n)
  <2>1. n \in 1..5
    OBVIOUS
  <2> HIDE DEF n
  <2> QED
    BY <2>1, KeyPointsAre DEF KeyNames
<1>3. DOMAIN B = BlindNames
      /\ B["S1"] = b.S1 /\ B["D1"] = r.D1 /\ B["E1"] = r.E1
      /\ B["S2"] = b.S2 /\ B["D2"] = r.D2 /\ B["E2"] = r.E2 /\ B["Y"] = r.publicKey
      /\ B["U"] = U /\ B["tU"] = (U * t) % Q /\ B["M1"] = M[1] /\ B["M2"] = M[2] /\ B["M5"] = M5
  BY DEF BlindNames
<1>4. DOMAIN F = {"G"} /\ F["G"] = 1
  OBVIOUS
<1>5. "G" \notin KeyNames /\ "G" \notin BlindNames /\ KeyNames \cap BlindNames = {}
  BY DEF KeyNames, BlindNames
<1>6. \A x \in {"G"} \cup BlindNames : x \notin NamesTo(Z!GY, n)
  BY NamesApart DEF NamesTo, BlindNames
<1> HIDE DEF A, B, F, n
<1>7. /\ DOMAIN X = DOMAIN A \cup DOMAIN B
      /\ \A x \in DOMAIN A : X[x] = A[x]
      /\ \A x \in DOMAIN B : X[x] = B[x]
  <2>1. DOMAIN A \cap DOMAIN B = {}
    BY <1>2, <1>3, <1>5, <1>6
  <2> QED
    BY <2>1, JoinApart
<1> HIDE DEF X
<1>8. /\ DOMAIN P = DOMAIN X \cup DOMAIN F
      /\ \A x \in DOMAIN X : P[x] = X[x]
      /\ \A x \in DOMAIN F : P[x] = F[x]
  <2>1. DOMAIN X \cap DOMAIN F = {}
    BY <1>2, <1>3, <1>4, <1>5, <1>6, <1>7
  <2> QED
    BY <2>1, JoinApart
<1> HIDE DEF P
<1>9. /\ \A x \in DOMAIN A : P[x] = A[x]
      /\ \A x \in DOMAIN B : P[x] = B[x]
      /\ \A x \in DOMAIN F : P[x] = F[x]
  BY <1>7, <1>8
<1>10. DOMAIN P = {"G"} \cup KeyNames \cup NamesTo(Z!GY, n) \cup BlindNames
  BY <1>2, <1>3, <1>4, <1>7, <1>8
<1>11. KeyPointValues(P, key, G, n)
  <2>1. \A i \in 1..n : Z!GY[i] \in DOMAIN A
    BY <1>2 DEF NamesTo
  <2>2. \A x \in KeyNames : x \in DOMAIN A
    BY <1>2
  <2>3. /\ "C_W" \in DOMAIN A /\ "G_w" \in DOMAIN A /\ "G_wprime" \in DOMAIN A
        /\ "G_V_I" \in DOMAIN A /\ "G_x0" \in DOMAIN A /\ "G_x1" \in DOMAIN A
    BY <2>2 DEF KeyNames
  <2> QED
    BY <1>2, <1>9, <2>1, <2>3 DEF KeyPointValues
<1>12. P["G"] = 1
  BY <1>4, <1>9
<1>13. \A x \in BlindNames : P[x] = B[x]
  BY <1>3, <1>9
<1>14. /\ P["S1"] = B["S1"] /\ P["D1"] = B["D1"] /\ P["E1"] = B["E1"]
       /\ P["S2"] = B["S2"] /\ P["D2"] = B["D2"] /\ P["E2"] = B["E2"] /\ P["Y"] = B["Y"]
       /\ P["U"] = B["U"] /\ P["tU"] = B["tU"] /\ P["M1"] = B["M1"] /\ P["M2"] = B["M2"]
       /\ P["M5"] = B["M5"]
  BY <1>13 DEF BlindNames
<1> QED
  BY <1>1, <1>3, <1>10, <1>11, <1>12, <1>14 DEF AreBlindPoints, n

\* What is added to congruent numbers: a step of the chains below.
LEMMA CongPlus ==
  ASSUME NEW a \in Int, NEW b \in Int, NEW c \in Int, Cong(a, b)
  PROVE  Cong(c + a, c + b)
  BY CongAdd, CongRefl

\* S2 in numbers, and the products of the equation of it.
IsBlinded(S2, A, V, B, W, gw, e, ux, zz, z, m) ==
  /\ S2 \in Int /\ A \in Int /\ V \in Int /\ B \in Int /\ W \in Int /\ gw \in Int /\ e \in Int
  /\ ux \in Int /\ zz \in Int /\ z \in Int /\ m \in Int
  /\ Cong(S2, (A + V) + B) /\ Cong(V, (W + e) + m) /\ Cong(W, gw) /\ e = ux + zz /\ Cong(zz, z)

\* S2 in the order of the terms of its equation.
LEMMA BlindedIs ==
  ASSUME NEW S2, NEW A, NEW V, NEW B, NEW W, NEW gw, NEW e, NEW ux, NEW zz, NEW z, NEW m,
         IsBlinded(S2, A, V, B, W, gw, e, ux, zz, z, m)
  PROVE  Cong(S2, (A + ((gw + (ux + z)) + m)) + B)
<1> DEFINE f == ux + z
           h == W + e
           k == gw + e
           l == gw + f
           v == h + m
           x == l + m
           o == A + V
           q == A + x
<1>1. /\ S2 \in Int /\ A \in Int /\ V \in Int /\ B \in Int /\ W \in Int /\ gw \in Int /\ e \in Int
      /\ ux \in Int /\ zz \in Int /\ z \in Int /\ m \in Int
      /\ Cong(S2, o + B) /\ Cong(V, v) /\ Cong(W, gw) /\ e = ux + zz /\ Cong(zz, z)
  BY DEF IsBlinded
<1>2. Cong(e, f)
  BY <1>1, CongPlus
<1>3. f \in Int
  BY <1>1
<1> HIDE DEF f
<1>4. Cong(h, k) /\ h \in Int /\ k \in Int
  <2>1. W \in Int /\ gw \in Int /\ e \in Int /\ Cong(W, gw) /\ Cong(e, e)
    BY <1>1, CongRefl
  <2> QED
    BY <2>1, CongAdd
<1>5. Cong(k, l) /\ l \in Int
  <2>1. e \in Int /\ f \in Int /\ gw \in Int /\ Cong(e, f)
    BY <1>1, <1>2, <1>3
  <2> QED
    BY <2>1, CongPlus
<1> HIDE DEF h, k, l
<1>6. Cong(h, l)
  BY <1>4, <1>5, CongTrans
<1>7. Cong(v, x) /\ v \in Int /\ x \in Int
  <2>1. h \in Int /\ l \in Int /\ m \in Int /\ Cong(h, l) /\ Cong(m, m)
    BY <1>1, <1>4, <1>5, <1>6, CongRefl
  <2> QED
    BY <2>1, CongAdd
<1> HIDE DEF v, x
<1>8. Cong(V, x)
  BY <1>1, <1>7, CongTrans
<1>9. Cong(o, q) /\ o \in Int /\ q \in Int
  <2>1. V \in Int /\ x \in Int /\ A \in Int /\ Cong(V, x)
    BY <1>1, <1>7, <1>8
  <2> QED
    BY <2>1, CongPlus
<1> HIDE DEF o, q
<1>10. Cong(o + B, q + B) /\ o + B \in Int /\ q + B \in Int
  <2>1. o \in Int /\ q \in Int /\ B \in Int /\ Cong(o, q) /\ Cong(B, B)
    BY <1>1, <1>9, CongRefl
  <2> QED
    BY <2>1, CongAdd
<1>11. Cong(S2, q + B)
  BY <1>1, <1>10, CongTrans
<1> QED
  BY <1>11 DEF q, x, l, f

\* What the credential is made from.
ResponseFrom(key, r, s, p, t, U, M, M5, rp) ==
  /\ IsParams(params.cred) /\ IsKey(key, 5, params.cred) /\ IsEncrypted(r, s, p)
  /\ t \in NonZero /\ U \in NonZero /\ rp \in NonZero /\ M \in Seq(NonZero) /\ Len(M) = 2
  /\ M5 \in Int
BlindOf(key, r, t, U, M, M5, rp) == Z!Blind(key, r, Z!PrepareV(key, t, U, M), rp, M5)

\* S1 and S2.
LEMMA BlindIs ==
  ASSUME NEW key, NEW r, NEW s, NEW p, NEW t, NEW U, NEW M, NEW M5, NEW rp,
         ResponseFrom(key, r, s, p, t, U, M, M5, rp)
  PROVE  LET b == BlindOf(key, r, t, U, M, M5, rp)
             V == Z!PrepareV(key, t, U, M)
             y == key.y
         IN /\ b.S1 \in Int /\ Cong(b.S1, (rp + r.D1 * y[3]) + r.E1 * y[4])
            /\ b.S2 \in Int
            /\ Cong(b.S2, (((r.publicKey * rp + V) + M5 * y[5]) + r.D2 * y[3]) + r.E2 * y[4])
            /\ V \in Int
            /\ Cong(V, (key.W + U * (key.x0 + key.x1 * t)) + (M[1] * y[1] + M[2] * y[2]))
            /\ \A i \in 1..5 : y[i] \in Int
            /\ M[1] \in Int /\ M[2] \in Int /\ t \in Int /\ U \in Int /\ rp \in Int /\ M5 \in Int
            /\ r.D1 \in Int /\ r.E1 \in Int /\ r.D2 \in Int /\ r.E2 \in Int /\ r.publicKey \in Int
            /\ key.W \in Int /\ key.x0 \in Int /\ key.x1 \in Int
<1> DEFINE b == BlindOf(key, r, t, U, M, M5, rp)
           V == Z!PrepareV(key, t, U, M)
           y == key.y
<1>1. /\ IsParams(params.cred) /\ IsKey(key, 5, params.cred) /\ IsEncrypted(r, s, p)
      /\ t \in NonZero /\ U \in NonZero /\ rp \in NonZero /\ M \in Seq(NonZero) /\ Len(M) = 2
      /\ M5 \in Int
  BY DEF ResponseFrom
<1>2. \A i \in 1..5 : y[i] \in Int
  <2>1. y \in Seq(NonZero) /\ Len(y) = 5
    BY <1>1 DEF IsKey
  <2>2. \A i \in 1..5 : y[i] \in NonZero
    BY <2>1, SeqIsFunction
  <2> QED
    BY <2>2, NonZeroIs
<1>3. M[1] \in Int /\ M[2] \in Int /\ t \in Int /\ U \in Int /\ rp \in Int
  <2>1. M \in Seq(NonZero) /\ Len(M) = 2
    BY <1>1
  <2>2. \A i \in 1..2 : M[i] \in NonZero
    BY <2>1, SeqIsFunction
  <2> QED
    BY <1>1, <2>2, NonZeroIs
<1>4. r.D1 \in Int /\ r.E1 \in Int /\ r.D2 \in Int /\ r.E2 \in Int /\ r.publicKey \in Int
  <2>1. IsEncrypted(r, s, p)
    BY <1>1
  <2>2. s \in Int /\ r.publicKey = s
    BY <2>1, EncryptedIs DEF IsEncrypted
  <2> QED
    BY <2>1, <2>2, EncryptedIs
<1>5. key.W \in Int /\ key.x0 \in Int /\ key.x1 \in Int /\ y \in Seq(NonZero) /\ Len(y) = 5
  BY <1>1, NonZeroIs DEF IsKey
<1>6. V \in Int /\ Cong(V, (key.W + U * (key.x0 + key.x1 * t)) + (M[1] * y[1] + M[2] * y[2]))
  <2> DEFINE n == 2
             size == 5
             f == Shares(M, y, n)
  <2>1. IsAttributes(M, n)
    <3>1. M \in Seq(Int)
      BY <1>1, NonZeroIs
    <3> QED
      BY <1>1, <3>1 DEF IsAttributes
  <2>2. f \in Seq(Int) /\ Len(f) = n
    <3>1. IsAttributes(M, n) /\ y \in Seq(NonZero) /\ n <= Len(y)
      BY <1>5, <2>1
    <3> HIDE DEF n, y
    <3> QED
      BY <3>1, SharesType
  <2>3. f[1] = M[1] * y[1] /\ f[2] = M[2] * y[2]
    BY DEF Shares
  <2>4. Z!Sum(f) = f[1] + f[2]
    <3> HIDE DEF f
    <3>1. f \in Seq(Int) /\ Len(f) = 2
      BY <2>2
    <3> QED
      BY <3>1, SumShort
  <2>5. IsKey(key, size, params.cred) /\ n <= size
    BY <1>1
  <2> HIDE DEF n, size
  <2>6. LET sum == key.W + U * (key.x0 + key.x1 * t) + Z!Sum(Shares(M, key.y, n)) IN
        /\ sum \in Int /\ Z!Sum(Shares(M, key.y, n)) \in Int
        /\ Z!PrepareV(key, t, U, M) \in 0..(Q - 1)
        /\ Cong(Z!PrepareV(key, t, U, M), sum)
    BY <1>3, <2>1, <2>5, PreparedIs
  <2>7. V \in Int
    BY <2>6, QAssumption
  <2> QED
    BY <2>3, <2>4, <2>6, <2>7
<1> DEFINE e == (rp + r.D1 * y[3]) + r.E1 * y[4]
           h == (((r.publicKey * rp + V) + M5 * y[5]) + r.D2 * y[3]) + r.E2 * y[4]
<1>7. b.S1 = e % Q /\ b.S2 = h % Q
  BY DEF BlindOf, Z!Blind
<1>8. e \in Int /\ h \in Int
  <2> HIDE DEF V, y
  <2>1. y[3] \in Int /\ y[4] \in Int /\ y[5] \in Int
    BY <1>2
  <2>2. e \in Int
    BY <1>3, <1>4, <2>1
  <2>3. r.publicKey * rp \in Int /\ M5 * y[5] \in Int /\ r.D2 * y[3] \in Int /\ r.E2 * y[4] \in Int
    <3>1. M5 \in Int
      BY <1>1
    <3> QED
      BY <1>3, <1>4, <2>1, <3>1
  <2> QED
    BY <1>6, <2>2, <2>3
<1> HIDE DEF e, h, b
<1>9. e % Q \in Int /\ Cong(e % Q, e) /\ h % Q \in Int /\ Cong(h % Q, h)
  BY <1>8, CongMod, QAssumption
<1>10. b.S1 \in Int /\ Cong(b.S1, e) /\ b.S2 \in Int /\ Cong(b.S2, h)
  BY <1>7, <1>9
<1> QED
  BY <1>1, <1>2, <1>3, <1>4, <1>5, <1>6, <1>10 DEF b, e, h

\* The values of the scalars and of the points of the credential.
BlindIn(a, P, key, r, t, U, M, M5, rp) ==
  /\ AreBlindScalars(a, key, rp)
  /\ AreBlindPoints(P, key, params.cred, BlindOf(key, r, t, U, M, M5, rp), r, t, U, M, M5)

\* What ProfileKeyCredentialResponse create() computes is what the equations are about.
LEMMA BlindInIs ==
  ASSUME NEW key, NEW r, NEW s, NEW p, NEW t, NEW U, NEW M, NEW M5, NEW rp,
         ResponseFrom(key, r, s, p, t, U, M, M5, rp)
  PROVE  BlindIn(BlindScalars(key, rp),
                 WithG(BlindPoints(key, BlindOf(key, r, t, U, M, M5, rp), r, t, U, M, M5)),
                 key, r, t, U, M, M5, rp)
<1>1. IsParams(params.cred) /\ IsKey(key, 5, params.cred)
  BY DEF ResponseFrom
<1>2. AreBlindScalars(BlindScalars(key, rp), key, rp)
  BY <1>1, BlindScalarsAre
<1> DEFINE b == BlindOf(key, r, t, U, M, M5, rp)
<1> HIDE DEF b
<1>3. AreBlindPoints(WithG(BlindPoints(key, b, r, t, U, M, M5)), key, params.cred, b, r, t, U, M, M5)
  BY <1>1, BlindPointsAre
<1> QED
  BY <1>2, <1>3 DEF BlindIn, b

\* They are the values of a key and numbers.
LEMMA BlindNumbers ==
  ASSUME NEW key, NEW r, NEW s, NEW p, NEW t, NEW U, NEW M, NEW M5, NEW rp,
         ResponseFrom(key, r, s, p, t, U, M, M5, rp),
         NEW a, NEW P, BlindIn(a, P, key, r, t, U, M, M5, rp)
  PROVE  /\ KeyIn(a, P, key, 5, 5, params.cred)
         /\ \A x \in ResponseScalars : a[x] \in Int
         /\ \A x \in {"G"} \cup KeyNames \cup NamesTo(Z!GY, 5) \cup BlindNames : P[x] \in Int
         /\ \A x \in {"y1", "y2", "y3", "y4", "y5", "w", "x0", "x1", "rprime"} : a[x] \in Int
         /\ a["y1"] = key.y[1] /\ a["y2"] = key.y[2] /\ a["y3"] = key.y[3]
         /\ a["y4"] = key.y[4] /\ a["y5"] = key.y[5] /\ a["rprime"] = rp
<1> DEFINE n == 5
           b == BlindOf(key, r, t, U, M, M5, rp)
           G == params.cred
<1>1. AreBlindScalars(a, key, rp) /\ AreBlindPoints(P, key, G, b, r, t, U, M, M5)
  BY DEF BlindIn
<1>2. IsParams(G) /\ IsKey(key, n, G) /\ n \in 5..7 /\ n \in 1..5 /\ n <= n
  BY DEF ResponseFrom
<1>3. KeyValues(a, key, n) /\ KeyPointValues(P, key, G, n) /\ a["rprime"] = rp
  BY <1>1 DEF AreBlindScalars, AreBlindPoints
<1> HIDE DEF n, b, G
<1>4. KeyIn(a, P, key, n, n, G)
  BY <1>2, <1>3 DEF KeyIn
<1>5. /\ a["w"] \in Int /\ a["wprime"] \in Int /\ a["x0"] \in Int /\ a["x1"] \in Int
      /\ \A i \in 1..n : a[Z!Y[i]] = key.y[i] /\ key.y[i] \in Int
      /\ P["G_w"] \in Int /\ P["G_wprime"] \in Int
      /\ P["G_x0"] \in Int /\ P["G_x1"] \in Int /\ P["C_W"] \in Int /\ P["G_V_I"] \in Int
      /\ \A i \in 1..n : P[Z!GY[i]] \in Int
  BY <1>4, KeyInIs, NonZeroIs
<1>6. rp \in Int /\ M5 \in Int /\ t \in Int /\ U \in Int
  BY NonZeroIs DEF ResponseFrom
<1>7. \A x \in ResponseScalars : a[x] \in Int
  <2>1. ResponseScalars = {"w", "wprime", "x0", "x1", "rprime"} \cup NamesTo(Z!Y, n)
    BY DEF ResponseScalars, n
  <2>2. \A x \in NamesTo(Z!Y, n) : a[x] \in Int
    BY <1>5 DEF NamesTo
  <2> QED
    BY <1>3, <1>5, <1>6, <2>1, <2>2
<1>8. /\ P["G"] = 1 /\ P["S1"] = b.S1 /\ P["D1"] = r.D1 /\ P["E1"] = r.E1
      /\ P["S2"] = b.S2 /\ P["D2"] = r.D2 /\ P["E2"] = r.E2 /\ P["Y"] = r.publicKey
      /\ P["U"] = U /\ P["M1"] = M[1] /\ P["M2"] = M[2] /\ P["M5"] = M5
  BY <1>1 DEF AreBlindPoints
<1>9. P["tU"] \in Int
  <2>1. P["tU"] = (U * t) % Q
    BY <1>1 DEF AreBlindPoints
  <2>2. U * t \in Int
    BY <1>6
  <2> QED
    BY <2>1, <2>2, QAssumption
<1>10. /\ b.S1 \in Int /\ b.S2 \in Int /\ M[1] \in Int /\ M[2] \in Int
       /\ r.D1 \in Int /\ r.E1 \in Int /\ r.D2 \in Int /\ r.E2 \in Int /\ r.publicKey \in Int
  BY BlindIs DEF b
<1>11. \A x \in {"G"} \cup KeyNames \cup NamesTo(Z!GY, n) \cup BlindNames : P[x] \in Int
  <2>1. \A x \in NamesTo(Z!GY, n) : P[x] \in Int
    BY <1>5 DEF NamesTo
  <2>2. \A x \in KeyNames : P[x] \in Int
    BY <1>5 DEF KeyNames
  <2>3. \A x \in BlindNames : P[x] \in Int
    BY <1>6, <1>8, <1>9, <1>10 DEF BlindNames
  <2> QED
    BY <1>8, <2>1, <2>2, <2>3
<1>12. Z!Y[1] = "y1" /\ Z!Y[2] = "y2" /\ Z!Y[3] = "y3" /\ Z!Y[4] = "y4" /\ Z!Y[5] = "y5"
  BY DEF Z!Y
<1>13. 1 \in 1..n /\ 2 \in 1..n /\ 3 \in 1..n /\ 4 \in 1..n /\ 5 \in 1..n
  BY DEF n
<1>14. /\ a["y1"] = key.y[1] /\ a["y2"] = key.y[2] /\ a["y3"] = key.y[3]
       /\ a["y4"] = key.y[4] /\ a["y5"] = key.y[5]
       /\ a["y1"] \in Int /\ a["y2"] \in Int /\ a["y3"] \in Int /\ a["y4"] \in Int
       /\ a["y5"] \in Int
  <2>1. \A i \in 1..n : a[Z!Y[i]] = key.y[i] /\ key.y[i] \in Int
    BY <1>5
  <2> QED
    BY <1>12, <1>13, <2>1
<1>15. \A x \in {"y1", "y2", "y3", "y4", "y5", "w", "x0", "x1", "rprime"} : a[x] \in Int
  BY <1>3, <1>5, <1>6, <1>14
<1> QED
  BY <1>3, <1>4, <1>7, <1>11, <1>14, <1>15 DEF n, G

\* The values fit the equations.
LEMMA ResponseFits ==
  ASSUME NEW key, NEW r, NEW s, NEW p, NEW t, NEW U, NEW M, NEW M5, NEW rp,
         ResponseFrom(key, r, s, p, t, U, M, M5, rp)
  PROVE  Fits(ResponseEquations, BlindScalars(key, rp),
              BlindPoints(key, BlindOf(key, r, t, U, M, M5, rp), r, t, U, M, M5))
<1> DEFINE eqs == ResponseEquations
           a == BlindScalars(key, rp)
           q == BlindPoints(key, BlindOf(key, r, t, U, M, M5, rp), r, t, U, M, M5)
           P == WithG(q)
           all == {"G"} \cup KeyNames \cup NamesTo(Z!GY, 5) \cup BlindNames
<1>1. BlindIn(a, P, key, r, t, U, M, M5, rp)
  BY BlindInIs
<1> HIDE DEF a, P, all
<1>2. DOMAIN a = ResponseScalars /\ DOMAIN P = all
  BY <1>1 DEF BlindIn, AreBlindScalars, AreBlindPoints, all
<1>3. (\A x \in ResponseScalars : a[x] \in Int) /\ \A x \in all : P[x] \in Int
  BY <1>1, BlindNumbers DEF all
<1>4. AllScalars(eqs) = ResponseScalars /\ AllPoints(eqs) = all
  BY ResponseEquationsAre DEF all
<1> HIDE DEF eqs, q
<1>5. DOMAIN a = AllScalars(eqs) /\ DOMAIN P = AllPoints(eqs)
      /\ Numbers(a, AllScalars(eqs)) /\ Numbers(P, AllPoints(eqs))
  BY <1>2, <1>3, <1>4 DEF Numbers
<1> QED
  BY <1>5 DEF Fits, P, a, q, eqs

\* The third equation holds.
LEMMA FirstHolds ==
  ASSUME NEW key, NEW r, NEW s, NEW p, NEW t, NEW U, NEW M, NEW M5, NEW rp,
         ResponseFrom(key, r, s, p, t, U, M, M5, rp),
         NEW a, NEW P, BlindIn(a, P, key, r, t, U, M, M5, rp)
  PROVE  Holds(First, a, P)
<1> DEFINE u == FirstTerms
           b == BlindOf(key, r, t, U, M, M5, rp)
           G == params.cred
<1>1. First.lhs = "S1" /\ First.rhs = u
  BY DEF First, Z!Equation
<1>2. u[1] = <<"y3", "D1">> /\ u[2] = <<"y4", "E1">> /\ u[3] = <<"rprime", "G">>
  BY DEF FirstTerms
<1>3. IsRow(u, 3)
  BY BlindRows
<1>4. P["G"] = 1 /\ P["S1"] = b.S1 /\ P["D1"] = r.D1 /\ P["E1"] = r.E1
  <2>1. AreBlindPoints(P, key, G, b, r, t, U, M, M5)
    BY DEF BlindIn
  <2> QED
    BY <2>1 DEF AreBlindPoints
<1>5. a["y3"] = key.y[3] /\ a["y4"] = key.y[4] /\ a["rprime"] = rp
  BY BlindNumbers
<1>6. /\ b.S1 \in Int /\ Cong(b.S1, (rp + r.D1 * key.y[3]) + r.E1 * key.y[4])
      /\ rp \in Int /\ r.D1 \in Int /\ r.E1 \in Int /\ \A i \in 1..5 : key.y[i] \in Int
  BY BlindIs DEF b
<1>7. key.y[3] \in Int /\ key.y[4] \in Int
  BY <1>6
<1> HIDE DEF u, b, G
<1>8. RowNumbers(u, a, P)
  <2>1. 1..Len(u) = {1, 2, 3}
    BY <1>3 DEF IsRow
  <2>2. /\ a["y3"] \in Int /\ a["y4"] \in Int /\ a["rprime"] \in Int
        /\ P["G"] \in Int /\ P["D1"] \in Int /\ P["E1"] \in Int
    BY <1>4, <1>5, <1>6, <1>7
  <2>3. /\ P[u[1][2]] \in Int /\ a[u[1][1]] \in Int /\ P[u[2][2]] \in Int /\ a[u[2][1]] \in Int
        /\ P[u[3][2]] \in Int /\ a[u[3][1]] \in Int
    BY <1>2, <2>2
  <2> QED
    BY <2>1, <2>3 DEF RowNumbers
<1>9. Z!Sum(Products(u, a, P)) =
        P[u[1][2]] * a[u[1][1]] + P[u[2][2]] * a[u[2][1]] + P[u[3][2]] * a[u[3][1]]
  BY <1>3, <1>8, RowOfThree
<1>10. Z!Sum(Products(u, a, P)) = r.D1 * key.y[3] + r.E1 * key.y[4] + 1 * rp
  BY <1>2, <1>4, <1>5, <1>9
<1> DEFINE x == r.D1 * key.y[3]
           z == r.E1 * key.y[4]
<1>11. x \in Int /\ z \in Int
  BY <1>6, <1>7
<1>12. Cong(b.S1, (rp + x) + z) /\ Z!Sum(Products(u, a, P)) = x + z + 1 * rp
  BY <1>6, <1>10
<1> HIDE DEF x, z
<1>13. x + z + 1 * rp = (rp + x) + z
  BY <1>6, <1>11
<1>14. Cong(P["S1"], Z!Sum(Products(u, a, P)))
  BY <1>4, <1>12, <1>13
<1> QED
  BY <1>1, <1>14 DEF Holds

\* The fourth equation holds.
LEMMA SecondHolds ==
  ASSUME NEW key, NEW r, NEW s, NEW p, NEW t, NEW U, NEW M, NEW M5, NEW rp,
         ResponseFrom(key, r, s, p, t, U, M, M5, rp),
         NEW a, NEW P, BlindIn(a, P, key, r, t, U, M, M5, rp)
  PROVE  Holds(Second, a, P)
<1> DEFINE v == SecondTerms
           b == BlindOf(key, r, t, U, M, M5, rp)
           V == Z!PrepareV(key, t, U, M)
           G == params.cred
           y == key.y
           f == Products(v, a, P)
<1>1. Second.lhs = "S2" /\ Second.rhs = v
  BY DEF Second, Z!Equation
<1>2. /\ v[1] = <<"y3", "D2">> /\ v[2] = <<"y4", "E2">> /\ v[3] = <<"rprime", "Y">>
      /\ v[4] = <<"w", "G_w">> /\ v[5] = <<"x0", "U">> /\ v[6] = <<"x1", "tU">>
      /\ v[7] = <<"y1", "M1">> /\ v[8] = <<"y2", "M2">> /\ v[9] = <<"y5", "M5">>
  BY DEF SecondTerms
<1>3. IsRow(v, 9)
  BY BlindRows
<1>4. /\ P["S2"] = b.S2 /\ P["D2"] = r.D2 /\ P["E2"] = r.E2 /\ P["Y"] = r.publicKey
      /\ P["U"] = U /\ P["tU"] = (U * t) % Q /\ P["M1"] = M[1] /\ P["M2"] = M[2] /\ P["M5"] = M5
      /\ KeyPointValues(P, key, G, 5)
  <2>1. AreBlindPoints(P, key, G, b, r, t, U, M, M5)
    BY DEF BlindIn
  <2> QED
    BY <2>1 DEF AreBlindPoints
<1>5. /\ a["y1"] = y[1] /\ a["y2"] = y[2] /\ a["y3"] = y[3] /\ a["y4"] = y[4] /\ a["y5"] = y[5]
      /\ a["rprime"] = rp
  BY BlindNumbers
<1>6. a["w"] = key.w /\ a["x0"] = key.x0 /\ a["x1"] = key.x1
  <2>1. KeyValues(a, key, 5)
    BY DEF BlindIn, AreBlindScalars
  <2> QED
    BY <2>1 DEF KeyValues
<1>7. \A x \in {"y1", "y2", "y3", "y4", "y5", "w", "x0", "x1", "rprime"} : a[x] \in Int
  BY BlindNumbers
<1>8. /\ P["D2"] \in Int /\ P["E2"] \in Int /\ P["Y"] \in Int /\ P["G_w"] \in Int /\ P["U"] \in Int
      /\ P["tU"] \in Int /\ P["M1"] \in Int /\ P["M2"] \in Int /\ P["M5"] \in Int
  <2>1. \A x \in KeyNames \cup BlindNames : P[x] \in Int
    BY BlindNumbers
  <2>2. /\ "D2" \in BlindNames /\ "E2" \in BlindNames /\ "Y" \in BlindNames /\ "G_w" \in KeyNames
        /\ "U" \in BlindNames /\ "tU" \in BlindNames /\ "M1" \in BlindNames
        /\ "M2" \in BlindNames /\ "M5" \in BlindNames
    BY DEF BlindNames, KeyNames
  <2> QED
    BY <2>1, <2>2
<1> HIDE DEF v, b, G, V, f
<1>9. RowNumbers(v, a, P)
  <2>1. 1..Len(v) = {1, 2, 3, 4, 5, 6, 7, 8, 9}
    BY <1>3 DEF IsRow
  <2>2. /\ P[v[1][2]] \in Int /\ P[v[2][2]] \in Int /\ P[v[3][2]] \in Int /\ P[v[4][2]] \in Int
        /\ P[v[5][2]] \in Int /\ P[v[6][2]] \in Int /\ P[v[7][2]] \in Int /\ P[v[8][2]] \in Int
        /\ P[v[9][2]] \in Int
    BY <1>2, <1>8
  <2>3. /\ a[v[1][1]] \in Int /\ a[v[2][1]] \in Int /\ a[v[3][1]] \in Int /\ a[v[4][1]] \in Int
        /\ a[v[5][1]] \in Int /\ a[v[6][1]] \in Int /\ a[v[7][1]] \in Int /\ a[v[8][1]] \in Int
        /\ a[v[9][1]] \in Int
    BY <1>2, <1>7
  <2> QED
    BY <2>1, <2>2, <2>3 DEF RowNumbers
<1>10. f \in Seq(Int) /\ Len(f) = 9 /\ \A i \in 1..9 : f[i] = P[v[i][2]] * a[v[i][1]]
  <2> DEFINE m == 9
  <2>1. IsRow(v, m)
    BY <1>3
  <2> HIDE DEF m
  <2>2. f \in Seq(Int) /\ Len(f) = m /\ \A i \in 1..m : f[i] = P[v[i][2]] * a[v[i][1]]
    BY <1>9, <2>1, RowProducts DEF f
  <2> QED
    BY <2>2 DEF m
<1>11. Z!Sum(f) = f[1] + f[2] + f[3] + f[4] + f[5] + f[6] + f[7] + f[8] + f[9]
  <2>1. f \in Seq(Int) /\ Len(f) = 9
    BY <1>10
  <2> QED
    BY <2>1, SumLong
<1>12. /\ f[1] = P[v[1][2]] * a[v[1][1]] /\ f[2] = P[v[2][2]] * a[v[2][1]]
       /\ f[3] = P[v[3][2]] * a[v[3][1]] /\ f[4] = P[v[4][2]] * a[v[4][1]]
       /\ f[5] = P[v[5][2]] * a[v[5][1]] /\ f[6] = P[v[6][2]] * a[v[6][1]]
       /\ f[7] = P[v[7][2]] * a[v[7][1]] /\ f[8] = P[v[8][2]] * a[v[8][1]]
       /\ f[9] = P[v[9][2]] * a[v[9][1]]
  BY <1>10
<1>13. /\ f[1] = P["D2"] * a["y3"] /\ f[2] = P["E2"] * a["y4"] /\ f[3] = P["Y"] * a["rprime"]
       /\ f[4] = P["G_w"] * a["w"] /\ f[5] = P["U"] * a["x0"] /\ f[6] = P["tU"] * a["x1"]
       /\ f[7] = P["M1"] * a["y1"] /\ f[8] = P["M2"] * a["y2"] /\ f[9] = P["M5"] * a["y5"]
  BY <1>2, <1>12
<1>14. /\ b.S2 \in Int /\ V \in Int /\ key.W \in Int /\ key.x0 \in Int /\ key.x1 \in Int
       /\ Cong(b.S2, (((r.publicKey * rp + V) + M5 * y[5]) + r.D2 * y[3]) + r.E2 * y[4])
       /\ Cong(V, (key.W + U * (key.x0 + key.x1 * t)) + (M[1] * y[1] + M[2] * y[2]))
       /\ U \in Int /\ t \in Int
  BY BlindIs DEF b, V
<1>15. Cong(key.W, P["G_w"] * a["w"])
  <2>1. Cong(key.W, G[1] * key.w)
    BY DEF ResponseFrom, IsKey, G
  <2>2. P["G_w"] = G[1]
    BY <1>4 DEF KeyPointValues
  <2> QED
    BY <1>6, <2>1, <2>2
<1> DEFINE zz == (U * t) * key.x1
           z == P["tU"] * a["x1"]
           e == U * (key.x0 + key.x1 * t)
           ux == P["U"] * a["x0"]
           A == P["Y"] * a["rprime"]
           B == f[9] + f[1] + f[2]
           m == f[7] + f[8]
           gw == P["G_w"] * a["w"]
<1>16. U * t \in Int /\ zz \in Int /\ e \in Int /\ e = ux + zz
  <2> DEFINE c == key.x0
             d == key.x1
  <2>1. c \in Int /\ d \in Int /\ U \in Int /\ t \in Int /\ ux = U * c
    BY <1>4, <1>6, <1>14
  <2> HIDE DEF c, d, ux
  <2>2. U * (c + d * t) = U * c + (U * t) * d
    BY <2>1, Z3
  <2>3. U * t \in Int /\ (U * t) * d \in Int /\ U * (c + d * t) \in Int
    BY <2>1, Z3
  <2> QED
    BY <2>1, <2>2, <2>3 DEF c, d
<1>17. Cong(zz, z)
  <2> DEFINE c == U * t
             d == P["tU"]
             x == key.x1
  <2>1. c \in Int /\ d = c % Q /\ x \in Int /\ a["x1"] = x /\ d \in Int
    BY <1>4, <1>6, <1>8, <1>14, <1>16
  <2> HIDE DEF c, d
  <2>2. Cong(c % Q, c)
    BY <2>1, CongMod
  <2>3. Cong(c, d)
    BY <2>1, <2>2, CongSym
  <2> HIDE DEF x
  <2>4. Cong(c * x, d * x)
    BY <2>1, <2>3, CongRefl, CongMul
  <2> QED
    BY <2>1, <2>4 DEF c, d, x
<1>18. A \in Int /\ gw \in Int /\ ux \in Int /\ z \in Int
  BY <1>7, <1>8
<1>19. \A i \in 1..9 : f[i] \in Int
  BY <1>10, ElementType
<1>20. f[1] \in Int /\ f[2] \in Int /\ f[3] \in Int /\ f[4] \in Int /\ f[5] \in Int
       /\ f[6] \in Int /\ f[7] \in Int /\ f[8] \in Int /\ f[9] \in Int
  BY <1>19
<1>21. B \in Int /\ m \in Int
  BY <1>20
<1>22. /\ f[3] = A /\ f[4] = gw /\ f[5] = ux /\ f[6] = z
       /\ f[1] = r.D2 * y[3] /\ f[2] = r.E2 * y[4] /\ A = r.publicKey * rp
       /\ f[7] = M[1] * y[1] /\ f[8] = M[2] * y[2] /\ f[9] = M5 * y[5]
  BY <1>4, <1>5, <1>13
<1>23. Cong(b.S2, (((A + V) + f[9]) + f[1]) + f[2])
  BY <1>14, <1>22
<1>24. Cong(V, (key.W + e) + m)
  BY <1>14, <1>22
<1> HIDE DEF zz, z, e, ux, A, gw
<1>25. (((A + V) + f[9]) + f[1]) + f[2] = (A + V) + B
  BY <1>14, <1>18, <1>20
<1> HIDE DEF B, m
<1>26. Cong(b.S2, (A + V) + B)
  BY <1>23, <1>25
<1>27. IsBlinded(b.S2, A, V, B, key.W, gw, e, ux, zz, z, m)
  BY <1>14, <1>15, <1>16, <1>17, <1>18, <1>21, <1>24, <1>26 DEF IsBlinded, gw
<1>28. Cong(b.S2, (A + ((gw + (ux + z)) + m)) + B)
  BY <1>27, BlindedIs
<1>29. Z!Sum(f) = (A + ((gw + (ux + z)) + m)) + B
  BY <1>11, <1>20, <1>22 DEF B, m
<1>30. Cong(P["S2"], Z!Sum(f))
  BY <1>4, <1>28, <1>29
<1> QED
  BY <1>1, <1>30 DEF Holds, f

\* All equations hold.
LEMMA ResponseHolds ==
  ASSUME NEW key, NEW r, NEW s, NEW p, NEW t, NEW U, NEW M, NEW M5, NEW rp,
         ResponseFrom(key, r, s, p, t, U, M, M5, rp),
         NEW a, NEW P, BlindIn(a, P, key, r, t, U, M, M5, rp)
  PROVE  AllHold(ResponseEquations, a, P)
<1> DEFINE eqs == ResponseEquations
           n == 5
<1>1. KeyIn(a, P, key, n, n, params.cred)
  BY BlindNumbers
<1>2. First = eqs[3] /\ Second = eqs[4] /\ Published = eqs[1] /\ Issuing(n) = eqs[2] /\ Len(eqs) = 4
  BY ResponseEquationsAre
<1> HIDE DEF eqs, n
<1>3. Holds(Published, a, P) /\ Holds(Issuing(n), a, P)
  BY <1>1, PublishedHolds, IssuingHolds
<1>4. Holds(First, a, P) /\ Holds(Second, a, P)
  BY FirstHolds, SecondHolds
<1>5. 1..Len(eqs) = {1, 2, 3, 4}
  BY <1>2
<1>6. \A k \in 1..Len(eqs) : Holds(eqs[k], a, P)
  BY <1>2, <1>3, <1>4, <1>5
<1> QED
  BY <1>6 DEF AllHold, eqs

\* Every scalar is noticed: w and wprime in the first equation, rprime in the third,
\* the others in the second.
LEMMA ResponseNoticed ==
  ASSUME NEW key, NEW r, NEW s, NEW p, NEW t, NEW U, NEW M, NEW M5, NEW rp,
         ResponseFrom(key, r, s, p, t, U, M, M5, rp),
         NEW a, NEW P, BlindIn(a, P, key, r, t, U, M, M5, rp)
  PROVE  Noticed(ResponseEquations, a, P)
<1> DEFINE eqs == ResponseEquations
           n == 5
           u == KeyTerms
           o == Terms(u, Z!GY, n)
           m == 2
           v == FirstTerms
<1>1. KeyIn(a, P, key, n, n, params.cred)
  BY BlindNumbers
<1>2. First = eqs[3] /\ Second = eqs[4] /\ Published = eqs[1] /\ Issuing(n) = eqs[2] /\ Len(eqs) = 4
      /\ AllScalars(eqs) = {"w", "wprime", "x0", "x1", "rprime"} \cup NamesTo(Z!Y, n)
  BY ResponseEquationsAre DEF ResponseScalars
<1>3. n \in 1..5 /\ Z!GY \in NameLists
  BY DEF NameLists
<1>4. P["G"] = 1
  BY DEF BlindIn, AreBlindPoints
<1>5. u[1] = <<"x0", "G_x0">> /\ u[2] = <<"x1", "G_x1">>
  BY DEF KeyTerms
<1>6. IsRow(u, m)
  BY RowsAre
<1>7. 1..m = {1, 2}
  OBVIOUS
<1>8. v[1] = <<"y3", "D1">> /\ v[2] = <<"y4", "E1">> /\ v[3] = <<"rprime", "G">>
  BY DEF FirstTerms
<1>9. IsRow(v, 3)
  BY BlindRows
<1>10. First.rhs = v
  BY DEF First, Z!Equation
<1>11. \A x \in {"w", "wprime", "x0", "x1"} : x \notin NamesTo(Z!Y, n)
  BY NamesApart DEF NamesTo
<1>12. AllHold(eqs, a, P)
  BY ResponseHolds
<1> HIDE DEF eqs, n, u, o, m, v
<1>13. Issuing(n).rhs = o
  BY DEF Issuing, Z!Equation, o, u
<1>14. /\ P["G_x0"] \in NonZero /\ P["G_x1"] \in NonZero
       /\ \A i \in 1..n : P[Z!GY[i]] \in NonZero
  BY <1>1, KeyInIs
<1>15. /\ P["G_x0"] % Q # 0 /\ P["G_x1"] % Q # 0
       /\ \A i \in 1..n : P[Z!GY[i]] % Q # 0
  BY <1>14, NonZeroIs
<1>16. OccursOnce("w", Published.rhs, 1, P) /\ OccursOnce("wprime", Published.rhs, 2, P)
  BY <1>1, PublishedNotices
<1>17. OccursOnce("x0", o, 1, P)
  <2>1. UniqueScalar(u, m, 1) /\ u[1][1] = "x0" /\ u[1][2] = "G_x0"
    BY <1>5, <1>7 DEF UniqueScalar
  <2>2. u[1][1] \notin NamesTo(Z!Y, n)
    BY <1>11, <2>1
  <2>3. P[u[1][2]] % Q # 0
    BY <1>15, <2>1
  <2>4. OccursOnce(u[1][1], Terms(u, Z!GY, n), 1, P)
    BY <1>3, <1>6, <2>1, <2>2, <2>3, OccursInRow
  <2> QED
    BY <2>1, <2>4 DEF o
<1>18. OccursOnce("x1", o, 2, P)
  <2>1. UniqueScalar(u, m, 2) /\ u[2][1] = "x1" /\ u[2][2] = "G_x1"
    BY <1>5, <1>7 DEF UniqueScalar
  <2>2. u[2][1] \notin NamesTo(Z!Y, n)
    BY <1>11, <2>1
  <2>3. P[u[2][2]] % Q # 0
    BY <1>15, <2>1
  <2>4. OccursOnce(u[2][1], Terms(u, Z!GY, n), 2, P)
    BY <1>3, <1>6, <2>1, <2>2, <2>3, OccursInRow
  <2> QED
    BY <2>1, <2>4 DEF o
<1>19. ASSUME NEW i \in 1..n PROVE OccursOnce(Z!Y[i], o, m + i, P)
  <2>1. NoAttribute(u, m, n)
    BY <1>5, <1>7, <1>11 DEF NoAttribute
  <2>2. P[Z!GY[i]] % Q # 0
    BY <1>15
  <2>3. OccursOnce(Z!Y[i], Terms(u, Z!GY, n), m + i, P)
    BY <1>3, <1>6, <2>1, <2>2, OccursInShare
  <2> QED
    BY <2>3 DEF o
<1>20. OccursOnce("rprime", v, 3, P)
  <2>1. 1..Len(v) = {1, 2, 3}
    BY <1>9 DEF IsRow
  <2>2. P["G"] % Q # 0
    <3>1. 1 \in NonZero
      BY QAssumption DEF NonZero
    <3> QED
      BY <1>4, <3>1, NonZeroIs
  <2>3. \A k \in (1..Len(v)) \ {3} : v[k][1] # "rprime"
    BY <1>8, <2>1
  <2> QED
    BY <1>8, <2>1, <2>2, <2>3 DEF OccursOnce
<1>21. 1 \in 1..Len(eqs) /\ 2 \in 1..Len(eqs) /\ 3 \in 1..Len(eqs)
  BY <1>2
<1> QED
  <2> SUFFICES ASSUME NEW x \in AllScalars(eqs)
               PROVE  \E k \in 1..Len(eqs) : \E j \in 1..Len(eqs[k].rhs) :
                        Holds(eqs[k], a, P) /\ OccursOnce(x, eqs[k].rhs, j, P)
    BY DEF Noticed, eqs
  <2>1. \A k \in 1..Len(eqs) : Holds(eqs[k], a, P)
    BY <1>12 DEF AllHold
  <2>2. \A k \in 1..Len(eqs) : \A j : OccursOnce(x, eqs[k].rhs, j, P) =>
          j \in 1..Len(eqs[k].rhs) /\ Holds(eqs[k], a, P) /\ OccursOnce(x, eqs[k].rhs, j, P)
    BY <2>1 DEF OccursOnce
  <2>3. \E k \in 1..Len(eqs) : \E j : OccursOnce(x, eqs[k].rhs, j, P)
    <3>1. CASE x \in {"w", "wprime"}
      BY <1>2, <1>16, <1>21, <3>1
    <3>2. CASE x \in {"x0", "x1"}
      BY <1>2, <1>13, <1>17, <1>18, <1>21, <3>2
    <3>3. CASE x = "rprime"
      BY <1>2, <1>10, <1>20, <1>21, <3>3
    <3>4. CASE x \in NamesTo(Z!Y, n)
      BY <1>2, <1>13, <1>19, <1>21, <3>4 DEF NamesTo
    <3> QED
      BY <1>2, <3>1, <3>2, <3>3, <3>4
  <2> QED
    BY <2>2, <2>3

\* A credential for a profile key is accepted, and not after a change.
LEMMA ResponseSound ==
  ASSUME NEW key, NEW r, NEW s, NEW p, NEW t, NEW U, NEW M, NEW M5, NEW rp,
         ResponseFrom(key, r, s, p, t, U, M, M5, rp), NEW nonce, Drawn(nonce), NEW c \in Int
  PROVE  LET q     == BlindPoints(key, BlindOf(key, r, t, U, M, M5, rp), r, t, U, M, M5)
             proof == Z!Prove(Z!ResponseStatement, BlindScalars(key, rp), q, nonce, c)
         IN /\ Z!Verify(Z!ResponseStatement, proof, q)
            /\ ChangesRefused(Z!ResponseStatement, proof, q)
<1> DEFINE eqs == ResponseEquations
           a == BlindScalars(key, rp)
           q == BlindPoints(key, BlindOf(key, r, t, U, M, M5, rp), r, t, U, M, M5)
           proof == Z!Prove(Z!Statement(eqs), a, q, nonce, c)
<1>1. Fits(eqs, a, q)
  BY ResponseFits
<1>2. Noticed(eqs, a, WithG(q)) /\ AllHold(eqs, a, WithG(q))
  BY BlindInIs, ResponseNoticed, ResponseHolds
<1>3. Z!ResponseStatement = Z!Statement(eqs) /\ eqs \in Seq(Equations)
      /\ AllScalars(eqs) = ResponseScalars
  BY ResponseEquationsAre
<1>4. ResponseScalars \subseteq ScalarSet
  <2> DEFINE n == 5
  <2>1. n \in 1..5
    OBVIOUS
  <2>2. ResponseScalars = {"w", "wprime", "x0", "x1", "rprime"} \cup NamesTo(Z!Y, n)
    BY DEF ResponseScalars
  <2> HIDE DEF n
  <2> QED
    BY <2>1, <2>2, KeyScalarsFew
<1> HIDE DEF eqs, a, q
<1>5. /\ AllHold(eqs, a, WithG(q)) => Z!Verify(Z!Statement(eqs), proof, q)
      /\ ChangesRefused(Z!Statement(eqs), proof, q)
  BY <1>1, <1>2, <1>3, <1>4, ProofIsSound
<1> QED
  BY <1>2, <1>3, <1>5 DEF eqs, a, q

(***************************************************************************)
(* The inductive invariant of Zkp                                          *)
(***************************************************************************)

\* Init and create() leave parameters, and keys that belong to them.
KeysAre ==
  /\ IsKey(keys.profile, 5, params.cred) /\ IsKey(keys.authPni, 5, params.cred)
  /\ IsKey(keys.callLink, 7, params.cred)

\* A credential: its proof verifies unless it is for a call link, and not after a change;
\* that of a profile key is what the client decrypts it to.
IsCredential(m) ==
  /\ {"kind", "altered", "stmt", "points", "proof"} \subseteq DOMAIN m
  /\ m.kind \in {"authPni", "callLink", "profile"} /\ m.altered \in BOOLEAN
  /\ ~ m.altered => /\ m.kind # "callLink" => Z!Verify(m.stmt, m.proof, m.points)
                    /\ ChangesRefused(m.stmt, m.proof, m.points)
  /\ m.altered => ~ Z!Verify(m.stmt, m.proof, m.points)

\* The credential for a profile key is the one prepare() computes for all attributes.
Decrypts(m, key) ==
  m.kind = "profile"
    => /\ {"mac", "attributes"} \subseteq DOMAIN m
       /\ m.mac = Z!PrepareV(key, m.attributes.t, m.attributes.U, m.attributes.M)

\* The points of a request, for the commitment to a profile key.
PointsFor(p, r) == Z!RequestPoints(Z!Commitment(p), r)

\* A proof is refused whatever profile key was committed to.
RefusedForAll(proof, r) ==
  \A o \in ProfileKeys : ~ Z!Verify(Z!RequestStatement, proof, PointsFor(o, r))

\* A proof is right for the profile key p and for no other, and is for none after a change.
RightFor(proof, r, p) ==
  /\ Z!Verify(Z!RequestStatement, proof, PointsFor(p, r))
  /\ \A o \in ProfileKeys : o # p => ~ Z!Verify(Z!RequestStatement, proof, PointsFor(o, r))
  /\ \A d \in DOMAIN proof.response : RefusedForAll(Changed(proof, d), r)

\* A request that is on its way.
IsRequest(m) ==
  /\ {"kind", "altered", "profile", "secret", "request", "proof"} \subseteq DOMAIN m
  /\ m.kind = "request" /\ m.altered \in BOOLEAN
  /\ m.profile \in ProfileKeys /\ IsEncrypted(m.request, m.secret, m.profile)
  /\ ~ m.altered => RightFor(m.proof, m.request, m.profile)
  /\ m.altered => RefusedForAll(m.proof, m.request)

\* Parameters and keys belong together, a message is what it claims to be, and the
\* properties hold of the outcome.  The properties alone are not inductive: they follow
\* from what is known of the proof on its way, whatever is done to it.
ZkpInv ==
  /\ IsParams(params.cred) /\ IsPkc(params.pkc)
  /\ keys = None \/ KeysAre
  /\ stored = None \/ stored \in ProfileKeys
  /\ stored # None \/ msg # None => keys # None
  /\ \/ msg = None
     \/ IsCredential(msg) /\ Decrypts(msg, keys.profile)
     \/ IsRequest(msg) /\ stored # None
  /\ Z!ProvedIsAccepted /\ Z!NothingElseIsAccepted

\* The parameters in the beginning.
LEMMA ZkpInvInit == AllInit => ZkpInv
<1> SUFFICES ASSUME AllInit PROVE ZkpInv
  OBVIOUS
<1>1. Z!Init
  BY DEF AllInit
<1>2. PICK d \in Draws, e \in Draws : params = [cred |-> Z!Reorder(d), pkc |-> SubSeq(e, 1, 3)]
  BY <1>1 DEF Z!Init
<1>3. IsParams(params.cred)
  BY <1>2, DrawnIs, ReorderIs
<1>4. IsPkc(params.pkc)
  <2> DEFINE a == 1    b == 3
  <2>1. e \in Seq(NonZero) /\ Len(e) \in Nat /\ Len(e) >= 17
    BY DrawnIs, SeqIsFunction DEF Drawn
  <2>2. a \in Nat /\ b \in Nat /\ 1 <= a /\ a <= b /\ b <= Len(e) /\ b - a + 1 = 3
    BY <2>1
  <2>3. params.pkc = SubSeq(e, a, b)
    BY <1>2
  <2> HIDE DEF a, b
  <2>4. SubSeq(e, a, b) \in Seq(NonZero) /\ Len(SubSeq(e, a, b)) = b - a + 1
    BY <2>1, <2>2, PartIs
  <2> QED
    BY <2>2, <2>3, <2>4 DEF IsPkc
<1>5. keys = None /\ stored = None /\ msg = None /\ outcome = None
  BY <1>1 DEF Z!Init
<1> QED
  BY <1>3, <1>4, <1>5 DEF ZkpInv, Z!ProvedIsAccepted, Z!NothingElseIsAccepted,
       Z!AlteredIsRefused, Z!OtherKeyIsRefused

\* Steps that leave the parameters and the keys.
LEMMA ParamsStay ==
  ASSUME UNCHANGED params
  PROVE  /\ IsParams(params.cred) => IsParams(params.cred)'
         /\ IsPkc(params.pkc) => IsPkc(params.pkc)'
         /\ UNCHANGED keys /\ KeysAre => KeysAre'
         /\ \A m : IsRequest(m)' <=> IsRequest(m)
<1>1. \A p, r : PointsFor(p, r)' = PointsFor(p, r)
  BY DEF PointsFor, Z!RequestPoints, Z!Commitment
<1>2. \A proof, r : RefusedForAll(proof, r)' <=> RefusedForAll(proof, r)
  BY <1>1 DEF RefusedForAll
<1>3. \A proof, r, p : RightFor(proof, r, p)' <=> RightFor(proof, r, p)
  BY <1>1, <1>2 DEF RightFor
<1> QED
  BY <1>2, <1>3 DEF KeysAre, IsRequest

\* An issued credential for an account or for a call link.
LEMMA Issued ==
  ASSUME NEW kind \in {"authPni", "callLink"}, NEW key, NEW size, NEW n, NEW d, NEW M,
         MacFrom(key, size, n, d[1], d[2], M), size = n \/ kind = "callLink",
         Z!Issue(kind, key, n, d, M)
  PROVE  \A k : IsCredential(msg') /\ Decrypts(msg', k)
<1> DEFINE points == Z!MacPoints(key, d[1], d[2], Z!PrepareV(key, d[1], d[2], M), M)
           stmt == Z!MacStatement(n)
<1>1. PICK nonce \in Draws, challenge \in Challenges :
        msg' = [kind |-> kind, altered |-> FALSE, stmt |-> stmt, points |-> points,
                proof |-> Z!Prove(stmt, Z!KeyScalars(key, n), points, nonce, challenge)]
  BY DEF Z!Issue
<1>2. Drawn(nonce) /\ challenge \in Int
  BY DrawnIs, ChallengesAssumption, QAssumption
<1> DEFINE proof == Z!Prove(stmt, Z!KeyScalars(key, n), points, nonce, challenge)
<1>3. /\ size = n => Z!Verify(stmt, proof, points)
      /\ ChangesRefused(stmt, proof, points)
  BY <1>2, MacSound
<1> HIDE DEF points, stmt
<1>4. /\ {"kind", "altered", "stmt", "points", "proof"} \subseteq DOMAIN msg'
      /\ msg'.kind = kind /\ msg'.altered = FALSE /\ msg'.stmt = stmt /\ msg'.points = points
      /\ msg'.proof = proof
  BY <1>1
<1> HIDE DEF proof
<1> QED
  BY <1>3, <1>4 DEF IsCredential, Decrypts

\* A request that a client makes.
LEMMA Requested ==
  ASSUME IsPkc(params.pkc), NEW p \in ProfileKeys, Z!Request(p)
  PROVE  IsRequest(msg')
<1> DEFINE made(d) == [publicKey |-> d[1], D1 |-> d[2], D2 |-> (d[2] * d[1] + p.M3) % Q,
                       E1 |-> d[3], E2 |-> (d[3] * d[1] + p.M4) % Q]
           known(d) == [y |-> d[1], r1 |-> d[2], r2 |-> d[3], j3 |-> p.j3]
<1>1. PICK d \in Draws, nonce \in Draws, challenge \in Challenges :
        msg' = [kind |-> "request", altered |-> FALSE, profile |-> p, secret |-> d[1],
                request |-> made(d),
                proof |-> Z!Prove(Z!RequestStatement, known(d), PointsFor(p, made(d)),
                                  nonce, challenge)]
  BY DEF Z!Request, PointsFor
<1>2. Drawn(nonce) /\ challenge \in Int
  BY DrawnIs, ChallengesAssumption, QAssumption
<1> DEFINE r == made(d)
           s == d[1]
           proof == Z!Prove(Z!RequestStatement, ScalarsOf(r, s, p), PointsFor(p, r), nonce,
                            challenge)
<1>3. known(d) = ScalarsOf(r, s, p)
  BY DEF ScalarsOf
<1>4. IsEncrypted(r, s, p)
  <2>1. d[1] \in NonZero /\ d[2] \in NonZero /\ d[3] \in NonZero
    BY DrawnIs, DrawIs
  <2>2. p.M3 \in Int /\ p.M4 \in Int
    BY CommitmentIs
  <2> QED
    BY <2>1, <2>2 DEF IsEncrypted
<1>5. RequestFrom(r, s, p)
  BY <1>4 DEF RequestFrom
<1>6. /\ {"kind", "altered", "profile", "secret", "request", "proof"} \subseteq DOMAIN msg'
      /\ msg'.kind = "request" /\ msg'.altered = FALSE /\ msg'.profile = p /\ msg'.secret = s
      /\ msg'.request = r /\ msg'.proof = proof
  BY <1>1, <1>3
<1> HIDE DEF made, r, s
<1>7. /\ Z!Verify(Z!RequestStatement, proof, PointsFor(p, r))
      /\ ChangesRefused(Z!RequestStatement, proof, PointsFor(p, r))
  BY <1>2, <1>5, RequestSound DEF PointsFor
<1>8. ASSUME NEW o \in ProfileKeys, o # p, NEW q, q.transcript = proof.transcript
      PROVE  ~ Z!Verify(Z!RequestStatement, q, PointsFor(o, r))
  BY <1>5, <1>8, OtherRefused DEF PointsFor
<1>9. ASSUME NEW i \in DOMAIN proof.response
      PROVE  RefusedForAll(Changed(proof, i), r)
  <2>1. ~ Z!Verify(Z!RequestStatement, Changed(proof, i), PointsFor(p, r))
    BY <1>7 DEF ChangesRefused
  <2>2. Changed(proof, i).transcript = proof.transcript
    BY DEF Changed, Z!Prove
  <2> QED
    BY <1>8, <2>1, <2>2 DEF RefusedForAll
<1> HIDE DEF proof
<1>10. RightFor(proof, r, p)
  BY <1>7, <1>8, <1>9 DEF RightFor
<1>11. ASSUME NEW m,
             {"kind", "altered", "profile", "secret", "request", "proof"} \subseteq DOMAIN m,
             m.kind = "request", m.altered = FALSE, m.profile = p, m.secret = s,
             m.request = r, m.proof = proof
       PROVE  IsRequest(m)
  <2>1. RightFor(m.proof, m.request, m.profile)
    BY <1>10, <1>11, Zenon
  <2>2. IsEncrypted(m.request, m.secret, m.profile)
    BY <1>4, <1>11, Zenon
  <2> QED
    BY <1>11, <2>1, <2>2 DEF IsRequest
<1> QED
  BY <1>6, <1>11

\* The credential for a profile key, which the server has only seen encrypted.
LEMMA Responded ==
  ASSUME IsParams(params.cred), KeysAre, IsRequest(msg), Z!ProfileKeyCredentialResponse
  PROVE  IsCredential(msg') /\ Decrypts(msg', keys.profile)
<1> DEFINE key == keys.profile
           r == msg.request
           s == msg.secret
           p == msg.profile
           M5(d) == (params.cred[15] * d[6]) % Q
           M(d) == SubSeq(d, 4, 5)
           b(d) == BlindOf(key, r, d[1], d[2], M(d), M5(d), d[3])
           points(d) == BlindPoints(key, b(d), r, d[1], d[2], M(d), M5(d))
           scalars(d) == BlindScalars(key, d[3])
<1>1. PICK d \in Draws, nonce \in Draws, challenge \in Challenges :
        msg' = [kind |-> "profile", altered |-> FALSE, stmt |-> Z!ResponseStatement,
                points |-> points(d),
                proof |-> Z!Prove(Z!ResponseStatement, scalars(d), points(d), nonce, challenge),
                mac |-> (b(d).S2 - s * b(d).S1) % Q,
                attributes |-> [t |-> d[1], U |-> d[2], M |-> M(d) \o <<p.M3, p.M4, M5(d)>>]]
  BY DEF Z!ProfileKeyCredentialResponse, BlindPoints, BlindScalars, BlindOf, Z!CRED_G_m5
<1>2. Drawn(nonce) /\ challenge \in Int /\ Drawn(d)
  BY DrawnIs, ChallengesAssumption, QAssumption
<1> DEFINE t == d[1]    U == d[2]    rp == d[3]    N == M(d)    N5 == M5(d)
           q == points(d)
           c == b(d)
           proof == Z!Prove(Z!ResponseStatement, BlindScalars(key, rp), q, nonce, challenge)
<1>3. ResponseFrom(key, r, s, p, t, U, N, N5, rp)
  <2>1. t \in NonZero /\ U \in NonZero /\ rp \in NonZero
    BY <1>2, DrawIs
  <2>2. N \in Seq(NonZero) /\ Len(N) = 2
    <3> DEFINE i == 4    j == 5
    <3>1. d \in Seq(NonZero) /\ Len(d) \in Nat /\ Len(d) >= 17
      BY <1>2, SeqIsFunction DEF Drawn
    <3>2. i \in Nat /\ j \in Nat /\ 1 <= i /\ i <= j /\ j <= Len(d) /\ j - i + 1 = 2
      BY <3>1
    <3>3. N = SubSeq(d, i, j)
      OBVIOUS
    <3> HIDE DEF i, j
    <3>4. SubSeq(d, i, j) \in Seq(NonZero) /\ Len(SubSeq(d, i, j)) = j - i + 1
      BY <3>1, <3>2, PartIs
    <3> QED
      BY <3>2, <3>3, <3>4
  <2>3. N5 \in Int
    <3>1. params.cred[15] \in NonZero /\ d[6] \in NonZero
      BY <1>2, DrawIs, ParamIs
    <3>2. (params.cred[15] * d[6]) % Q \in NonZero
      BY <3>1, NonZeroIs
    <3> QED
      BY <3>2, NonZeroIs
  <2>4. IsKey(key, 5, params.cred) /\ IsEncrypted(r, s, p)
    BY DEF KeysAre, IsRequest
  <2> HIDE DEF key, r, s, p, t, U, rp, N, N5
  <2> QED
    BY <2>1, <2>2, <2>3, <2>4 DEF ResponseFrom
<1>4. q = BlindPoints(key, BlindOf(key, r, t, U, N, N5, rp), r, t, U, N, N5)
      /\ c = Z!Blind(key, r, Z!PrepareV(key, t, U, N), rp, N5)
  BY DEF BlindOf
<1>5. /\ {"kind", "altered", "stmt", "points", "proof", "mac", "attributes"}
             \subseteq DOMAIN msg'
      /\ msg'.kind = "profile" /\ msg'.altered = FALSE /\ msg'.stmt = Z!ResponseStatement
      /\ msg'.points = q /\ msg'.proof = proof
      /\ msg'.mac = (c.S2 - s * c.S1) % Q
      /\ msg'.attributes.t = t /\ msg'.attributes.U = U
      /\ msg'.attributes.M = N \o <<p.M3, p.M4, N5>>
  <2> HIDE DEF points, b, M, M5
  <2> QED
    BY <1>1
<1> HIDE DEF key, r, s, p, t, U, rp, N, N5, q, c
<1>6. /\ Z!Verify(Z!ResponseStatement, proof, q)
      /\ ChangesRefused(Z!ResponseStatement, proof, q)
  BY <1>2, <1>3, <1>4, ResponseSound
<1>7. (c.S2 - s * c.S1) % Q = Z!PrepareV(key, t, U, N \o <<p.M3, p.M4, N5>>)
  <2>1. IsKey(key, 5, params.cred) /\ IsEncrypted(r, s, p)
        /\ t \in Int /\ U \in Int /\ rp \in Int /\ N5 \in Int
    BY <1>3, NonZeroIs DEF ResponseFrom
  <2>2. IsAttributes(N, 2)
    <3>1. N \in Seq(NonZero) /\ Len(N) = 2
      BY <1>3 DEF ResponseFrom
    <3>2. N \in Seq(Int)
      <4>1. \A x \in NonZero : x \in Int
        BY NonZeroIs
      <4> QED
        BY <3>1, <4>1
    <3> QED
      BY <3>1, <3>2 DEF IsAttributes
  <2> QED
    BY <1>4, <2>1, <2>2, BlindDecrypts
<1> HIDE DEF proof
<1>8. IsCredential(msg')
  BY <1>5, <1>6 DEF IsCredential
<1>9. Decrypts(msg', key)
  BY <1>5, <1>7 DEF Decrypts
<1> QED
  BY <1>8, <1>9 DEF key

\* A number of a credential's proof arrives as another.
LEMMA AlteredCredential ==
  ASSUME IsCredential(msg), NEW key, Decrypts(msg, key), Z!Alter
  PROVE  IsCredential(msg') /\ Decrypts(msg', key)
<1>1. PICK i \in DOMAIN msg.proof.response :
        msg' = [msg EXCEPT !.altered = TRUE, !.proof.response[i] = (@ + 1) % Q]
  BY Zenon DEF Z!Alter
<1> DEFINE m == msg
<1>2. /\ {"kind", "altered", "stmt", "points", "proof"} \subseteq DOMAIN m
      /\ m.kind \in {"authPni", "callLink", "profile"}
  BY DEF IsCredential
<1>3. /\ DOMAIN msg' = DOMAIN m
      /\ msg'.altered = TRUE /\ msg'.proof = Changed(m.proof, i)
      /\ \A x \in DOMAIN m : x \notin {"altered", "proof"} => msg'[x] = m[x]
  BY <1>1, <1>2 DEF Changed
<1>4. msg'.kind = m.kind /\ msg'.stmt = m.stmt /\ msg'.points = m.points
  BY <1>2, <1>3
<1>5. ~ Z!Verify(m.stmt, Changed(m.proof, i), m.points)
  BY <1>1 DEF IsCredential, ChangesRefused, Z!Alter
<1>6. Decrypts(msg', key)
  <2>1. m.kind = "profile" => msg'.mac = m.mac /\ msg'.attributes = m.attributes
    BY <1>3 DEF Decrypts
  <2> QED
    BY <1>3, <1>4, <2>1 DEF Decrypts
<1> HIDE DEF m
<1> QED
  BY <1>2, <1>3, <1>4, <1>5, <1>6 DEF IsCredential

\* A number of a request's proof arrives as another.
LEMMA AlteredRequest ==
  ASSUME IsRequest(msg), Z!Alter
  PROVE  IsRequest(msg')
<1>1. PICK i \in DOMAIN msg.proof.response :
        msg' = [msg EXCEPT !.altered = TRUE, !.proof.response[i] = (@ + 1) % Q]
  BY Zenon DEF Z!Alter
<1> DEFINE m == msg
<1>2. {"kind", "altered", "profile", "secret", "request", "proof"} \subseteq DOMAIN m
  BY DEF IsRequest
<1>3. /\ DOMAIN msg' = DOMAIN m
      /\ msg'.altered = TRUE /\ msg'.proof = Changed(m.proof, i)
      /\ \A x \in DOMAIN m : x \notin {"altered", "proof"} => msg'[x] = m[x]
  BY <1>1, <1>2 DEF Changed
<1>4. msg'.kind = m.kind /\ msg'.profile = m.profile /\ msg'.secret = m.secret
      /\ msg'.request = m.request
  BY <1>2, <1>3
<1>5. RefusedForAll(Changed(m.proof, i), m.request)
  BY <1>1 DEF IsRequest, RightFor, Z!Alter
<1>6. m.kind = "request" /\ m.profile \in ProfileKeys
      /\ IsEncrypted(m.request, m.secret, m.profile)
  BY DEF IsRequest
<1> HIDE DEF m
<1> QED
  BY <1>2, <1>3, <1>4, <1>5, <1>6 DEF IsRequest

\* What the outcome says, with the names of the properties taken apart.
OutcomeIs(o, st) ==
  /\ /\ o # None /\ ~ o.altered /\ o.kind # "callLink"
     /\ o.kind = "request" => o.profile = st
     => o.accepted
  /\ o # None /\ o.altered => ~ o.accepted
  /\ o # None /\ o.kind = "request" /\ o.profile # st => ~ o.accepted

\* These are the properties.
LEMMA OutcomeIsThat ==
  Z!ProvedIsAccepted /\ Z!NothingElseIsAccepted <=> OutcomeIs(outcome, stored)
  BY DEF OutcomeIs, Z!ProvedIsAccepted, Z!NothingElseIsAccepted, Z!AlteredIsRefused,
         Z!OtherKeyIsRefused

\* The invariant after a step, from its parts.
MsgIs == \/ msg = None
         \/ IsCredential(msg) /\ Decrypts(msg, keys.profile)
         \/ IsRequest(msg) /\ stored # None

\* Steps with which only the message, the profile and the outcome change.
LEMMA AfterStep ==
  ASSUME ZkpInv, UNCHANGED <<params, keys>>, keys # None,
         stored' = None \/ stored' \in ProfileKeys,
         \/ msg' = None
         \/ IsCredential(msg') /\ Decrypts(msg', keys.profile)
         \/ IsRequest(msg') /\ stored' # None,
         OutcomeIs(outcome', stored')
  PROVE  ZkpInv'
<1>1. /\ IsParams(params.cred)' /\ IsPkc(params.pkc)'
      /\ KeysAre => KeysAre'
      /\ \A m : IsRequest(m)' <=> IsRequest(m)
  BY ParamsStay DEF ZkpInv
<1>2. (keys = None \/ KeysAre)'
  BY <1>1 DEF ZkpInv
<1>3. MsgIs'
  BY <1>1 DEF MsgIs
<1>4. (Z!ProvedIsAccepted /\ Z!NothingElseIsAccepted)'
  BY DEF OutcomeIs, Z!ProvedIsAccepted, Z!NothingElseIsAccepted, Z!AlteredIsRefused,
         Z!OtherKeyIsRefused
<1> QED
  BY <1>1, <1>2, <1>3, <1>4 DEF ZkpInv, MsgIs

\* create() makes the keys from the parameters.
LEMMA CreateStep ==
  ASSUME ZkpInv, Z!Create
  PROVE  ZkpInv'
<1>1. PICK d \in Draws :
        keys' = [profile |-> Z!KeyPair(d, 5), authPni |-> Z!KeyPair(d, 5),
                 callLink |-> Z!KeyPair(d, 7)]
  BY DEF Z!Create
<1>2. UNCHANGED <<params, stored, msg, outcome>> /\ stored = None /\ msg = None
  BY DEF Z!Create, ZkpInv
<1>3. Drawn(d) /\ IsParams(params.cred) /\ IsPkc(params.pkc)
  BY DrawnIs DEF ZkpInv
<1>4. IsKey(Z!KeyPair(d, 5), 5, params.cred) /\ IsKey(Z!KeyPair(d, 7), 7, params.cred)
  <2>1. \A size \in 5..7 : IsKey(Z!KeyPair(d, size), size, params.cred)
    BY <1>3, KeyPairIs
  <2> QED
    BY <2>1
<1>5. IsParams(params.cred)' /\ IsPkc(params.pkc)'
  BY <1>2, <1>3
<1>6. KeysAre'
  BY <1>1, <1>2, <1>4 DEF KeysAre
<1>7. (Z!ProvedIsAccepted /\ Z!NothingElseIsAccepted)'
  BY <1>2 DEF ZkpInv, Z!ProvedIsAccepted, Z!NothingElseIsAccepted, Z!AlteredIsRefused,
              Z!OtherKeyIsRefused
<1> QED
  BY <1>2, <1>5, <1>6, <1>7 DEF ZkpInv

\* Attributes of a credential for an account: four points of two UUIDs, and the time.
LEMMA AccountAttributes ==
  ASSUME IsParams(params.cred), NEW d, Drawn(d)
  PROVE  LET M == SubSeq(d, 3, 6) \o <<(params.cred[Z!CRED_G_m5] * d[7]) % Q>> IN
         M \in Seq(NonZero) /\ Len(M) = 5
<1> DEFINE i == 3    j == 6    a == SubSeq(d, i, j)
           x == (params.cred[15] * d[7]) % Q    b == <<x>>
<1>1. d \in Seq(NonZero) /\ Len(d) \in Nat /\ Len(d) >= 17
  BY SeqIsFunction DEF Drawn
<1>2. i \in Nat /\ j \in Nat /\ 1 <= i /\ i <= j /\ j <= Len(d) /\ j - i + 1 = 4
  BY <1>1
<1>3. x \in NonZero
  <2>1. params.cred[15] \in NonZero /\ d[7] \in NonZero
    BY DrawIs, ParamIs
  <2> QED
    BY <2>1, NonZeroIs
<1>4. b \in Seq(NonZero) /\ Len(b) = 1
  <2> HIDE DEF x
  <2> QED
    BY <1>3
<1>5. a \o b = SubSeq(d, 3, 6) \o <<(params.cred[Z!CRED_G_m5] * d[7]) % Q>>
  BY DEF Z!CRED_G_m5
<1> HIDE DEF i, j, b
<1>6. a \in Seq(NonZero) /\ Len(a) = j - i + 1
  BY <1>1, <1>2, PartIs
<1> HIDE DEF a
<1>7. a \o b \in Seq(NonZero) /\ Len(a \o b) = Len(a) + Len(b)
  BY <1>4, <1>6, ConcatIs
<1>8. Len(a \o b) = 5
  BY <1>2, <1>4, <1>6, <1>7
<1> QED
  BY <1>5, <1>7, <1>8

\* Attributes of a credential for a call link.
LEMMA CallLinkAttributes ==
  ASSUME NEW d, Drawn(d)
  PROVE  SubSeq(d, 3, 5) \in Seq(NonZero) /\ Len(SubSeq(d, 3, 5)) = 3
<1> DEFINE i == 3    j == 5
<1>1. d \in Seq(NonZero) /\ Len(d) \in Nat /\ Len(d) >= 17
  BY SeqIsFunction DEF Drawn
<1>2. i \in Nat /\ j \in Nat /\ 1 <= i /\ i <= j /\ j <= Len(d) /\ j - i + 1 = 3
  BY <1>1
<1>3. SubSeq(d, 3, 5) = SubSeq(d, i, j)
  OBVIOUS
<1> HIDE DEF i, j
<1>4. SubSeq(d, i, j) \in Seq(NonZero) /\ Len(SubSeq(d, i, j)) = j - i + 1
  BY <1>1, <1>2, PartIs
<1> QED
  BY <1>2, <1>3, <1>4

\* A credential for an account.
LEMMA AuthStep ==
  ASSUME ZkpInv, Z!AuthCredentialWithPniResponse
  PROVE  ZkpInv'
<1> DEFINE key == keys.authPni
           M(d) == SubSeq(d, 3, 6) \o <<(params.cred[Z!CRED_G_m5] * d[7]) % Q>>
           n == 5
           kind == "authPni"
<1>1. PICK d \in Draws : Z!Issue(kind, key, n, d, M(d))
  BY DEF Z!AuthCredentialWithPniResponse
<1>2. keys # None /\ stored = None /\ msg = None /\ outcome = None
  BY DEF Z!AuthCredentialWithPniResponse, Z!Ready
<1>3. Drawn(d) /\ IsParams(params.cred) /\ KeysAre
  BY <1>2, DrawnIs DEF ZkpInv
<1> DEFINE N == M(d)
<1>4. N \in Seq(NonZero) /\ Len(N) = n
  BY <1>3, AccountAttributes
<1>5. n \in 5..7 /\ n \in 1..5 /\ n <= n /\ kind \in {"authPni", "callLink"}
  OBVIOUS
<1>6. IsKey(key, n, params.cred) /\ d[1] \in NonZero /\ d[2] \in NonZero
  BY <1>3, DrawIs DEF KeysAre
<1>7. UNCHANGED <<params, keys, stored, outcome>>
  BY <1>1 DEF Z!Issue
<1>8. Z!Issue(kind, key, n, d, N)
  BY <1>1
<1> HIDE DEF key, M, n, kind, N
<1>9. MacFrom(key, n, n, d[1], d[2], N)
  BY <1>3, <1>4, <1>5, <1>6 DEF MacFrom
<1>10. IsCredential(msg') /\ Decrypts(msg', keys.profile)
  BY <1>5, <1>8, <1>9, Issued
<1>11. OutcomeIs(outcome', stored')
  BY <1>2, <1>7 DEF OutcomeIs
<1> QED
  BY <1>2, <1>7, <1>10, <1>11, AfterStep

\* A credential for a call link.
LEMMA CallLinkStep ==
  ASSUME ZkpInv, Z!CallLinkAuthCredentialResponse
  PROVE  ZkpInv'
<1> DEFINE key == keys.callLink
           size == 7
           n == 3
           kind == "callLink"
<1>1. PICK d \in Draws : Z!Issue(kind, key, n, d, SubSeq(d, 3, 5))
  BY DEF Z!CallLinkAuthCredentialResponse
<1>2. keys # None /\ stored = None /\ msg = None /\ outcome = None
  BY DEF Z!CallLinkAuthCredentialResponse, Z!Ready
<1>3. Drawn(d) /\ IsParams(params.cred) /\ KeysAre
  BY <1>2, DrawnIs DEF ZkpInv
<1> DEFINE N == SubSeq(d, 3, 5)
<1>4. N \in Seq(NonZero) /\ Len(N) = n
  BY <1>3, CallLinkAttributes
<1>5. size \in 5..7 /\ n \in 1..5 /\ n <= size /\ kind \in {"authPni", "callLink"}
      /\ kind = "callLink"
  OBVIOUS
<1>6. IsKey(key, size, params.cred) /\ d[1] \in NonZero /\ d[2] \in NonZero
  BY <1>3, DrawIs DEF KeysAre
<1>7. UNCHANGED <<params, keys, stored, outcome>>
  BY <1>1 DEF Z!Issue
<1>8. Z!Issue(kind, key, n, d, N)
  BY <1>1
<1> HIDE DEF key, n, size, N
<1>9. MacFrom(key, size, n, d[1], d[2], N)
  BY <1>3, <1>4, <1>5, <1>6 DEF MacFrom
<1>10. IsCredential(msg') /\ Decrypts(msg', keys.profile)
  BY <1>5, <1>8, <1>9, Issued
<1>11. OutcomeIs(outcome', stored')
  BY <1>2, <1>7 DEF OutcomeIs
<1> QED
  BY <1>2, <1>7, <1>10, <1>11, AfterStep

\* A client stores a commitment.
LEMMA PutStep ==
  ASSUME ZkpInv, NEW p \in ProfileKeys, Z!PutProfile(p)
  PROVE  ZkpInv'
<1>1. /\ keys # None /\ msg = None /\ outcome = None /\ stored' = p
      /\ UNCHANGED <<params, keys, msg, outcome>>
  BY DEF Z!PutProfile, Z!Ready
<1>2. OutcomeIs(outcome', stored')
  BY <1>1 DEF OutcomeIs
<1> QED
  BY <1>1, <1>2, AfterStep

\* A client makes a request.
LEMMA RequestStep ==
  ASSUME ZkpInv, NEW p \in ProfileKeys, Z!Request(p)
  PROVE  ZkpInv'
<1>1. /\ stored # None /\ msg = None /\ outcome = None
      /\ UNCHANGED <<params, keys, stored, outcome>>
  BY DEF Z!Request
<1>2. keys # None /\ IsPkc(params.pkc) /\ stored \in ProfileKeys
  BY <1>1 DEF ZkpInv
<1>3. IsRequest(msg')
  BY <1>2, Requested
<1>4. OutcomeIs(outcome', stored')
  BY <1>1 DEF OutcomeIs
<1> QED
  BY <1>1, <1>2, <1>3, <1>4, AfterStep

\* The server verifies a request.  It does so with the stored commitment.
LEMMA AnswerOfRequest ==
  ASSUME ZkpInv, msg # None, msg.kind = "request",
         outcome' = [kind |-> "request", altered |-> msg.altered, profile |-> msg.profile,
                     accepted |-> Z!Verified]
  PROVE  OutcomeIs(outcome', stored)
<1>1. IsRequest(msg) /\ stored \in ProfileKeys
  BY DEF ZkpInv, IsCredential
<1>2. Z!Verified <=> Z!Verify(Z!RequestStatement, msg.proof, PointsFor(stored, msg.request))
  BY DEF Z!Verified, PointsFor
<1>3. ~ msg.altered /\ msg.profile = stored => Z!Verified
  BY <1>1, <1>2 DEF IsRequest, RightFor
<1>4. msg.altered => ~ Z!Verified
  BY <1>1, <1>2 DEF IsRequest, RefusedForAll
<1>5. msg.profile # stored => ~ Z!Verified
  BY <1>1, <1>2 DEF IsRequest, RefusedForAll, RightFor
<1>6. /\ outcome'.kind = "request" /\ outcome'.altered = msg.altered
      /\ outcome'.profile = msg.profile /\ outcome'.accepted = Z!Verified
  BY Zenon
<1> QED
  BY <1>3, <1>4, <1>5, <1>6 DEF OutcomeIs

\* The server refuses a request.
LEMMA RefuseStep ==
  ASSUME ZkpInv, Z!RefuseRequest
  PROVE  ZkpInv'
<1>1. /\ msg # None /\ msg.kind = "request" /\ ~ Z!Verified /\ msg' = None
      /\ UNCHANGED <<params, keys, stored>>
  BY DEF Z!RefuseRequest
<1>2. outcome' = [kind |-> "request", altered |-> msg.altered, profile |-> msg.profile,
                  accepted |-> Z!Verified]
  <2>1. FALSE = Z!Verified
    BY <1>1 DEF Z!Verified, Z!Verify
  <2> QED
    BY <2>1, Zenon DEF Z!RefuseRequest
<1>3. OutcomeIs(outcome', stored)
  BY <1>1, <1>2, AnswerOfRequest
<1>4. keys # None /\ (stored = None \/ stored \in ProfileKeys)
  BY <1>1 DEF ZkpInv
<1> QED
  BY <1>1, <1>3, <1>4, AfterStep

\* The server accepts a request and answers with a credential.
LEMMA ResponseStep ==
  ASSUME ZkpInv, Z!ProfileKeyCredentialResponse
  PROVE  ZkpInv'
<1>1. /\ msg # None /\ msg.kind = "request" /\ Z!Verified
      /\ UNCHANGED <<params, keys, stored>>
  BY DEF Z!ProfileKeyCredentialResponse
<1>2. outcome' = [kind |-> "request", altered |-> msg.altered, profile |-> msg.profile,
                  accepted |-> Z!Verified]
  <2>1. TRUE = Z!Verified
    BY <1>1 DEF Z!Verified, Z!Verify
  <2> QED
    BY <2>1, Zenon DEF Z!ProfileKeyCredentialResponse
<1>3. OutcomeIs(outcome', stored)
  BY <1>1, <1>2, AnswerOfRequest
<1>4. keys # None /\ (stored = None \/ stored \in ProfileKeys)
  BY <1>1 DEF ZkpInv
<1>5. IsParams(params.cred) /\ KeysAre /\ IsRequest(msg)
  BY <1>1, <1>4 DEF ZkpInv, IsCredential
<1>6. IsCredential(msg') /\ Decrypts(msg', keys.profile)
  BY <1>5, Responded
<1> QED
  BY <1>1, <1>3, <1>4, <1>6, AfterStep

\* A number of a proof arrives as another.
LEMMA AlterStep ==
  ASSUME ZkpInv, Z!Alter
  PROVE  ZkpInv'
<1>1. msg # None /\ UNCHANGED <<params, keys, stored, outcome>>
  BY DEF Z!Alter
<1>2. keys # None /\ (stored = None \/ stored \in ProfileKeys)
  BY <1>1 DEF ZkpInv
<1>3. OutcomeIs(outcome', stored')
  BY <1>1, OutcomeIsThat DEF ZkpInv
<1>4. CASE IsCredential(msg) /\ Decrypts(msg, keys.profile)
  <2>1. IsCredential(msg') /\ Decrypts(msg', keys.profile)
    BY <1>4, AlteredCredential
  <2> QED
    BY <1>1, <1>2, <1>3, <2>1, AfterStep
<1>5. CASE IsRequest(msg) /\ stored # None
  <2>1. IsRequest(msg')
    BY <1>5, AlteredRequest
  <2> QED
    BY <1>1, <1>2, <1>3, <1>5, <2>1, AfterStep
<1> QED
  BY <1>1, <1>4, <1>5 DEF ZkpInv

\* A client verifies a credential.
LEMMA ReceiveStep ==
  ASSUME ZkpInv, Z!Receive
  PROVE  ZkpInv'
<1> DEFINE v == Z!Verify(msg.stmt, msg.proof, msg.points)
<1>1. /\ msg # None /\ msg.kind # "request" /\ msg' = None
      /\ UNCHANGED <<params, keys, stored>>
  BY DEF Z!Receive
<1>2. outcome'.kind = msg.kind /\ outcome'.altered = msg.altered /\ outcome'.accepted = v
  BY Zenon DEF Z!Receive
<1>3. IsCredential(msg)
  BY <1>1 DEF ZkpInv, IsRequest
<1>4. ~ msg.altered /\ msg.kind # "callLink" => v
  BY <1>3 DEF IsCredential
<1>5. msg.altered => ~ v
  BY <1>3 DEF IsCredential
<1> HIDE DEF v
<1>6. OutcomeIs(outcome', stored')
  BY <1>1, <1>2, <1>4, <1>5 DEF OutcomeIs
<1>7. keys # None /\ (stored = None \/ stored \in ProfileKeys)
  BY <1>1 DEF ZkpInv
<1> QED
  BY <1>1, <1>6, <1>7, AfterStep

\* No step breaks the invariant.
LEMMA ZkpInvNext == ZkpInv /\ [AllNext]_allVars => ZkpInv'
<1> SUFFICES ASSUME ZkpInv, [AllNext]_allVars PROVE ZkpInv'
  OBVIOUS
<1>1. CASE Z!Next
  <2>1. CASE \E p \in ProfileKeys : Z!PutProfile(p) \/ Z!Request(p)
    BY <2>1, PutStep, RequestStep
  <2> QED
    BY <1>1, <2>1, CreateStep, AuthStep, CallLinkStep, RefuseStep, ResponseStep, AlterStep,
       ReceiveStep DEF Z!Next
<1>2. CASE UNCHANGED zkpVars
  <2>1. UNCHANGED <<params, keys, stored, msg, outcome>>
    BY <1>2 DEF zkpVars
  <2>2. \A m : IsRequest(m)' <=> IsRequest(m)
    BY <2>1, ParamsStay
  <2>3. (Z!ProvedIsAccepted /\ Z!NothingElseIsAccepted)'
    BY <2>1 DEF ZkpInv, Z!ProvedIsAccepted, Z!NothingElseIsAccepted, Z!AlteredIsRefused,
                Z!OtherKeyIsRefused
  <2>4. IsParams(params.cred)' /\ IsPkc(params.pkc)' /\ (keys = None \/ KeysAre)'
    BY <2>1 DEF ZkpInv, KeysAre
  <2>5. MsgIs => MsgIs'
    BY <2>1, <2>2 DEF MsgIs
  <2> QED
    BY <2>1, <2>3, <2>4, <2>5 DEF ZkpInv, MsgIs
<1> QED
  BY <1>1, <1>2 DEF AllNext, allVars

\* lib/zkp/Statement.c, with the equations of the credentials and requests: verify()
\* accepts what prove() made, for every prime order of the group, draw and challenge.
THEOREM HonestProofs == AllSpec => []ProvedIsAccepted
<1>1. ZkpInv => ProvedIsAccepted
  BY DEF ZkpInv, ProvedIsAccepted
<1> QED
  BY <1>1, ZkpInvInit, ZkpInvNext, PTL DEF AllSpec

\* It accepts neither a proof in which a number was changed, nor, for a request, one
\* for another profile key than the one that the profile has a commitment to.
THEOREM NoOtherProofs == AllSpec => []NothingElseIsAccepted
<1>1. ZkpInv => NothingElseIsAccepted
  BY DEF ZkpInv, NothingElseIsAccepted
<1> QED
  BY <1>1, ZkpInvInit, ZkpInvNext, PTL DEF AllSpec

\* ProfileKeyCredentialResponse.c computes the credential for the profile key that it
\* has only seen encrypted.
THEOREM BlindCredential == AllSpec => []DecryptsToCredential
<1>1. ZkpInv => DecryptsToCredential
  BY DEF ZkpInv, IsRequest, Decrypts, DecryptsToCredential, Z!DecryptsToCredential
<1> QED
  BY <1>1, ZkpInvInit, ZkpInvNext, PTL DEF AllSpec

==============================================================================
