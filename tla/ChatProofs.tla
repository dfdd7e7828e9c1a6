----------------------------- MODULE ChatProofs -----------------------------
(***************************************************************************)
(* Proofs for the stores behind the chat service: first of the properties  *)
(* of Accounts, for any number of phone numbers, requests and codes; then  *)
(* of those of Registration and Profiles, for any numbers, sessions,       *)
(* versions, capabilities and requests; and at the end of what all stores  *)
(* together guarantee, with the proofs about pre-keys of KeysProofs.       *)
(***************************************************************************)
EXTENDS MCChat, FiniteSetTheorems, TLAPS

(***************************************************************************)
(* Accounts: the inductive invariant                                       *)
(***************************************************************************)

\* The devices of account id.
DevicesOf(id) == accounts[id].devices

\* The phone index leads to accounts that exist.
IndexLeads ==
  \A p \in Phone : phoneIndex[p] # NONE =>
    accounts[phoneIndex[p]] # NONE /\ accounts[phoneIndex[p]].phone = p

\* A request is in one place: it waits, or is the password of a device.
RequestsDiffer ==
  /\ requests <= MaxRequests
  /\ \A t \in registering \cup linking : t.request <= requests
  /\ \A r \in registering, l \in linking : r.request # l.request
  /\ \A l, m \in linking : l.request = m.request => l = m
  /\ \A id \in Ids : \A d \in DOMAIN DevicesOf(id) :
       /\ DevicesOf(id)[d].password <= requests
       /\ \A l \in linking : DevicesOf(id)[d].password # l.request
       /\ \A c \in DOMAIN DevicesOf(id) :
            DevicesOf(id)[c].password = DevicesOf(id)[d].password => c = d

\* So is a verification code: it can be used, waits with the new device, or was
\* used for a device.
IssuesDiffer ==
  /\ issued <= MaxCodes
  /\ \A p \in Phone : codes[p] # NONE =>
       /\ codes[p].issue <= issued /\ phoneIndex[p] # NONE
       /\ \A q \in Phone : codes[q] # NONE /\ codes[q].issue = codes[p].issue => q = p
       /\ \A l \in linking : l.issue # codes[p].issue
       /\ \A id \in Ids : \A d \in DOMAIN DevicesOf(id) :
            DevicesOf(id)[d].issue # codes[p].issue
  /\ \A l \in linking :
       /\ l.issue <= issued /\ phoneIndex[l.phone] # NONE
       /\ \A m \in linking : l.issue = m.issue => l = m
       /\ \A id \in Ids : \A d \in DOMAIN DevicesOf(id) : DevicesOf(id)[d].issue # l.issue
  /\ \A i, j \in Ids : \A c \in DOMAIN DevicesOf(i), d \in DOMAIN DevicesOf(j) :
       /\ DevicesOf(i)[c].issue <= issued
       /\ DevicesOf(i)[c].issue = DevicesOf(j)[d].issue /\ DevicesOf(i)[c].issue # 0 =>
            i = j /\ c = d

Inv ==
  /\ TypeOK
  /\ OneAccountPerNumber
  /\ IndexLeads
  /\ PniPermanent
  /\ RequestsDiffer
  /\ IssuesDiffer

(***************************************************************************)
(* Accounts and their devices                                              *)
(***************************************************************************)

\* The devices of an account are 1, 2, ..., n.
LEMMA DevicesShape ==
  ASSUME TypeOK, NEW id \in Ids
  PROVE  /\ accounts[id] \in Account
         /\ \E n \in Request : DevicesOf(id) \in [1..n -> Device]
BY DEF TypeOK, Ids, Account, DevicesOf

\* What is made of the parts of an account is one, and not nil.
LEMMA AccountMade ==
  ASSUME NEW p \in Phone, NEW i \in Uuid, NEW n \in Request, NEW f \in [1..n -> Device]
  PROVE  /\ [phone |-> p, pni |-> i, devices |-> f] \in Account
         /\ [phone |-> p, pni |-> i, devices |-> f] # NONE
<1>1. f \in UNION {[1..k -> Device] : k \in Request}
  OBVIOUS
<1>2. [phone |-> p, pni |-> i, devices |-> f] \in Account
  BY <1>1 DEF Account
<1> QED
  BY <1>2, NoneAssumption

\* Account.c nextDeviceId(): with devices 1 to n it is n + 1.
LEMMA NextDeviceIdIsNew ==
  ASSUME NEW n \in Nat, NEW f, DOMAIN f = 1..n
  PROVE  NextDeviceId(f) = n + 1
<1>1. Cardinality(DOMAIN f) = n
  BY FS_Interval
<1>2. {i \in 1..(n + 1) : i \notin DOMAIN f} \cup {n + 1} = {n + 1}
  OBVIOUS
<1>3. Min({n + 1}) = n + 1
  BY DEF Min
<1> QED
  BY <1>1, <1>2, <1>3 DEF NextDeviceId

\* There are fewer devices than requests while the request of another one waits.
LEMMA DevicesBounded ==
  ASSUME Inv, NEW l \in linking, NEW id \in Ids, NEW n \in Nat, DOMAIN DevicesOf(id) = 1..n
  PROVE  n + 1 \in Request
<1> DEFINE S == (1..MaxRequests) \ {l.request}
           f == [d \in 1..n |-> DevicesOf(id)[d].password]
<1>1. IsFiniteSet(1..MaxRequests) /\ Cardinality(1..MaxRequests) = MaxRequests
  BY BoundsAssumption, FS_Interval
<1>2. l.request \in 1..MaxRequests
  BY DEF Inv, TypeOK, Linking, Request
<1>3. IsFiniteSet(S) /\ Cardinality(S) = MaxRequests - 1
  BY <1>1, <1>2, FS_RemoveElement
<1>4. f \in [1..n -> S]
  <2> SUFFICES ASSUME NEW d \in 1..n PROVE DevicesOf(id)[d].password \in S
    OBVIOUS
  <2>1. DevicesOf(id)[d] \in Device
    BY DevicesShape DEF Inv
  <2>2. DevicesOf(id)[d].password # l.request
    BY DEF Inv, RequestsDiffer
  <2> QED
    BY <2>1, <2>2 DEF Device, Request
<1>5. \A c, d \in 1..n : f[c] = f[d] => c = d
  BY DEF Inv, RequestsDiffer
<1>6. f \in Injection(1..n, S)
  BY <1>4, <1>5 DEF Injection, IsInjective
<1>7. Cardinality(1..n) <= Cardinality(S)
  BY <1>3, <1>6, FS_Injection
<1>8. Cardinality(1..n) = n
  BY FS_Interval
<1> QED
  BY <1>3, <1>7, <1>8, BoundsAssumption DEF Request

\* ACCOUNT_SERVER->add() adds an account with one device; the others stay.
LEMMA AccountAdded ==
  ASSUME TypeOK, NEW r \in registering, PostRegistration3(r), ~ Registered(r.phone)
  PROVE  \E id \in Uuid \ Ids :
           /\ Ids' = Ids \cup {id}
           /\ accounts' \in [Uuid -> Account \cup {NONE}]
           /\ accounts'[id].phone = r.phone /\ accounts'[id].pni = r.pni
           /\ accounts'[id].devices = [d \in {1} |-> [password |-> r.request, issue |-> 0]]
           /\ \A i \in Ids : accounts'[i] = accounts[i]
           /\ phoneIndex' = [phoneIndex EXCEPT ![r.phone] = id]
           /\ registering' = (registering \ {r}) \cup
                {[request |-> r.request, phone |-> r.phone, part |-> 4, id |-> id]}
<1> DEFINE f == [d \in {1} |-> [password |-> r.request, issue |-> 0]]
           a == [phone |-> r.phone, pni |-> r.pni, devices |-> f]
<1>1. PICK id \in Uuid \ Ids :
        /\ accounts' = [accounts EXCEPT ![id] = a]
        /\ phoneIndex' = [phoneIndex EXCEPT ![r.phone] = id]
        /\ registering' = (registering \ {r}) \cup
             {[request |-> r.request, phone |-> r.phone, part |-> 4, id |-> id]}
  BY DEF PostRegistration3
<1>2. r.request \in Request /\ r.phone \in Phone /\ r.pni \in Uuid
  BY DEF PostRegistration3, TypeOK, Registering
<1>3. 1 \in Request /\ f \in [1..1 -> Device]
  <2>1. 1..1 = {1} /\ 1 \in Request
    BY <1>2, BoundsAssumption DEF Request
  <2> QED
    BY <1>2, <2>1 DEF Device
<1>4. a \in Account /\ a # NONE
  BY <1>2, <1>3, AccountMade
<1> HIDE DEF f
<1>5. a.phone = r.phone /\ a.pni = r.pni /\ a.devices = f
  OBVIOUS
<1> HIDE DEF a
<1>6. /\ accounts'[id] = a
      /\ \A i \in Uuid \ {id} : accounts'[i] = accounts[i]
      /\ accounts' \in [Uuid -> Account \cup {NONE}]
  BY <1>1, <1>4 DEF TypeOK
<1>7. Ids' = Ids \cup {id}
  BY <1>4, <1>6 DEF Ids
<1> QED
  BY <1>1, <1>5, <1>6, <1>7 DEF f, Ids

\* putDevicesCode2() adds one device to the account of the number; all others stay.
LEMMA DeviceAdded ==
  ASSUME Inv, NEW l \in linking, PutDevicesCode2(l)
  PROVE  \E id \in Ids, n \in Nat \ {0} :
           /\ id = phoneIndex[l.phone]
           /\ DOMAIN DevicesOf(id) = 1..n
           /\ accounts' \in [Uuid -> Account \cup {NONE}]
           /\ Ids' = Ids
           /\ \A i \in Ids : accounts'[i].phone = accounts[i].phone
                             /\ accounts'[i].pni = accounts[i].pni
           /\ \A i \in Ids \ {id} : accounts'[i] = accounts[i]
           /\ DOMAIN accounts'[id].devices = 1..(n + 1)
           /\ \A d \in 1..n : accounts'[id].devices[d] = DevicesOf(id)[d]
           /\ accounts'[id].devices[n + 1] = [password |-> l.request, issue |-> l.issue]
<1> DEFINE id == phoneIndex[l.phone]
           f == DevicesOf(id)
<1>1. l \in Linking /\ l.phone \in Phone /\ l.request \in Request /\ l.issue \in Issue
  BY DEF Inv, TypeOK, Linking
<1>2. id # NONE
  BY DEF Inv, IssuesDiffer
<1>3. id \in Ids /\ id \in Uuid
  BY <1>1, <1>2 DEF Inv, IndexLeads, TypeOK, Ids
<1>4. PICK n \in Request : f \in [1..n -> Device]
  BY <1>3, DevicesShape DEF Inv
<1>5. n \in Nat \ {0} /\ DOMAIN f = 1..n
  BY <1>4 DEF Request
<1>6. n + 1 \in Request
  BY <1>3, <1>5, DevicesBounded
<1>7. NextDeviceId(f) = n + 1
  BY <1>5, NextDeviceIdIsNew
<1> DEFINE g == [d \in DOMAIN f \cup {n + 1} |->
                   IF d = n + 1 THEN [password |-> l.request, issue |-> l.issue] ELSE f[d]]
           a == [accounts[id] EXCEPT !.devices = g]
<1>8. accounts' = [accounts EXCEPT ![id] = a]
  BY <1>2, <1>7 DEF PutDevicesCode2, DevicesOf
<1>9. /\ g \in [1..(n + 1) -> Device]
      /\ \A d \in 1..n : g[d] = f[d]
      /\ g[n + 1] = [password |-> l.request, issue |-> l.issue]
  <2>1. DOMAIN f \cup {n + 1} = 1..(n + 1)
    BY <1>5
  <2>2. [password |-> l.request, issue |-> l.issue] \in Device
    BY <1>1 DEF Device
  <2>3. \A d \in 1..n : d # n + 1
    BY <1>5
  <2> QED
    BY <1>4, <2>1, <2>2, <2>3
<1>10. accounts[id] \in Account
  BY <1>3, DevicesShape DEF Inv
<1> HIDE DEF g, f
<1>11. /\ a.phone = accounts[id].phone /\ a.pni = accounts[id].pni /\ a.devices = g
       /\ a = [phone |-> accounts[id].phone, pni |-> accounts[id].pni, devices |-> g]
  BY <1>10 DEF Account
<1>12. a \in Account /\ a # NONE
  BY <1>6, <1>9, <1>10, <1>11, AccountMade DEF Account
<1> HIDE DEF a
<1>13. /\ accounts'[id] = a
       /\ \A i \in Uuid \ {id} : accounts'[i] = accounts[i]
       /\ accounts' \in [Uuid -> Account \cup {NONE}]
  BY <1>3, <1>8, <1>12 DEF Inv, TypeOK
<1>14. Ids' = Ids
  BY <1>3, <1>12, <1>13 DEF Ids
<1>15. \A i \in Ids : i \in Uuid
  BY DEF Ids
<1> HIDE DEF id
<1> QED
  BY <1>3, <1>5, <1>9, <1>11, <1>13, <1>14, <1>15 DEF f, id

(***************************************************************************)
(* Every step keeps the invariant                                          *)
(***************************************************************************)

\* At the start there are no accounts, requests or codes.
LEMMA InvInit == Init => Inv
<1> SUFFICES ASSUME Init PROVE Inv
  OBVIOUS
<1>1. TypeOK
  BY DEF Init, TypeOK
<1>2. Ids = {}
  BY DEF Init, Ids
<1>3. OneAccountPerNumber /\ IndexLeads /\ PniPermanent
  BY <1>2 DEF Init, OneAccountPerNumber, IndexLeads, PniPermanent
<1>4. RequestsDiffer /\ IssuesDiffer
  BY <1>2, BoundsAssumption DEF Init, RequestsDiffer, IssuesDiffer
<1> QED
  BY <1>1, <1>3, <1>4 DEF Inv

\* As long as no account is touched, what is said of accounts alone stays true.
LEMMA AccountsKept ==
  ASSUME Inv, UNCHANGED <<accounts, phoneIndex>>
  PROVE  Ids' = Ids /\ (\A id : DevicesOf(id)' = DevicesOf(id))
         /\ OneAccountPerNumber' /\ IndexLeads'
BY DEF Inv, Ids, DevicesOf, OneAccountPerNumber, IndexLeads

\* postRegistration(): a request with a new number.
LEMMA InvPostRegistration ==
  ASSUME Inv, NEW phone \in Phone, PostRegistration(phone)
  PROVE  Inv'
<1> DEFINE new == [request |-> requests + 1, phone |-> phone, part |-> 2]
<1>1. /\ requests' = requests + 1 /\ requests + 1 \in Request
      /\ registering' = registering \cup {new}
      /\ UNCHANGED <<accounts, phoneIndex, pni, ipn, codes, linking, issued>>
  BY BoundsAssumption DEF PostRegistration, Request, Inv, TypeOK
<1>2. new \in Registering /\ new.request = requests + 1 /\ new.part = 2
  BY <1>1 DEF Registering
<1> HIDE DEF new
<1>3. TypeOK'
  BY <1>1, <1>2 DEF Inv, TypeOK, Request
<1>4. Ids' = Ids /\ (\A id : DevicesOf(id)' = DevicesOf(id))
      /\ OneAccountPerNumber' /\ IndexLeads'
  BY <1>1, AccountsKept
<1>5. PniPermanent'
  BY <1>1, <1>2, <1>4 DEF Inv, PniPermanent
<1>6. RequestsDiffer'
  <2>1. \A id \in Ids : \A d \in DOMAIN DevicesOf(id) : DevicesOf(id)[d].password \in Nat
    BY DevicesShape DEF Inv, Device, Request
  <2>2. \A t \in registering \cup linking : t.request \in Nat
    BY DEF Inv, TypeOK, Registering, Linking, Request
  <2>3. requests \in Nat /\ requests + 1 <= MaxRequests
    BY <1>1 DEF Inv, TypeOK, Request
  <2> QED
    BY <1>1, <1>2, <1>4, <2>1, <2>2, <2>3 DEF Inv, RequestsDiffer
<1>7. IssuesDiffer'
  BY <1>1, <1>4 DEF Inv, IssuesDiffer
<1> QED
  BY <1>3, <1>4, <1>5, <1>6, <1>7 DEF Inv

\* postRegistration2(): PNI_SERVER->getId() makes a new pair or returns the old.
LEMMA InvPostRegistration2 ==
  ASSUME Inv, NEW r \in registering, PostRegistration2(r)
  PROVE  Inv'
<1>1. PICK id \in Uuid :
        /\ GetId(r.phone, id)
        /\ registering' = (registering \ {r}) \cup
             {[request |-> r.request, phone |-> r.phone, part |-> 3, pni |-> id]}
  BY DEF PostRegistration2
<1> DEFINE new == [request |-> r.request, phone |-> r.phone, part |-> 3, pni |-> id]
<1>2. r.request \in Request /\ r.phone \in Phone /\ r.part = 2
  BY DEF PostRegistration2, Inv, TypeOK, Registering
<1>3. /\ new \in Registering /\ new.request = r.request /\ new.phone = r.phone
      /\ new.part = 3 /\ new.pni = id
  BY <1>2 DEF Registering
<1>4. registering' = (registering \ {r}) \cup {new}
  BY <1>1
<1> HIDE DEF new
<1>5. UNCHANGED <<accounts, phoneIndex, codes, linking, requests, issued>>
  BY DEF PostRegistration2
<1>6. pni' \in [Phone -> Uuid \cup {NONE}] /\ ipn' \in [Uuid -> Phone \cup {NONE}]
  BY <1>1, <1>2 DEF GetId, Inv, TypeOK
<1>7. TypeOK'
  BY <1>3, <1>4, <1>5, <1>6 DEF Inv, TypeOK
<1>8. Ids' = Ids /\ (\A i : DevicesOf(i)' = DevicesOf(i))
      /\ OneAccountPerNumber' /\ IndexLeads'
  BY <1>5, AccountsKept
<1>9. pni'[r.phone] = id /\ \A p \in Phone : pni[p] # NONE => pni'[p] = pni[p]
  BY <1>1, <1>2 DEF GetId, Inv, TypeOK
<1>10. PniPermanent'
  <2>1. /\ \A p \in Phone : pni'[p] # NONE => ipn'[pni'[p]] = p
        /\ \A i \in Uuid : ipn'[i] # NONE => pni'[ipn'[i]] = i
    <3>1. CASE pni[r.phone] # NONE
      BY <1>1, <3>1 DEF GetId, Inv, PniPermanent
    <3>2. CASE pni[r.phone] = NONE
      <4>1. /\ ipn[id] = NONE
            /\ ipn' = [ipn EXCEPT ![id] = r.phone]
            /\ pni' = [pni EXCEPT ![r.phone] = id]
        BY <1>1, <3>2 DEF GetId
      <4> QED
        BY <1>2, <3>2, <4>1, NoneAssumption DEF Inv, TypeOK, PniPermanent
    <3> QED
      BY <3>1, <3>2
  <2>2. \A i \in Ids : accounts[i].pni = pni'[accounts[i].phone]
    <3> SUFFICES ASSUME NEW i \in Ids PROVE accounts[i].pni = pni'[accounts[i].phone]
      OBVIOUS
    <3>1. accounts[i].pni \in Uuid /\ accounts[i].phone \in Phone
      BY DevicesShape DEF Inv, Account
    <3>2. accounts[i].pni = pni[accounts[i].phone]
      BY DEF Inv, PniPermanent
    <3> QED
      BY <1>9, <3>1, <3>2, NoneAssumption
  <2>3. \A t \in registering' : t.part = 3 => t.pni = pni'[t.phone]
    <3> SUFFICES ASSUME NEW t \in registering, t.part = 3 PROVE t.pni = pni'[t.phone]
      BY <1>3, <1>4, <1>9
    <3>1. t.pni \in Uuid /\ t.phone \in Phone
      BY DEF Inv, TypeOK, Registering
    <3>2. t.pni = pni[t.phone]
      BY DEF Inv, PniPermanent
    <3> QED
      BY <1>9, <3>1, <3>2, NoneAssumption
  <2> QED
    BY <1>5, <1>8, <2>1, <2>2, <2>3 DEF PniPermanent
<1>11. RequestsDiffer'
  BY <1>3, <1>4, <1>5, <1>8 DEF Inv, RequestsDiffer
<1>12. IssuesDiffer'
  BY <1>5, <1>8 DEF Inv, IssuesDiffer
<1> QED
  BY <1>7, <1>8, <1>10, <1>11, <1>12 DEF Inv

\* What only ends keeps the invariant: tasks that are dropped with their
\* connection or are done, codes that expire, a registration that is refused.
LEMMA InvEnded ==
  ASSUME Inv,
         registering' \subseteq registering, linking' \subseteq linking,
         codes' \in [Phone -> VerificationCode \cup {NONE}],
         \A p \in Phone : codes'[p] # NONE => codes'[p] = codes[p],
         UNCHANGED <<accounts, phoneIndex, pni, ipn, requests, issued>>
  PROVE  Inv'
<1>1. TypeOK'
  BY DEF Inv, TypeOK
<1>2. Ids' = Ids /\ (\A i : DevicesOf(i)' = DevicesOf(i))
      /\ OneAccountPerNumber' /\ IndexLeads'
  BY AccountsKept
<1>3. PniPermanent'
  BY <1>2 DEF Inv, PniPermanent
<1>4. RequestsDiffer'
  BY <1>2 DEF Inv, RequestsDiffer
<1>5. IssuesDiffer'
  BY <1>2 DEF Inv, IssuesDiffer
<1> QED
  BY <1>1, <1>2, <1>3, <1>4, <1>5 DEF Inv

\* postRegistration3(): the account is added, or refused for a registered number.
LEMMA InvPostRegistration3 ==
  ASSUME Inv, NEW r \in registering, PostRegistration3(r)
  PROVE  Inv'
<1>1. CASE Registered(r.phone)
  BY <1>1, InvEnded DEF PostRegistration3, Inv, TypeOK
<1>2. CASE ~ Registered(r.phone)
  <2>1. PICK id \in Uuid \ Ids :
           /\ Ids' = Ids \cup {id}
           /\ accounts' \in [Uuid -> Account \cup {NONE}]
           /\ accounts'[id].phone = r.phone /\ accounts'[id].pni = r.pni
           /\ accounts'[id].devices = [d \in {1} |-> [password |-> r.request, issue |-> 0]]
           /\ \A i \in Ids : accounts'[i] = accounts[i]
           /\ phoneIndex' = [phoneIndex EXCEPT ![r.phone] = id]
           /\ registering' = (registering \ {r}) \cup
                {[request |-> r.request, phone |-> r.phone, part |-> 4, id |-> id]}
    BY <1>2, AccountAdded DEF Inv
  <2> DEFINE new == [request |-> r.request, phone |-> r.phone, part |-> 4, id |-> id]
             dev == [password |-> r.request, issue |-> 0]
  <2>2. /\ r.request \in Request /\ r.phone \in Phone /\ r.part = 3
        /\ r.request <= requests /\ r.pni = pni[r.phone]
    BY DEF PostRegistration3, Inv, TypeOK, Registering, RequestsDiffer, PniPermanent
  <2>3. /\ new \in Registering /\ new.request = r.request /\ new.part = 4
        /\ dev.password = r.request /\ dev.issue = 0
    BY <2>2 DEF Registering
  <2>4. registering' = (registering \ {r}) \cup {new}
    BY <2>1
  <2>5. DOMAIN DevicesOf(id)' = {1} /\ DevicesOf(id)'[1] = dev
    BY <2>1 DEF DevicesOf
  <2> HIDE DEF new, dev
  <2>6. \A i \in Ids : DevicesOf(i)' = DevicesOf(i)
    BY <2>1 DEF DevicesOf
  <2>7. UNCHANGED <<pni, ipn, codes, linking, requests, issued>>
    BY DEF PostRegistration3
  <2>8. TypeOK'
    BY <2>1, <2>2, <2>3, <2>4, <2>7 DEF Inv, TypeOK
  <2>9. phoneIndex[r.phone] = NONE /\ id # NONE
    BY <1>2, NoneAssumption DEF Registered
  <2>10. \A p \in Phone : phoneIndex'[p] = IF p = r.phone THEN id ELSE phoneIndex[p]
    BY <2>1 DEF Inv, TypeOK
  <2>11. \A i \in Ids : i \in Uuid /\ accounts[i].phone \in Phone
                        /\ accounts[i].phone # r.phone
    <3> SUFFICES ASSUME NEW i \in Ids
                 PROVE  i \in Uuid /\ accounts[i].phone \in Phone /\ accounts[i].phone # r.phone
      OBVIOUS
    <3>1. i \in Uuid /\ accounts[i].phone \in Phone
      BY DevicesShape DEF Inv, Account, Ids
    <3> QED
      BY <2>9, <3>1, NoneAssumption DEF Inv, OneAccountPerNumber
  <2>12. OneAccountPerNumber'
    BY <2>1, <2>2, <2>10, <2>11 DEF Inv, OneAccountPerNumber
  <2>13. \A p \in Phone : phoneIndex[p] # NONE => phoneIndex[p] \in Ids
    BY DEF Inv, IndexLeads, TypeOK, Ids
  <2>14. \A i \in Ids' : accounts'[i] # NONE
    BY DEF Ids
  <2>15. IndexLeads'
    BY <2>1, <2>9, <2>10, <2>13, <2>14 DEF Inv, IndexLeads
  <2>16. PniPermanent'
    BY <2>1, <2>2, <2>3, <2>4, <2>7 DEF Inv, PniPermanent
  <2>17. RequestsDiffer'
    <3>1. \A l \in linking : l.request # r.request
      BY DEF Inv, RequestsDiffer
    <3>2. \A t \in registering' \cup linking' : t.request <= requests
      BY <2>2, <2>3, <2>4, <2>7 DEF Inv, RequestsDiffer
    <3>3. \A t \in registering', l \in linking' : t.request # l.request
      BY <2>3, <2>4, <2>7, <3>1 DEF Inv, RequestsDiffer
    <3>4. ASSUME NEW i \in Ids', NEW d \in DOMAIN DevicesOf(i)'
          PROVE  /\ DevicesOf(i)'[d].password <= requests'
                 /\ \A l \in linking' : DevicesOf(i)'[d].password # l.request
                 /\ \A c \in DOMAIN DevicesOf(i)' :
                      DevicesOf(i)'[c].password = DevicesOf(i)'[d].password => c = d
      <4>1. CASE i = id
        BY <2>2, <2>3, <2>5, <2>7, <3>1, <4>1
      <4>2. CASE i \in Ids
        BY <2>6, <2>7, <4>2 DEF Inv, RequestsDiffer
      <4> QED
        BY <2>1, <4>1, <4>2
    <3> QED
      BY <2>7, <3>2, <3>3, <3>4 DEF Inv, RequestsDiffer
  <2>18. IssuesDiffer'
    <3>1. \A i \in Issue : i # 0
      BY DEF Issue
    <3>2. \A p \in Phone : codes[p] # NONE => codes[p].issue \in Issue
      BY DEF Inv, TypeOK, VerificationCode
    <3>3. \A l \in linking : l.issue \in Issue /\ l.phone \in Phone
      BY DEF Inv, TypeOK, Linking
    <3>4. ASSUME NEW i \in Ids', NEW d \in DOMAIN DevicesOf(i)'
          PROVE  \/ i \in Ids /\ d \in DOMAIN DevicesOf(i) /\ DevicesOf(i)'[d] = DevicesOf(i)[d]
                 \/ i = id /\ d = 1 /\ DevicesOf(i)'[d].issue = 0
      BY <2>1, <2>3, <2>5, <2>6
    <3>5. \A p \in Phone : phoneIndex[p] # NONE => phoneIndex'[p] # NONE
      BY <2>9, <2>10
    <3>6. \A p \in Phone : codes'[p] # NONE =>
            /\ codes'[p].issue <= issued' /\ phoneIndex'[p] # NONE
            /\ \A q \in Phone : codes'[q] # NONE /\ codes'[q].issue = codes'[p].issue => q = p
            /\ \A l \in linking' : l.issue # codes'[p].issue
            /\ \A i \in Ids' : \A d \in DOMAIN DevicesOf(i)' :
                 DevicesOf(i)'[d].issue # codes'[p].issue
      BY <2>7, <3>1, <3>2, <3>4, <3>5 DEF Inv, IssuesDiffer
    <3>7. \A l \in linking' :
            /\ l.issue <= issued' /\ phoneIndex'[l.phone] # NONE
            /\ \A m \in linking' : l.issue = m.issue => l = m
            /\ \A i \in Ids' : \A d \in DOMAIN DevicesOf(i)' : DevicesOf(i)'[d].issue # l.issue
      BY <2>7, <3>1, <3>3, <3>4, <3>5 DEF Inv, IssuesDiffer
    <3>8. \A i, j \in Ids' : \A c \in DOMAIN DevicesOf(i)', d \in DOMAIN DevicesOf(j)' :
            /\ DevicesOf(i)'[c].issue <= issued'
            /\ DevicesOf(i)'[c].issue = DevicesOf(j)'[d].issue /\ DevicesOf(i)'[c].issue # 0 =>
                 i = j /\ c = d
      <4>1. issued \in Nat
        BY DEF Inv, TypeOK
      <4> QED
        BY <2>7, <3>4, <4>1 DEF Inv, IssuesDiffer
    <3> QED
      BY <2>7, <3>6, <3>7, <3>8 DEF Inv, IssuesDiffer
  <2> QED
    BY <2>8, <2>12, <2>15, <2>16, <2>17, <2>18 DEF Inv
<1> QED
  BY <1>1, <1>2

\* getDevicesProvisioningCode(): a new issue, for the number of an account.
LEMMA InvGetDevicesProvisioningCode ==
  ASSUME Inv, NEW id \in Uuid, NEW code \in Code, GetDevicesProvisioningCode(id, code)
  PROVE  Inv'
<1> DEFINE phone == accounts[id].phone
           new == [code |-> code, issue |-> issued + 1]
<1>1. id \in Ids /\ phone \in Phone /\ phoneIndex[phone] = id /\ id # NONE
  BY DevicesShape, NoneAssumption
     DEF GetDevicesProvisioningCode, Inv, OneAccountPerNumber, Account
<1>2. issued \in Nat /\ issued' = issued + 1 /\ issued + 1 \in Issue
  BY BoundsAssumption DEF GetDevicesProvisioningCode, Inv, TypeOK, Issue
<1>3. codes' = [codes EXCEPT ![phone] = new]
  BY DEF GetDevicesProvisioningCode
<1>4. new \in VerificationCode /\ new.issue = issued + 1
  BY <1>2 DEF VerificationCode
<1> HIDE DEF new, phone
<1>5. UNCHANGED <<accounts, phoneIndex, pni, ipn, registering, linking, requests>>
  BY DEF GetDevicesProvisioningCode
<1>6. TypeOK'
  BY <1>1, <1>2, <1>3, <1>4, <1>5 DEF Inv, TypeOK
<1>7. Ids' = Ids /\ (\A i : DevicesOf(i)' = DevicesOf(i))
      /\ OneAccountPerNumber' /\ IndexLeads'
  BY <1>5, AccountsKept
<1>8. PniPermanent' /\ RequestsDiffer'
  BY <1>5, <1>7 DEF Inv, PniPermanent, RequestsDiffer
<1>9. IssuesDiffer'
  <2>1. \A p \in Phone : codes'[p] = IF p = phone THEN new ELSE codes[p]
    BY <1>1, <1>3 DEF Inv, TypeOK
  <2>2. \A l \in linking : l.issue \in Nat /\ l.issue <= issued
    BY DEF Inv, TypeOK, Linking, Issue, IssuesDiffer
  <2>3. \A p \in Phone : codes[p] # NONE => codes[p].issue \in Nat /\ codes[p].issue <= issued
    BY DEF Inv, TypeOK, VerificationCode, Issue, IssuesDiffer
  <2>4. \A i \in Ids : \A d \in DOMAIN DevicesOf(i) :
          DevicesOf(i)[d].issue \in Nat /\ DevicesOf(i)[d].issue <= issued
    <3>1. \A i \in Ids : \A d \in DOMAIN DevicesOf(i) : DevicesOf(i)[d] \in Device
      BY DevicesShape DEF Inv
    <3> QED
      BY <3>1 DEF Inv, IssuesDiffer, Device, Issue
  <2>5. issued' <= MaxCodes
    BY <1>2 DEF Issue
  <2>6. \A p \in Phone : codes'[p] # NONE =>
          /\ codes'[p].issue <= issued' /\ phoneIndex[p] # NONE
          /\ \A q \in Phone : codes'[q] # NONE /\ codes'[q].issue = codes'[p].issue => q = p
          /\ \A l \in linking : l.issue # codes'[p].issue
          /\ \A i \in Ids : \A d \in DOMAIN DevicesOf(i) :
               DevicesOf(i)[d].issue # codes'[p].issue
    BY <1>1, <1>2, <1>4, <2>1, <2>2, <2>3, <2>4 DEF Inv, IssuesDiffer
  <2>7. \A l \in linking :
          /\ l.issue <= issued' /\ phoneIndex[l.phone] # NONE
          /\ \A m \in linking : l.issue = m.issue => l = m
          /\ \A i \in Ids : \A d \in DOMAIN DevicesOf(i) : DevicesOf(i)[d].issue # l.issue
    BY <1>2, <2>2 DEF Inv, IssuesDiffer
  <2>8. \A i, j \in Ids : \A c \in DOMAIN DevicesOf(i), d \in DOMAIN DevicesOf(j) :
          /\ DevicesOf(i)[c].issue <= issued'
          /\ DevicesOf(i)[c].issue = DevicesOf(j)[d].issue /\ DevicesOf(i)[c].issue # 0 =>
               i = j /\ c = d
    BY <1>2, <2>4 DEF Inv, IssuesDiffer
  <2> QED
    BY <1>5, <1>7, <2>5, <2>6, <2>7, <2>8 DEF IssuesDiffer
<1> QED
  BY <1>6, <1>7, <1>8, <1>9 DEF Inv

\* putDevicesCode(): the code is removed and its issue goes to a new request.
LEMMA InvPutDevicesCode ==
  ASSUME Inv, NEW phone \in Phone, NEW code \in Code, PutDevicesCode(phone, code)
  PROVE  Inv'
<1> DEFINE new == [request |-> requests + 1, phone |-> phone, issue |-> codes[phone].issue]
<1>1. /\ codes[phone] # NONE
      /\ requests' = requests + 1 /\ requests + 1 \in Request
      /\ codes' = [codes EXCEPT ![phone] = NONE]
      /\ linking' = linking \cup {new}
      /\ UNCHANGED <<accounts, phoneIndex, pni, ipn, registering, issued>>
  BY BoundsAssumption
     DEF PutDevicesCode, RemoveVerificationCode, Request, Inv, TypeOK
<1>2. codes[phone].issue \in Issue
  BY <1>1 DEF Inv, TypeOK, VerificationCode
<1>3. /\ new \in Linking /\ new.request = requests + 1 /\ new.phone = phone
      /\ new.issue = codes[phone].issue
  BY <1>1, <1>2 DEF Linking
<1> HIDE DEF new
<1>4. TypeOK'
  BY <1>1, <1>3 DEF Inv, TypeOK, Request
<1>5. Ids' = Ids /\ (\A i : DevicesOf(i)' = DevicesOf(i))
      /\ OneAccountPerNumber' /\ IndexLeads'
  BY <1>1, AccountsKept
<1>6. PniPermanent'
  BY <1>1, <1>5 DEF Inv, PniPermanent
<1>7. RequestsDiffer'
  <2>1. \A id \in Ids : \A d \in DOMAIN DevicesOf(id) : DevicesOf(id)[d].password \in Nat
    BY DevicesShape DEF Inv, Device, Request
  <2>2. \A t \in registering \cup linking : t.request \in Nat
    BY DEF Inv, TypeOK, Registering, Linking, Request
  <2>3. requests \in Nat /\ requests + 1 <= MaxRequests
    BY <1>1 DEF Inv, TypeOK, Request
  <2> QED
    BY <1>1, <1>3, <1>5, <2>1, <2>2, <2>3 DEF Inv, RequestsDiffer
<1>8. IssuesDiffer'
  <2>1. \A p \in Phone : codes'[p] # NONE => p # phone /\ codes'[p] = codes[p]
    BY <1>1 DEF Inv, TypeOK
  <2>2. \A p \in Phone : codes'[p] # NONE =>
          /\ codes'[p].issue <= issued /\ phoneIndex[p] # NONE
          /\ \A q \in Phone : codes'[q] # NONE /\ codes'[q].issue = codes'[p].issue => q = p
          /\ \A l \in linking' : l.issue # codes'[p].issue
          /\ \A i \in Ids : \A d \in DOMAIN DevicesOf(i) :
               DevicesOf(i)[d].issue # codes'[p].issue
    BY <1>1, <1>3, <2>1 DEF Inv, IssuesDiffer
  <2>3. \A l \in linking' :
          /\ l.issue <= issued /\ phoneIndex[l.phone] # NONE
          /\ \A m \in linking' : l.issue = m.issue => l = m
          /\ \A i \in Ids : \A d \in DOMAIN DevicesOf(i) : DevicesOf(i)[d].issue # l.issue
    BY <1>1, <1>3 DEF Inv, IssuesDiffer
  <2> QED
    BY <1>1, <1>5, <2>2, <2>3 DEF Inv, IssuesDiffer
<1> QED
  BY <1>4, <1>5, <1>6, <1>7, <1>8 DEF Inv

\* putDevicesCode2(): the request becomes the next device of its account.
LEMMA InvPutDevicesCode2 ==
  ASSUME Inv, NEW l \in linking, PutDevicesCode2(l)
  PROVE  Inv'
<1>1. PICK id \in Ids, n \in Nat \ {0} :
        /\ id = phoneIndex[l.phone]
        /\ DOMAIN DevicesOf(id) = 1..n
        /\ accounts' \in [Uuid -> Account \cup {NONE}]
        /\ Ids' = Ids
        /\ \A i \in Ids : accounts'[i].phone = accounts[i].phone
                          /\ accounts'[i].pni = accounts[i].pni
        /\ \A i \in Ids \ {id} : accounts'[i] = accounts[i]
        /\ DOMAIN accounts'[id].devices = 1..(n + 1)
        /\ \A d \in 1..n : accounts'[id].devices[d] = DevicesOf(id)[d]
        /\ accounts'[id].devices[n + 1] = [password |-> l.request, issue |-> l.issue]
  BY DeviceAdded
<1> DEFINE dev == [password |-> l.request, issue |-> l.issue]
<1>2. dev.password = l.request /\ dev.issue = l.issue
  OBVIOUS
<1>3. DevicesOf(id)'[n + 1] = dev
  BY <1>1 DEF DevicesOf
<1> HIDE DEF dev
<1>4. linking' = linking \ {l} /\ UNCHANGED <<phoneIndex, pni, ipn, codes, registering, requests, issued>>
  BY DEF PutDevicesCode2
<1>5. TypeOK'
  BY <1>1, <1>4 DEF Inv, TypeOK
<1>6. OneAccountPerNumber'
  BY <1>1, <1>4 DEF Inv, OneAccountPerNumber
<1>7. IndexLeads'
  <2>1. \A p \in Phone : phoneIndex[p] # NONE => phoneIndex[p] \in Ids
    BY DEF Inv, IndexLeads, TypeOK, Ids
  <2>2. \A i \in Ids' : accounts'[i] # NONE
    BY DEF Ids
  <2> QED
    BY <1>1, <1>4, <2>1, <2>2 DEF Inv, IndexLeads
<1>8. PniPermanent'
  BY <1>1, <1>4 DEF Inv, PniPermanent
\* A device is an old one, or the new one.
<1>9. ASSUME NEW i \in Ids, NEW d \in DOMAIN DevicesOf(i)'
      PROVE  \/ d \in DOMAIN DevicesOf(i) /\ DevicesOf(i)'[d] = DevicesOf(i)[d]
             \/ i = id /\ d = n + 1 /\ DevicesOf(i)'[d] = dev
  <2>1. CASE i # id
    BY <1>1, <2>1 DEF DevicesOf
  <2>2. CASE i = id
    <3>1. d \in 1..n \/ d = n + 1
      BY <1>1, <2>2 DEF DevicesOf
    <3> QED
      BY <1>1, <1>3, <2>2, <3>1 DEF DevicesOf
  <2> QED
    BY <2>1, <2>2
<1>10. RequestsDiffer'
  <2>1. l.request <= requests /\ \A m \in linking' : m.request # l.request
    BY <1>4 DEF Inv, RequestsDiffer
  <2>2. ASSUME NEW i \in Ids, NEW d \in DOMAIN DevicesOf(i)'
        PROVE  /\ DevicesOf(i)'[d].password <= requests
               /\ \A m \in linking' : DevicesOf(i)'[d].password # m.request
               /\ \A c \in DOMAIN DevicesOf(i)' :
                    DevicesOf(i)'[c].password = DevicesOf(i)'[d].password => c = d
    BY <1>2, <1>4, <1>9, <2>1 DEF Inv, RequestsDiffer
  <2> QED
    BY <1>1, <1>4, <2>2 DEF Inv, RequestsDiffer
<1>11. IssuesDiffer'
  <2>1. \A p \in Phone : codes[p] # NONE =>
          \A i \in Ids : \A d \in DOMAIN DevicesOf(i)' : DevicesOf(i)'[d].issue # codes[p].issue
    BY <1>2, <1>9 DEF Inv, IssuesDiffer
  <2>2. \A m \in linking' :
          \A i \in Ids : \A d \in DOMAIN DevicesOf(i)' : DevicesOf(i)'[d].issue # m.issue
    BY <1>2, <1>4, <1>9 DEF Inv, IssuesDiffer
  <2>3. \A i, j \in Ids : \A c \in DOMAIN DevicesOf(i)', d \in DOMAIN DevicesOf(j)' :
          /\ DevicesOf(i)'[c].issue <= issued
          /\ DevicesOf(i)'[c].issue = DevicesOf(j)'[d].issue /\ DevicesOf(i)'[c].issue # 0 =>
               i = j /\ c = d
    BY <1>2, <1>9 DEF Inv, IssuesDiffer
  <2> QED
    BY <1>1, <1>4, <2>1, <2>2, <2>3 DEF Inv, IssuesDiffer
<1> QED
  BY <1>5, <1>6, <1>7, <1>8, <1>10, <1>11 DEF Inv

\* Inv is inductive.
LEMMA InvStep == Inv /\ [Next]_vars => Inv'
<1> SUFFICES ASSUME Inv, [Next]_vars PROVE Inv'
  OBVIOUS
<1>1. ASSUME NEW phone \in Phone, PostRegistration(phone) PROVE Inv'
  BY <1>1, InvPostRegistration
<1>2. ASSUME NEW phone \in Phone, Expire(phone) PROVE Inv'
  BY <1>2, InvEnded DEF Expire, Inv, TypeOK
<1>3. ASSUME NEW phone \in Phone, NEW code \in Code, PutDevicesCode(phone, code) PROVE Inv'
  BY <1>3, InvPutDevicesCode
<1>4. ASSUME NEW id \in Uuid, NEW code \in Code, GetDevicesProvisioningCode(id, code)
      PROVE  Inv'
  BY <1>4, InvGetDevicesProvisioningCode
<1>5. ASSUME NEW r \in registering, PostRegistration2(r) PROVE Inv'
  BY <1>5, InvPostRegistration2
<1>6. ASSUME NEW r \in registering, PostRegistration3(r) PROVE Inv'
  BY <1>6, InvPostRegistration3
<1>7. ASSUME NEW r \in registering, PostRegistration4(r) PROVE Inv'
  BY <1>7, InvEnded DEF PostRegistration4, Inv, TypeOK
<1>8. ASSUME NEW l \in linking, PutDevicesCode2(l) PROVE Inv'
  BY <1>8, InvPutDevicesCode2
<1>9. ASSUME NEW t \in registering \cup linking, Disconnected(t) PROVE Inv'
  BY <1>9, InvEnded DEF Disconnected, Inv, TypeOK
<1>10. CASE UNCHANGED vars
  BY <1>10, InvEnded DEF vars, Inv, TypeOK
<1> QED
  BY <1>1, <1>2, <1>3, <1>4, <1>5, <1>6, <1>7, <1>8, <1>9, <1>10 DEF Next

\* Inv holds in every reachable state.
LEMMA InvAlways == Spec => []Inv
BY InvInit, InvStep, PTL DEF Spec

(***************************************************************************)
(* The theorems                                                            *)
(***************************************************************************)

\* Type correctness; with it, device ids never leave a gap (nextDeviceId()).
THEOREM TypeCorrect == Spec => []TypeOK
<1>1. Inv => TypeOK
  BY DEF Inv
<1> QED
  BY <1>1, InvAlways, PTL

\* However registrations of the same number interleave, ACCOUNT_SERVER->add()
\* leaves one account per phone number, and the phone index leads to it.
THEOREM OneAccount == Spec => []OneAccountPerNumber
<1>1. Inv => OneAccountPerNumber
  BY DEF Inv
<1> QED
  BY <1>1, InvAlways, PTL

\* PNI_SERVER->getId() gives a number one identity for good, and accounts and
\* account objects that wait in postRegistration3() have that identity.
THEOREM IdentityPermanent == Spec => []PniPermanent
<1>1. Inv => PniPermanent
  BY DEF Inv
<1> QED
  BY <1>1, InvAlways, PTL

\* A verification code links at most one device, even when requests with it wait
\* between putDevicesCode() and putDevicesCode2().
THEOREM CodeUsedOnce == Spec => []CodeIsUsedOnce
<1>1. Inv => CodeIsUsedOnce
  <2> SUFFICES ASSUME Inv PROVE CodeIsUsedOnce
    OBVIOUS
  <2> DEFINE linked == {x \in Ids \X Request : x[2] \in DOMAIN accounts[x[1]].devices}
             issue(x) == accounts[x[1]].devices[x[2]].issue
  <2>1. \A x \in linked : /\ x[1] \in Ids /\ x[2] \in DOMAIN DevicesOf(x[1])
                          /\ issue(x) = DevicesOf(x[1])[x[2]].issue
                          /\ x = <<x[1], x[2]>>
    BY DEF DevicesOf
  <2>2. \A x, y \in linked : issue(x) = issue(y) /\ issue(x) # 0 => x = y
    <3> HIDE DEF linked, issue
    <3> SUFFICES ASSUME NEW x \in linked, NEW y \in linked,
                        issue(x) = issue(y), issue(x) # 0
                 PROVE  x = y
      OBVIOUS
    <3>1. x[1] = y[1] /\ x[2] = y[2]
      BY <2>1 DEF Inv, IssuesDiffer
    <3> QED
      BY <2>1, <3>1
  <2>3. \A l, m \in linking : l.issue = m.issue => l = m
    BY DEF Inv, IssuesDiffer
  <2>4. \A l \in linking : \A x \in linked : issue(x) # l.issue
    <3> HIDE DEF linked, issue
    <3> QED
      BY <2>1 DEF Inv, IssuesDiffer
  <2>5. \A l \in linking : phoneIndex[l.phone] # NONE
    BY DEF Inv, IssuesDiffer
  <2> QED
    BY <2>2, <2>3, <2>4, <2>5 DEF CodeIsUsedOnce
<1> QED
  BY <1>1, InvAlways, PTL

\* No step takes a device away or gives its id or its password to another: what
\* nextDeviceId() returns is free, and ACCOUNT_SERVER->add() replaces no account.
THEOREM DevicesStay == Spec => DevicesKept
<1> DEFINE Kept == \A id \in Ids :
                     /\ accounts'[id] # NONE
                     /\ \A d \in DOMAIN accounts[id].devices :
                          /\ d \in DOMAIN accounts'[id].devices
                          /\ accounts'[id].devices[d] = accounts[id].devices[d]
<1>1. Inv /\ [Next]_vars => [Kept]_vars
  <2> SUFFICES ASSUME Inv, Next PROVE Kept
    OBVIOUS
  <2>1. CASE UNCHANGED accounts
    BY <2>1 DEF Ids
  <2>2. ASSUME NEW r \in registering, PostRegistration3(r) PROVE Kept
    <3>1. CASE Registered(r.phone)
      BY <2>1, <2>2, <3>1 DEF PostRegistration3
    <3>2. CASE ~ Registered(r.phone)
      <4>1. \A i \in Ids : accounts'[i] = accounts[i]
        BY <2>2, <3>2, AccountAdded DEF Inv
      <4> QED
        BY <4>1 DEF Ids
    <3> QED
      BY <3>1, <3>2
  <2>3. ASSUME NEW l \in linking, PutDevicesCode2(l) PROVE Kept
    <3>1. PICK id \in Ids, n \in Nat \ {0} :
            /\ id = phoneIndex[l.phone]
            /\ DOMAIN DevicesOf(id) = 1..n
            /\ accounts' \in [Uuid -> Account \cup {NONE}]
            /\ Ids' = Ids
            /\ \A i \in Ids : accounts'[i].phone = accounts[i].phone
                              /\ accounts'[i].pni = accounts[i].pni
            /\ \A i \in Ids \ {id} : accounts'[i] = accounts[i]
            /\ DOMAIN accounts'[id].devices = 1..(n + 1)
            /\ \A d \in 1..n : accounts'[id].devices[d] = DevicesOf(id)[d]
            /\ accounts'[id].devices[n + 1] = [password |-> l.request, issue |-> l.issue]
      BY <2>3, DeviceAdded
    <3>2. \A i \in Ids : accounts'[i] # NONE
      BY <3>1 DEF Ids
    <3>3. \A d \in 1..n : d \in 1..(n + 1)
      OBVIOUS
    <3> QED
      BY <3>1, <3>2, <3>3 DEF DevicesOf
  <2> QED
    BY <2>1, <2>2, <2>3 DEF Next, PostRegistration, Expire, PutDevicesCode,
         GetDevicesProvisioningCode, PostRegistration2, PostRegistration4, Disconnected
<1>2. [][Kept]_vars => DevicesKept
  BY PTL DEF DevicesKept
<1> QED
  BY <1>1, <1>2, InvAlways, PTL DEF Spec

(***************************************************************************)
(* Verification sessions                                                   *)
(***************************************************************************)

\* A challenge that a session expects, or is about to be told of, was pushed to
\* a client: fcmChallengeSent() runs after the relay has pushed it.
ChallengesPushed ==
  /\ \A s \in Uuid : sessions[s] # NONE /\ sessions[s].challenge # NONE =>
       \E c \in pushed : c.id = R!Format(s) /\ c.challenge = sessions[s].challenge
  /\ \A t \in sent : t.code = "OK" =>
       \E c \in pushed : c.id = t.id /\ c.challenge = t.challenge

SessionsInv ==
  /\ R!TypeOK
  /\ sessionRequests <= MaxSessions
  /\ R!OneSessionPerNumber
  /\ ChallengesPushed
  /\ R!AcceptedAfterPush

(***************************************************************************)
(* Verification sessions: operators                                        *)
(***************************************************************************)

\* hex::decodeString() is the inverse of hex::format(), and a session id in
\* hexadecimal leads to one session.
LEMMA HexIds ==
  /\ \A s : R!DecodeString(R!Format(s)) = s
  /\ \A s, t : R!Format(s) = R!Format(t) => s = t
  /\ \A h \in R!HexId : R!DecodeString(h) \in Uuid /\ R!Format(R!DecodeString(h)) = h
BY DEF R!DecodeString, R!Format, R!HexId

\* getSession() of an id in hexadecimal looks at that session.
LEMMA GetSessionOf ==
  ASSUME NEW h \in R!HexId
  PROVE  R!GetSession(h) = sessions[R!DecodeString(h)]
BY HexIds DEF R!GetSession, R!Lookup

\* A session, and what nil is not.
LEMMA SessionFields ==
  ASSUME R!ConstantsOK, R!TypeOK, NEW s \in Uuid, sessions[s] # NONE
  PROVE  /\ sessions[s] \in R!Session
         /\ sessions[s].phone \in Phone
         /\ sessions[s].challenge \in R!Challenge \cup {NONE}
BY DEF R!TypeOK, R!Session

(***************************************************************************)
(* Verification sessions: steps that change one session                    *)
(***************************************************************************)

\* The handlers that assign to the fields of an existing session: the session
\* keeps its phone number, and the stores their types.
LEMMA ChangeSession ==
  ASSUME R!ConstantsOK, SessionsInv, NEW r \in Uuid, NEW new \in R!Session, sessions[r] # NONE,
         sessions' = [sessions EXCEPT ![r] = new],
         new.phone = sessions[r].phone,
         new.challenge = NONE \/ \E c \in pushed' : c.id = R!Format(r) /\ c.challenge = new.challenge,
         new.acceptCode => \E c \in pushed' : c.id = R!Format(r),
         sessionIndex' = sessionIndex, sending' = sending, sent' \subseteq sent,
         sessionRequests' = sessionRequests, pushed' = pushed
  PROVE  SessionsInv'
<1>1. R!TypeOK'
  BY DEF SessionsInv, R!TypeOK
<1>2. /\ sessions'[r] = new /\ \A s \in Uuid : s # r => sessions'[s] = sessions[s]
      /\ new # NONE
  BY DEF SessionsInv, R!TypeOK, R!ConstantsOK
<1>3. R!OneSessionPerNumber'
  BY <1>2 DEF SessionsInv, R!OneSessionPerNumber
<1>4. ChallengesPushed'
  BY <1>2 DEF SessionsInv, ChallengesPushed
<1>5. R!AcceptedAfterPush'
  BY <1>2 DEF SessionsInv, R!AcceptedAfterPush
<1> QED
  BY <1>1, <1>3, <1>4, <1>5 DEF SessionsInv

\* fcmChallengeSent(): the challenge is one that was pushed.
LEMMA FcmChallengeSentInv ==
  ASSUME R!ConstantsOK, SessionsInv, NEW t \in sent, R!FcmChallengeSent(t)
  PROVE  SessionsInv'
<1> DEFINE r == R!DecodeString(t.id)
<1>1. t.id \in R!HexId /\ t.challenge \in R!Challenge /\ r \in Uuid /\ R!Format(r) = t.id
  BY HexIds DEF SessionsInv, R!TypeOK
<1>2. R!GetSession(t.id) = sessions[r]
  BY <1>1, GetSessionOf
<1>3. CASE t.code = "OK" /\ sessions[r] # NONE
  <2> DEFINE new == [sessions[r] EXCEPT !.challenge = t.challenge]
  <2>1. sessions' = [sessions EXCEPT ![r] = new]
    BY <1>2, <1>3 DEF R!FcmChallengeSent
  <2>2. sessions[r] \in R!Session
    BY <1>1, <1>3, SessionFields DEF SessionsInv
  <2>3. /\ new \in R!Session /\ new.phone = sessions[r].phone /\ new.challenge = t.challenge
        /\ new.acceptCode = sessions[r].acceptCode
    BY <1>1, <2>2 DEF R!Session
  <2>4. UNCHANGED <<sessionIndex, sending, sessionRequests, pushed>> /\ sent' \subseteq sent
    BY DEF R!FcmChallengeSent
  <2>5. \E c \in pushed' : c.id = R!Format(r) /\ c.challenge = new.challenge
    BY <1>1, <1>3, <2>3, <2>4 DEF SessionsInv, ChallengesPushed
  <2> HIDE DEF new
  <2> QED
    BY <1>1, <1>3, <2>1, <2>3, <2>4, <2>5, ChangeSession
<1>4. CASE ~(t.code = "OK" /\ sessions[r] # NONE)
  <2>1. UNCHANGED <<sessions, sessionIndex, sending, sessionRequests, pushed>> /\ sent' \subseteq sent
    BY <1>2, <1>4 DEF R!FcmChallengeSent
  <2> QED
    BY <2>1 DEF SessionsInv, R!TypeOK, R!OneSessionPerNumber, ChallengesPushed, R!AcceptedAfterPush
<1> QED
  BY <1>3, <1>4

\* patchVerificationSession(): the challenge that matches was pushed for this
\* session, so the code may be asked for.
LEMMA PatchVerificationSessionInv ==
  ASSUME R!ConstantsOK, SessionsInv, NEW id \in R!HexId, NEW ch, R!PatchVerificationSession(id, ch)
  PROVE  SessionsInv'
<1> DEFINE r == R!DecodeString(id)
           new == [sessions[r] EXCEPT !.challenge = NONE, !.acceptCode = TRUE]
<1>1. r \in Uuid /\ R!Format(r) = id /\ R!GetSession(id) = sessions[r]
  BY HexIds, GetSessionOf
<1>2. /\ sessions[r] # NONE /\ ch # NONE /\ ch = sessions[r].challenge
      /\ sessions' = [sessions EXCEPT ![r] = new]
      /\ UNCHANGED <<sessionIndex, sending, sent, sessionRequests, pushed>>
  BY <1>1 DEF R!PatchVerificationSession, R!Matches
<1>3. sessions[r] \in R!Session
  BY <1>1, <1>2, SessionFields DEF SessionsInv
<1>4. new \in R!Session /\ new.phone = sessions[r].phone /\ new.challenge = NONE
  BY <1>3 DEF R!Session
<1>5. \E c \in pushed' : c.id = R!Format(r)
  BY <1>1, <1>2 DEF SessionsInv, ChallengesPushed
<1> HIDE DEF new, r
<1> QED
  BY <1>1, <1>2, <1>4, <1>5, ChangeSession

\* postVerificationSessionCode() and putVerificationSessionCode() let no further
\* code be asked for.
LEMMA SessionCodeInv ==
  ASSUME R!ConstantsOK, SessionsInv, NEW id \in R!HexId,
         R!PostVerificationSessionCode(id) \/ R!PutVerificationSessionCode(id)
  PROVE  SessionsInv'
<1> DEFINE r == R!DecodeString(id)
<1>1. r \in Uuid /\ R!Format(r) = id /\ R!GetSession(id) = sessions[r]
  BY HexIds, GetSessionOf
<1>2. sessions[r] # NONE /\ UNCHANGED <<sessionIndex, sending, sent, sessionRequests, pushed>>
  BY <1>1 DEF R!PostVerificationSessionCode, R!PutVerificationSessionCode
<1>3. sessions[r] \in R!Session
  BY <1>1, <1>2, SessionFields DEF SessionsInv
<1>4. sessions[r].challenge = NONE \/
      \E c \in pushed' : c.id = R!Format(r) /\ c.challenge = sessions[r].challenge
  BY <1>1, <1>2 DEF SessionsInv, ChallengesPushed
<1>5. sessions[r].acceptCode => \E c \in pushed' : c.id = R!Format(r)
  BY <1>1, <1>2 DEF SessionsInv, R!AcceptedAfterPush
<1>6. CASE R!PostVerificationSessionCode(id)
  <2> DEFINE new == [sessions[r] EXCEPT !.nextCode = TRUE]
  <2>1. sessions' = [sessions EXCEPT ![r] = new]
    BY <1>6 DEF R!PostVerificationSessionCode
  <2>2. /\ new \in R!Session /\ new.phone = sessions[r].phone
        /\ new.challenge = sessions[r].challenge /\ new.acceptCode = sessions[r].acceptCode
    BY <1>3 DEF R!Session
  <2> HIDE DEF new, r
  <2> QED
    BY <1>1, <1>2, <1>4, <1>5, <2>1, <2>2, ChangeSession
<1>7. CASE R!PutVerificationSessionCode(id)
  <2> DEFINE new == [sessions[r] EXCEPT !.acceptCode = FALSE, !.nextCode = FALSE, !.verified = TRUE]
  <2>1. sessions' = [sessions EXCEPT ![r] = new]
    BY <1>7 DEF R!PutVerificationSessionCode
  <2>2. /\ new \in R!Session /\ new.phone = sessions[r].phone
        /\ new.challenge = sessions[r].challenge /\ new.acceptCode = FALSE
    BY <1>3 DEF R!Session
  <2> HIDE DEF new, r
  <2> QED
    BY <1>1, <1>2, <1>4, <2>1, <2>2, ChangeSession
<1> QED
  BY <1>6, <1>7

(***************************************************************************)
(* Verification sessions: steps that make and remove sessions              *)
(***************************************************************************)

\* A request for a session: a new one is made only for a number whose index is
\* empty, so the number had none.
LEMMA PostVerificationNewSessionInv ==
  ASSUME R!ConstantsOK, SessionsInv, NEW p \in Phone, NEW token \in BOOLEAN,
         R!PostVerificationNewSession(p, token)
  PROVE  SessionsInv'
<1>1. /\ sessionRequests' = sessionRequests + 1 /\ sessionRequests < MaxSessions /\ UNCHANGED <<sent, pushed>>
      /\ sessionRequests \in Nat /\ MaxSessions \in Nat
  BY DEF R!PostVerificationNewSession, SessionsInv, R!TypeOK, R!ConstantsOK
<1>2. sessionRequests + 1 \in R!Challenge /\ sessionRequests' \in Nat /\ sessionRequests' <= MaxSessions
  BY <1>1 DEF R!Challenge
<1>3. CASE R!HasSession(p)
  <2>1. UNCHANGED <<sessions, sessionIndex>>
    BY <1>3 DEF R!PostVerificationNewSession, R!OldSession
  <2>2. sessionIndex[p] \in R!HexId
    BY <1>3 DEF R!HasSession, SessionsInv, R!TypeOK
  <2>3. sending' \subseteq [id : R!HexId, challenge : R!Challenge]
    BY <1>2, <1>3, <2>2 DEF R!PostVerificationNewSession, R!OldSession, R!GetSessionId, SessionsInv, R!TypeOK
  <2> QED
    BY <1>1, <1>2, <2>1, <2>3
    DEF SessionsInv, R!TypeOK, R!OneSessionPerNumber, ChallengesPushed, R!AcceptedAfterPush
<1>4. CASE ~ R!HasSession(p)
  <2> DEFINE new == [phone |-> p, challenge |-> NONE, acceptCode |-> FALSE,
                     nextCode |-> FALSE, verified |-> FALSE]
  <2>1. PICK raw \in Uuid : R!NewSession(p, raw, token)
    BY <1>4 DEF R!PostVerificationNewSession
  <2>2. /\ sessions' = [sessions EXCEPT ![raw] = new]
        /\ sessionIndex' = [sessionIndex EXCEPT ![p] = R!Format(raw)]
    BY <2>1 DEF R!NewSession
  <2>3. /\ new \in R!Session /\ new.phone = p /\ new.challenge = NONE /\ new.acceptCode = FALSE
    BY DEF R!Session
  <2>4. R!Format(raw) \in R!HexId
    BY DEF R!HexId
  <2>5. sending' \subseteq [id : R!HexId, challenge : R!Challenge]
    BY <1>2, <2>1, <2>4 DEF R!NewSession, SessionsInv, R!TypeOK
  <2> HIDE DEF new
  <2>6. R!TypeOK'
    BY <1>1, <1>2, <2>2, <2>3, <2>4, <2>5 DEF SessionsInv, R!TypeOK
  <2>7. \A s \in Uuid : sessions[s] # NONE => sessions[s].phone # p
    <3>1. sessionIndex[p] = NONE
      BY <1>4 DEF R!HasSession
    <3>2. \A s \in Uuid : R!Format(s) # NONE
      BY DEF R!ConstantsOK, R!HexId
    <3> QED
      BY <3>1, <3>2 DEF SessionsInv, R!OneSessionPerNumber
  <2>8. /\ sessions'[raw] = new /\ \A s \in Uuid : s # raw => sessions'[s] = sessions[s]
        /\ sessionIndex'[p] = R!Format(raw) /\ \A q \in Phone : q # p => sessionIndex'[q] = sessionIndex[q]
    BY <2>2 DEF SessionsInv, R!TypeOK
  <2>9. \A s \in Uuid : sessions[s] # NONE => sessions[s].phone \in Phone
    BY SessionFields DEF SessionsInv
  <2>10. R!OneSessionPerNumber'
    BY <2>3, <2>7, <2>8, <2>9 DEF SessionsInv, R!OneSessionPerNumber
  <2>11. ChallengesPushed'
    BY <1>1, <2>3, <2>8 DEF SessionsInv, ChallengesPushed
  <2>12. R!AcceptedAfterPush'
    BY <1>1, <2>3, <2>8 DEF SessionsInv, R!AcceptedAfterPush
  <2> QED
    BY <1>1, <1>2, <2>6, <2>10, <2>11, <2>12 DEF SessionsInv
<1> QED
  BY <1>3, <1>4

\* Expiry: the session goes before its index.
LEMMA ExpireInv ==
  ASSUME R!ConstantsOK, SessionsInv, NEW p \in Phone, R!Expire(p)
  PROVE  SessionsInv'
<1> DEFINE h == sessionIndex[p]
<1>1. h \in R!HexId /\ UNCHANGED <<sending, sent, sessionRequests, pushed>>
  BY DEF R!Expire, SessionsInv, R!TypeOK
<1>2. R!GetSession(h) = sessions[R!DecodeString(h)] /\ R!DecodeString(h) \in Uuid
  BY <1>1, HexIds, GetSessionOf
<1>3. CASE R!GetSession(h) # NONE
  <2>1. sessions' = [sessions EXCEPT ![R!DecodeString(h)] = NONE] /\ sessionIndex' = sessionIndex
    BY <1>3 DEF R!Expire
  <2>2. \A s \in Uuid : sessions'[s] = NONE \/ sessions'[s] = sessions[s]
    BY <1>2, <2>1 DEF SessionsInv, R!TypeOK
  <2>3. R!TypeOK'
    BY <1>1, <2>1 DEF SessionsInv, R!TypeOK
  <2> QED
    BY <1>1, <2>1, <2>2, <2>3 DEF SessionsInv, R!OneSessionPerNumber, ChallengesPushed, R!AcceptedAfterPush
<1>4. CASE R!GetSession(h) = NONE
  <2>1. sessionIndex' = [sessionIndex EXCEPT ![p] = NONE] /\ sessions' = sessions
    BY <1>4 DEF R!Expire
  <2>2. R!TypeOK'
    BY <1>1, <2>1 DEF SessionsInv, R!TypeOK
  <2>3. ASSUME NEW s \in Uuid, sessions[s] # NONE
        PROVE  sessionIndex'[sessions[s].phone] = R!Format(s)
    <3>1. sessionIndex[sessions[s].phone] = R!Format(s) /\ sessions[s].phone \in Phone
      BY <2>3, SessionFields DEF SessionsInv, R!OneSessionPerNumber
    <3>2. sessions[s].phone # p
      BY <1>2, <1>4, <2>3, <3>1, HexIds
    <3> QED
      BY <2>1, <3>1, <3>2 DEF SessionsInv, R!TypeOK
  <2>4. R!OneSessionPerNumber'
    BY <2>1, <2>3 DEF R!OneSessionPerNumber
  <2> QED
    BY <1>1, <2>1, <2>2, <2>4 DEF SessionsInv, ChallengesPushed, R!AcceptedAfterPush
<1> QED
  BY <1>3, <1>4

\* The relay: a challenge is pushed before its callback is queued.
LEMMA PushInv ==
  ASSUME R!ConstantsOK, SessionsInv, NEW c \in sending, NEW code \in {"OK", "NOT_FOUND"}, R!Push(c, code)
  PROVE  SessionsInv'
<1> DEFINE t == [id |-> c.id, challenge |-> c.challenge, code |-> code]
<1>1. /\ UNCHANGED <<sessions, sessionIndex, sessionRequests>> /\ sending' \subseteq sending
      /\ pushed \subseteq pushed' /\ sent' = sent \cup {t}
      /\ pushed' \subseteq pushed \cup {c} /\ (code = "OK" => c \in pushed')
  BY DEF R!Push
<1>2. t.id = c.id /\ t.challenge = c.challenge /\ t.code = code
  OBVIOUS
<1>3. t \in [id : R!HexId, challenge : R!Challenge, code : {"OK", "NOT_FOUND"}]
  BY DEF SessionsInv, R!TypeOK
<1> HIDE DEF t
<1>4. R!TypeOK'
  BY <1>1, <1>3 DEF SessionsInv, R!TypeOK
<1>5. ChallengesPushed'
  BY <1>1, <1>2 DEF SessionsInv, ChallengesPushed
<1> QED
  BY <1>1, <1>4, <1>5 DEF SessionsInv, R!OneSessionPerNumber, R!AcceptedAfterPush

(***************************************************************************)
(* Verification sessions: every step                                       *)
(***************************************************************************)

\* The invariant holds at the start.
LEMMA SessionsInit == ASSUME R!ConstantsOK PROVE R!Init => SessionsInv
BY DEF R!ConstantsOK, R!Init, SessionsInv, R!TypeOK, R!OneSessionPerNumber, ChallengesPushed, R!AcceptedAfterPush

\* Every step keeps the invariant.
LEMMA SessionsStep == ASSUME R!ConstantsOK PROVE SessionsInv /\ [R!Next]_(R!vars) => SessionsInv'
<1> SUFFICES ASSUME SessionsInv, [R!Next]_(R!vars) PROVE SessionsInv'
  OBVIOUS
<1>1. ASSUME NEW t \in sent, R!Disconnected(t) PROVE SessionsInv'
  <2>1. UNCHANGED <<sessions, sessionIndex, sending, sessionRequests, pushed>> /\ sent' \subseteq sent
    BY <1>1 DEF R!Disconnected
  <2> QED
    BY <2>1 DEF SessionsInv, R!TypeOK, R!OneSessionPerNumber, ChallengesPushed, R!AcceptedAfterPush
<1>2. CASE UNCHANGED R!vars
  BY <1>2 DEF R!vars, SessionsInv, R!TypeOK, R!OneSessionPerNumber, ChallengesPushed, R!AcceptedAfterPush
<1> QED
  BY <1>1, <1>2, FcmChallengeSentInv, PatchVerificationSessionInv, SessionCodeInv,
     PostVerificationNewSessionInv, ExpireInv, PushInv DEF R!Next

\* The invariant holds in every reachable state.
LEMMA SessionsAlways == ASSUME R!ConstantsOK PROVE R!Spec => []SessionsInv
BY SessionsInit, SessionsStep, PTL DEF R!Spec

(***************************************************************************)
(* Profiles                                                                *)
(***************************************************************************)

\* The functions of the parts of requests for profiles and attributes.
Fns == {"respondJsonOK", "putProfile2", "putProfile2NoCommitment", "getProfile2",
        "getVersionedProfile2", "getProfileKeyCredential2"}

\* PROFILE_SERVER->get() keeps what there is, and adds an empty profile.
LEMMA GotProfile ==
  ASSUME NEW v
  PROVE  /\ DOMAIN P!Got(v) = DOMAIN profiles \cup {v}
         /\ \A w \in DOMAIN profiles : P!Got(v)[w] = profiles[w]
         /\ v \notin DOMAIN profiles => P!Got(v)[v] = [content |-> 0, commitment |-> 0]
  BY DEF P!Got, P!NewProfile

\* updateCapabilities(): no two capabilities have the same bit, and none that of
\* fetchesMessages.
LEMMA Bits ==
  ASSUME NEW bits \in SUBSET (0..9), NEW caps \in SUBSET P!Capability
  PROVE  /\ P!UpdateCapabilities(bits, caps) \in SUBSET (0..9)
         /\ P!Caps(P!UpdateCapabilities(bits, caps)) = caps
         /\ P!FetchesMessages(P!UpdateCapabilities(bits, caps)) = P!FetchesMessages(bits)
<1>1. \A c \in P!Capability : P!Bit(c) \in 1..9
  BY DEF P!Capability, P!Bit
<1>2. \A c, d \in P!Capability : P!Bit(c) = P!Bit(d) => c = d
  BY DEF P!Capability, P!Bit
<1>3. ASSUME NEW c \in P!Capability PROVE P!Bit(c) # P!FETCHES_MESSAGES
  BY <1>1 DEF P!FETCHES_MESSAGES
<1>4. P!FETCHES_MESSAGES = 0
  BY DEF P!FETCHES_MESSAGES
<1> QED
  BY <1>1, <1>2, <1>3, <1>4 DEF P!UpdateCapabilities, P!Caps, P!FetchesMessages

\* The write that k, a kind of attribute or a version, is from.
Current(k) ==
  IF k = "device" THEN device[1].write
  ELSE IF k = "account" THEN account
  ELSE IF k \in DOMAIN profiles THEN profiles[k].content
  ELSE 0

\* Types.  A profile has the commitment that it was uploaded with.
AttributesTyped ==
  /\ device \in [P!Devices -> [bits : SUBSET (0..9), write : Nat]]
  /\ gcmId \in [P!Devices -> GcmId \cup {0}]
  /\ announced \in [P!Devices -> [fetches : BOOLEAN, caps : SUBSET P!Capability]]
  /\ account \in Nat
  /\ updates \in 0..MaxUpdates /\ writes \in Nat

ProfilesTyped ==
  /\ DOMAIN profiles \subseteq Version
  /\ \A v \in DOMAIN profiles :
       profiles[v] \in [content : Nat, commitment : Nat]
         /\ profiles[v].content = profiles[v].commitment

TasksTyped ==
  /\ acknowledged \in [P!Key -> Nat]
  /\ tasks \subseteq [fn : Fns, id : Nat, keys : SUBSET P!Key, write : Nat,
                      version : Version \cup {0}, since : [P!Key -> Nat]]
  /\ \A t \in tasks : t.fn # "respondJsonOK" => t.version \in Version

\* What was acknowledged, or is about to be, is not newer than what there is, and a
\* request knows of no acknowledgement that was not made.
NotAhead ==
  /\ \A d \in P!Devices : device[d].write <= writes
  /\ \A k \in P!Key :
       /\ acknowledged[k] <= Current(k) /\ Current(k) <= writes
       /\ \A t \in tasks :
            t.since[k] <= acknowledged[k] /\ (k \in t.keys => t.write <= Current(k))

\* Every write is that of a request: those made, and the profiles that wait for theirs.
Writing == {t \in tasks : t.fn = "putProfile2"}
WritesCounted == IsFiniteSet(Writing) /\ writes + Cardinality(Writing) <= updates

ProfilesInv ==
  /\ AttributesTyped /\ ProfilesTyped /\ TasksTyped
  /\ NotAhead /\ WritesCounted
  /\ P!CapabilitiesKept /\ P!AnswersAreTrue

\* There is nothing at first.
LEMMA ProfilesInit == P!Init => ProfilesInv
<1> SUFFICES ASSUME P!Init PROVE ProfilesInv
  OBVIOUS
<1> USE ProfilesAssumption DEF P!ConstantsOK
<1>1. AttributesTyped
  BY DEF P!Init, AttributesTyped, P!Devices, P!Capability
<1>2. ProfilesTyped
  BY DEF P!Init, ProfilesTyped
<1>3. TasksTyped
  BY DEF P!Init, TasksTyped
<1>4. NotAhead
  <2>1. \A k \in P!Key : Current(k) = 0
    BY DEF P!Init, Current, P!Devices
  <2> QED
    BY <2>1 DEF P!Init, NotAhead, P!Devices
<1>5. WritesCounted
  <2>1. Writing = {}
    BY DEF P!Init, Writing
  <2> QED
    BY <2>1, FS_EmptySet DEF P!Init, WritesCounted
<1>6. P!CapabilitiesKept
  <2>1. P!Caps({}) = {} /\ P!FetchesMessages({}) = FALSE
    BY DEF P!Caps, P!FetchesMessages
  <2> QED
    BY <2>1 DEF P!Init, P!CapabilitiesKept, P!Devices
<1>7. P!AnswersAreTrue
  BY DEF P!Init, P!AnswersAreTrue, P!ReadYourWrites, P!CredentialIsForProfile
<1> QED
  BY <1>1, <1>2, <1>3, <1>4, <1>5, <1>6, <1>7 DEF ProfilesInv

\* Current() of every key is a number.
LEMMA CurrentTyped ==
  ASSUME AttributesTyped, ProfilesTyped
  PROVE  \A k : Current(k) \in Nat
  BY DEF AttributesTyped, ProfilesTyped, Current, P!Devices

\* A request that comes has a task to run.
LEMMA TaskMade ==
  ASSUME AttributesTyped, TasksTyped,
         NEW fn \in Fns, NEW ks \in SUBSET P!Key, NEW write \in Nat,
         NEW version \in Version \cup {0}
  PROVE  P!Task(fn, ks, write, version) \in
           [fn : Fns, id : Nat, keys : SUBSET P!Key, write : Nat,
            version : Version \cup {0}, since : [P!Key -> Nat]]
  BY DEF P!Task, AttributesTyped, TasksTyped

\* Attributes and profiles are from newer writes than before, and tasks from before
\* or for what there is.
LEMMA NotAheadStep ==
  ASSUME AttributesTyped, ProfilesTyped, TasksTyped,
         AttributesTyped', ProfilesTyped', TasksTyped', NotAhead,
         writes <= writes',
         \A d \in P!Devices : device'[d].write <= writes',
         \A k \in P!Key :
           /\ Current(k) <= Current(k)' /\ Current(k)' <= writes'
           /\ acknowledged[k] <= acknowledged'[k] /\ acknowledged'[k] <= Current(k)',
         \A t \in tasks' \ tasks : \A k \in P!Key :
           t.since[k] <= acknowledged[k] /\ (k \in t.keys => t.write <= Current(k)')
  PROVE  NotAhead'
<1>1. \A k : Current(k) \in Nat /\ Current(k)' \in Nat
  <2>1. (\A k : Current(k) \in Nat)'
    BY CurrentTyped, PTL
  <2> QED
    BY <2>1, CurrentTyped
<1>2. \A k \in P!Key : acknowledged[k] \in Nat /\ acknowledged'[k] \in Nat
  BY DEF TasksTyped
<1>3. \A t \in tasks \cup tasks' : t.write \in Nat /\ \A k \in P!Key : t.since[k] \in Nat
  BY DEF TasksTyped
<1>4. ASSUME NEW t \in tasks', NEW k \in P!Key
      PROVE  t.since[k] <= acknowledged'[k] /\ (k \in t.keys => t.write <= Current(k)')
  <2>1. CASE t \in tasks
    BY <2>1, <1>1, <1>2, <1>3 DEF NotAhead
  <2>2. CASE t \notin tasks
    BY <2>2, <1>1, <1>2, <1>3
  <2> QED
    BY <2>1, <2>2
<1>5. (\A k \in P!Key : \A t \in tasks :
         t.since[k] <= acknowledged[k] /\ (k \in t.keys => t.write <= Current(k)))'
  BY <1>4 DEF P!Key
<1> QED
  BY <1>5 DEF NotAhead, P!Key

\* A write that is not one of putProfile2() comes with its request.
LEMMA CountedStep ==
  ASSUME WritesCounted, AttributesTyped, AttributesTyped',
         Writing' \subseteq Writing, writes' - writes <= updates' - updates
  PROVE  WritesCounted'
<1>1. IsFiniteSet(Writing') /\ Cardinality(Writing') <= Cardinality(Writing)
  BY FS_Subset DEF WritesCounted
<1>2. Cardinality(Writing) \in Nat /\ Cardinality(Writing') \in Nat
  BY <1>1, FS_CardinalityType DEF WritesCounted
<1>3. writes \in Nat /\ writes' \in Nat /\ updates \in Nat /\ updates' \in Nat
  BY ProfilesAssumption DEF P!ConstantsOK, AttributesTyped
<1>4. writes + Cardinality(Writing) <= updates
  BY DEF WritesCounted
<1>5. \A v, w, t, u, m, n \in Nat :
        v + m <= t /\ n <= m /\ w - v <= u - t => w + n <= u
  OBVIOUS
<1>6. writes' + Cardinality(Writing') <= updates'
  BY <1>1, <1>2, <1>3, <1>4, <1>5
<1> QED
  BY <1>1, <1>6 DEF WritesCounted

\* What CapabilitiesKept and AnswersAreTrue say does not change with other variables.
LEMMA CapabilitiesSame ==
  ASSUME P!CapabilitiesKept, UNCHANGED <<device, announced>>
  PROVE  P!CapabilitiesKept'
  BY DEF P!CapabilitiesKept, P!Caps, P!FetchesMessages

LEMMA AnswersSame ==
  ASSUME P!AnswersAreTrue, UNCHANGED answers
  PROVE  P!AnswersAreTrue'
  BY DEF P!AnswersAreTrue, P!ReadYourWrites, P!CredentialIsForProfile

\* putAccountsAttributes() of Accounts.c
LEMMA PutAccountsAttributesInv ==
  ASSUME ProfilesInv, NEW d \in P!Devices, NEW fetches \in BOOLEAN, NEW hasKey \in BOOLEAN,
         NEW caps \in CapSets, P!PutAccountsAttributes(d, fetches, caps, hasKey)
  PROVE  ProfilesInv'
<1> USE DEF ProfilesInv
<1> DEFINE ks == {"account"} \cup IF d = 1 THEN {"device"} ELSE {}
           new == P!Task("respondJsonOK", ks, writes + 1, 0)
           bits == P!UpdateDevice(fetches, caps)
<1>1. /\ ks \in SUBSET P!Key
      /\ new \in [fn : Fns, id : Nat, keys : SUBSET P!Key, write : Nat,
                  version : Version \cup {0}, since : [P!Key -> Nat]]
      /\ new.fn = "respondJsonOK" /\ new.keys = ks /\ new.write = writes + 1
      /\ new.since = acknowledged
  <2>1. ks \in SUBSET P!Key /\ "respondJsonOK" \in Fns /\ writes + 1 \in Nat
        /\ 0 \in Version \cup {0}
    BY DEF P!Key, Fns, AttributesTyped
  <2> HIDE DEF ks, new
  <2>2. new = P!Task("respondJsonOK", ks, writes + 1, 0)
    BY DEF new
  <2>3. AttributesTyped /\ TasksTyped
    OBVIOUS
  <2>4. new \in [fn : Fns, id : Nat, keys : SUBSET P!Key, write : Nat,
                  version : Version \cup {0}, since : [P!Key -> Nat]]
    BY <2>1, <2>2, <2>3, TaskMade
  <2>5. /\ new.fn = "respondJsonOK" /\ new.keys = ks /\ new.write = writes + 1
        /\ new.since = acknowledged
    BY <2>2 DEF P!Task
  <2> QED
    BY <2>1, <2>4, <2>5
<1>2. /\ bits \in SUBSET (0..9) /\ P!Caps(bits) = caps /\ P!FetchesMessages(bits) = fetches
      /\ caps \in SUBSET P!Capability
  <2>1. caps \in SUBSET P!Capability
    BY ProfilesAssumption DEF P!ConstantsOK
  <2> DEFINE flag == IF fetches THEN {P!FETCHES_MESSAGES} ELSE {}
  <2>2. flag \in SUBSET (0..9) /\ P!FetchesMessages(flag) = fetches
    BY DEF P!FETCHES_MESSAGES, P!FetchesMessages
  <2>3. bits = P!UpdateCapabilities(flag, caps)
    BY DEF P!UpdateDevice
  <2> HIDE DEF flag, bits
  <2> QED
    BY <2>1, <2>2, <2>3, Bits
<1> HIDE DEF bits, new
<1>3. /\ updates < MaxUpdates /\ updates' = updates + 1 /\ writes' = writes + 1
      /\ device' = [device EXCEPT ![d] = [bits |-> bits, write |-> writes + 1]]
      /\ announced' = [announced EXCEPT ![d] = [fetches |-> fetches, caps |-> caps]]
      /\ \/ account' = writes + 1 /\ tasks' = tasks \cup {new}
         \/ account' = account /\ tasks' = tasks
      /\ UNCHANGED <<gcmId, profiles, acknowledged, answers>>
  BY DEF P!PutAccountsAttributes, P!Requested, bits, new
<1>4. AttributesTyped'
  <2>1. [bits |-> bits, write |-> writes + 1] \in [bits : SUBSET (0..9), write : Nat]
    BY <1>2 DEF AttributesTyped
  <2>2. updates' \in 0..MaxUpdates /\ writes' \in Nat /\ account' \in Nat
    BY <1>3, ProfilesAssumption DEF AttributesTyped, P!ConstantsOK
  <2>3. [fetches |-> fetches, caps |-> caps] \in [fetches : BOOLEAN, caps : SUBSET P!Capability]
    BY <1>2
  <2> QED
    BY <1>3, <2>1, <2>2, <2>3 DEF AttributesTyped
<1>5. ProfilesTyped'
  BY <1>3 DEF ProfilesTyped
<1>6. TasksTyped'
  BY <1>1, <1>3 DEF TasksTyped, P!Key
<1>7. NotAhead'
  <2>1. \A k \in P!Key : Current(k) <= Current(k)' /\ Current(k)' <= writes'
    <3> SUFFICES ASSUME NEW k \in P!Key PROVE Current(k) <= Current(k)' /\ Current(k)' <= writes'
      OBVIOUS
    <3>1. Current(k) <= writes /\ Current(k) \in Nat /\ writes \in Nat
      BY CurrentTyped DEF NotAhead, AttributesTyped
    <3>2. Current(k)' = Current(k) \/ Current(k)' = writes + 1
      BY <1>3 DEF Current, AttributesTyped, P!Devices
    <3> QED
      BY <3>1, <3>2, <1>3
  <2>2. \A k \in P!Key : k \in ks /\ account' = writes + 1 => Current(k)' = writes + 1
    BY <1>3 DEF Current, AttributesTyped, P!Devices
  <2>3. \A e \in P!Devices : device'[e].write <= writes'
    BY <1>3 DEF AttributesTyped, NotAhead
  <2>4. \A k \in P!Key : acknowledged'[k] = acknowledged[k] /\ acknowledged[k] \in Nat
                         /\ acknowledged[k] <= Current(k) /\ Current(k) \in Nat
    BY <1>3, CurrentTyped DEF TasksTyped, NotAhead
  <2>5. \A t \in tasks' \ tasks : \A k \in P!Key :
          t.since[k] <= acknowledged[k] /\ (k \in t.keys => t.write <= Current(k)')
    <3> SUFFICES ASSUME account' = writes + 1, NEW k \in P!Key
                 PROVE  new.since[k] <= acknowledged[k]
                        /\ (k \in new.keys => new.write <= Current(k)')
      BY <1>3
    <3> QED
      BY <1>1, <2>2, <2>4 DEF AttributesTyped
  <2>6. \A k \in P!Key : /\ acknowledged[k] <= acknowledged'[k]
                         /\ acknowledged'[k] <= Current(k)'
    <3>1. (\A k : Current(k) \in Nat)'
      BY <1>4, <1>5, CurrentTyped, PTL
    <3> QED
      BY <3>1, <2>1, <2>4
  <2>7. writes <= writes'
    BY <1>3 DEF AttributesTyped
  <2> QED
    BY <1>4, <1>5, <1>6, <2>1, <2>3, <2>5, <2>6, <2>7, NotAheadStep
<1>8. WritesCounted'
  <2>1. Writing' = Writing
    BY <1>1, <1>3 DEF Writing
  <2>2. writes' - writes <= updates' - updates
    BY <1>3 DEF AttributesTyped
  <2> QED
    BY <1>4, <2>1, <2>2, CountedStep
<1>9. P!CapabilitiesKept'
  <2> SUFFICES ASSUME NEW e \in P!Devices
               PROVE  /\ P!Caps(device'[e].bits) = announced'[e].caps
                      /\ P!FetchesMessages(device'[e].bits) = announced'[e].fetches
    BY DEF P!CapabilitiesKept, P!Caps, P!FetchesMessages
  <2> QED
    BY <1>2, <1>3 DEF P!CapabilitiesKept, AttributesTyped
<1>10. P!AnswersAreTrue'
  BY <1>3, AnswersSame
<1> QED
  BY <1>4, <1>5, <1>6, <1>7, <1>8, <1>9, <1>10

\* putDevicesCapabilities() of Devices.c
LEMMA PutDevicesCapabilitiesInv ==
  ASSUME ProfilesInv, NEW d \in P!Devices, NEW caps \in CapSets,
         P!PutDevicesCapabilities(d, caps)
  PROVE  ProfilesInv'
<1> USE DEF ProfilesInv
<1> DEFINE kept == caps \ {"paymentActivation", "storage", "uuid"}
           ks == IF d = 1 THEN {"device"} ELSE {}
           bits == P!UpdateCapabilities(device[d].bits, kept)
<1>1. /\ bits \in SUBSET (0..9) /\ P!Caps(bits) = kept
      /\ P!FetchesMessages(bits) = P!FetchesMessages(device[d].bits)
      /\ kept \in SUBSET P!Capability
  <2>1. kept \in SUBSET P!Capability
    BY ProfilesAssumption DEF P!ConstantsOK
  <2>2. device[d].bits \in SUBSET (0..9)
    BY DEF AttributesTyped
  <2> HIDE DEF kept
  <2> QED
    BY <2>1, <2>2, Bits
<1> HIDE DEF bits
<1>2. /\ updates < MaxUpdates /\ updates' = updates + 1 /\ writes' = writes + 1
      /\ device' = [device EXCEPT ![d] = [bits |-> bits, write |-> writes + 1]]
      /\ announced' = [announced EXCEPT ![d].caps = kept]
      /\ acknowledged' = [k \in P!Key |->
           IF k \in ks /\ writes + 1 > acknowledged[k] THEN writes + 1 ELSE acknowledged[k]]
      /\ UNCHANGED <<gcmId, account, profiles, tasks, answers>>
  BY DEF P!PutDevicesCapabilities, P!Requested, P!Acknowledge, bits
<1> HIDE DEF kept
<1>3. AttributesTyped'
  <2>1. [bits |-> bits, write |-> writes + 1] \in [bits : SUBSET (0..9), write : Nat]
    BY <1>1 DEF AttributesTyped
  <2>2. updates' \in 0..MaxUpdates /\ writes' \in Nat
    BY <1>2, ProfilesAssumption DEF AttributesTyped, P!ConstantsOK
  <2>3. announced' \in [P!Devices -> [fetches : BOOLEAN, caps : SUBSET P!Capability]]
    BY <1>1, <1>2 DEF AttributesTyped
  <2> QED
    BY <1>2, <2>1, <2>2, <2>3 DEF AttributesTyped
<1>4. ProfilesTyped'
  BY <1>2 DEF ProfilesTyped
<1>5. TasksTyped'
  BY <1>2 DEF TasksTyped, AttributesTyped
<1>6. NotAhead'
  <2>1. \A k \in P!Key : Current(k) <= Current(k)' /\ Current(k)' <= writes'
    <3> SUFFICES ASSUME NEW k \in P!Key PROVE Current(k) <= Current(k)' /\ Current(k)' <= writes'
      OBVIOUS
    <3>1. Current(k) <= writes /\ Current(k) \in Nat /\ writes \in Nat
      BY CurrentTyped DEF NotAhead, AttributesTyped
    <3>2. Current(k)' = Current(k) \/ Current(k)' = writes + 1
      BY <1>2 DEF Current, AttributesTyped, P!Devices
    <3> QED
      BY <3>1, <3>2, <1>2
  <2>2. \A k \in ks : Current(k)' = writes + 1
    BY <1>2 DEF Current, AttributesTyped, P!Devices
  <2>3. \A e \in P!Devices : device'[e].write <= writes'
    BY <1>2 DEF AttributesTyped, NotAhead
  <2>4. \A k \in P!Key : /\ acknowledged[k] \in Nat /\ acknowledged[k] <= Current(k)
                         /\ Current(k) \in Nat
    BY CurrentTyped DEF TasksTyped, NotAhead
  <2>5. \A k \in P!Key : /\ acknowledged[k] <= acknowledged'[k]
                         /\ acknowledged'[k] <= Current(k)'
    <3>1. (\A k : Current(k) \in Nat)'
      BY <1>3, <1>4, CurrentTyped, PTL
    <3>2. \A k \in P!Key : acknowledged'[k] = acknowledged[k]
            \/ (k \in ks /\ acknowledged'[k] = writes + 1 /\ writes + 1 > acknowledged[k])
      BY <1>2
    <3> HIDE DEF ks
    <3> QED
      BY <3>1, <3>2, <2>1, <2>2, <2>4 DEF AttributesTyped
  <2>6. writes <= writes' /\ tasks' = tasks
    BY <1>2 DEF AttributesTyped
  <2> QED
    BY <1>3, <1>4, <1>5, <2>1, <2>3, <2>5, <2>6, NotAheadStep
<1>7. WritesCounted'
  <2>1. Writing' = Writing
    BY <1>2 DEF Writing
  <2>2. writes' - writes <= updates' - updates
    BY <1>2 DEF AttributesTyped
  <2> QED
    BY <1>3, <2>1, <2>2, CountedStep
<1>8. P!CapabilitiesKept'
  <2> SUFFICES ASSUME NEW e \in P!Devices
               PROVE  /\ P!Caps(device'[e].bits) = announced'[e].caps
                      /\ P!FetchesMessages(device'[e].bits) = announced'[e].fetches
    BY DEF P!CapabilitiesKept, P!Caps, P!FetchesMessages
  <2> QED
    BY <1>1, <1>2 DEF P!CapabilitiesKept, AttributesTyped
<1>9. P!AnswersAreTrue'
  BY <1>2, AnswersSame
<1> QED
  BY <1>3, <1>4, <1>5, <1>6, <1>7, <1>8, <1>9

\* What is left to prove when neither attributes nor profiles are written, and what
\* was acknowledged stays.
LEMMA NothingWritten ==
  ASSUME ProfilesInv, AttributesTyped', ProfilesTyped', TasksTyped',
         writes' = writes, updates <= updates', acknowledged' = acknowledged,
         \A d \in P!Devices : device'[d].write = device[d].write,
         \A k \in P!Key : Current(k)' = Current(k),
         Writing' \subseteq Writing,
         \A t \in tasks' \ tasks : t.since = acknowledged /\ t.keys = {}
  PROVE  NotAhead' /\ WritesCounted'
<1> USE DEF ProfilesInv
<1>1. \A k \in P!Key : Current(k) \in Nat /\ acknowledged[k] \in Nat
  BY CurrentTyped DEF TasksTyped
<1>2. \A k \in P!Key :
        /\ Current(k) <= Current(k)' /\ Current(k)' <= writes'
        /\ acknowledged[k] <= acknowledged'[k] /\ acknowledged'[k] <= Current(k)'
  BY <1>1 DEF NotAhead
<1>3. \A d \in P!Devices : device'[d].write <= writes'
  BY DEF NotAhead
<1>4. \A t \in tasks' \ tasks : \A k \in P!Key :
        t.since[k] <= acknowledged[k] /\ (k \in t.keys => t.write <= Current(k)')
  BY <1>1
<1>5. writes <= writes' /\ writes' - writes <= updates' - updates
  <2>1. writes \in Nat /\ updates \in Nat /\ updates' \in Nat
    BY ProfilesAssumption DEF AttributesTyped, P!ConstantsOK
  <2>2. \A v, t, u \in Nat : t <= u => v <= v /\ v - v <= u - t
    OBVIOUS
  <2> QED
    BY <2>1, <2>2
<1> QED
  BY <1>2, <1>3, <1>4, <1>5, NotAheadStep, CountedStep

\* putAccountsGcm() of Accounts.c
LEMMA PutAccountsGcmInv ==
  ASSUME ProfilesInv, NEW d \in P!Devices, NEW id \in GcmId, P!PutAccountsGcm(d, id)
  PROVE  ProfilesInv'
<1> USE DEF ProfilesInv
<1> DEFINE bits == P!SetFetchesMessages(device[d].bits, FALSE)
           new == P!Task("respondJsonOK", {}, writes, 0)
<1>1. /\ bits \in SUBSET (0..9) /\ P!Caps(bits) = P!Caps(device[d].bits)
      /\ P!FetchesMessages(bits) = FALSE
  <2>1. \A c \in P!Capability : P!Bit(c) # P!FETCHES_MESSAGES
    BY DEF P!Capability, P!Bit, P!FETCHES_MESSAGES
  <2>2. bits = device[d].bits \ {P!FETCHES_MESSAGES}
    BY DEF P!SetFetchesMessages
  <2>3. device[d].bits \in SUBSET (0..9)
    BY DEF AttributesTyped
  <2> HIDE DEF bits
  <2> QED
    BY <2>1, <2>2, <2>3 DEF P!Caps, P!FetchesMessages
<1>2. /\ new \in [fn : Fns, id : Nat, keys : SUBSET P!Key, write : Nat,
                  version : Version \cup {0}, since : [P!Key -> Nat]]
      /\ new.fn = "respondJsonOK" /\ new.keys = {} /\ new.since = acknowledged
  <2>1. {} \in SUBSET P!Key /\ "respondJsonOK" \in Fns /\ writes \in Nat /\ 0 \in Version \cup {0}
    BY DEF Fns, AttributesTyped
  <2>2. new.fn = "respondJsonOK" /\ new.keys = {} /\ new.since = acknowledged
    BY DEF P!Task
  <2> QED
    BY <2>1, <2>2, TaskMade
<1> HIDE DEF bits, new
<1>3. /\ updates < MaxUpdates /\ updates' = updates + 1
      /\ gcmId' = [gcmId EXCEPT ![d] = id]
      /\ \/ /\ device' = [device EXCEPT ![d].bits = bits]
            /\ announced' = [announced EXCEPT ![d].fetches = FALSE]
         \/ UNCHANGED <<device, announced>>
      /\ tasks' = tasks \cup {new}
      /\ UNCHANGED <<account, profiles, writes, acknowledged, answers>>
  BY DEF P!PutAccountsGcm, P!Requested, bits, new
<1>4. AttributesTyped'
  <2>1. updates' \in 0..MaxUpdates /\ writes' \in Nat
    BY <1>3, ProfilesAssumption DEF AttributesTyped, P!ConstantsOK
  <2>2. device' \in [P!Devices -> [bits : SUBSET (0..9), write : Nat]]
    BY <1>1, <1>3 DEF AttributesTyped
  <2>3. announced' \in [P!Devices -> [fetches : BOOLEAN, caps : SUBSET P!Capability]]
    BY <1>3 DEF AttributesTyped
  <2> QED
    BY <1>3, <2>1, <2>2, <2>3 DEF AttributesTyped
<1>5. ProfilesTyped'
  BY <1>3 DEF ProfilesTyped
<1>6. TasksTyped'
  BY <1>2, <1>3 DEF TasksTyped
<1>7. \A e \in P!Devices : device'[e].write = device[e].write
  BY <1>3 DEF AttributesTyped
<1>8. NotAhead' /\ WritesCounted'
  <2>1. \A k \in P!Key : Current(k)' = Current(k)
    BY <1>3, <1>7 DEF Current, P!Devices
  <2>2. Writing' \subseteq Writing
    BY <1>2, <1>3 DEF Writing
  <2>3. updates <= updates'
    BY <1>3 DEF AttributesTyped
  <2> QED
    BY <1>2, <1>3, <1>4, <1>5, <1>6, <1>7, <2>1, <2>2, <2>3, NothingWritten
<1>9. P!CapabilitiesKept'
  <2> SUFFICES ASSUME NEW e \in P!Devices
               PROVE  /\ P!Caps(device'[e].bits) = announced'[e].caps
                      /\ P!FetchesMessages(device'[e].bits) = announced'[e].fetches
    BY DEF P!CapabilitiesKept, P!Caps, P!FetchesMessages
  <2> QED
    BY <1>1, <1>3 DEF P!CapabilitiesKept, AttributesTyped
<1>10. P!AnswersAreTrue'
  BY <1>3, AnswersSame
<1> QED
  BY <1>4, <1>5, <1>6, <1>8, <1>9, <1>10

\* respondJsonOK() acknowledges what is stored already.
LEMMA RespondJsonOKInv ==
  ASSUME ProfilesInv, NEW t \in tasks, P!RespondJsonOK(t)
  PROVE  ProfilesInv'
<1> USE DEF ProfilesInv
<1>1. /\ tasks' = tasks \ {t}
      /\ acknowledged' = [k \in P!Key |->
           IF k \in t.keys /\ t.write > acknowledged[k] THEN t.write ELSE acknowledged[k]]
      /\ UNCHANGED <<device, gcmId, account, announced, profiles, updates, writes, answers>>
  BY DEF P!RespondJsonOK, P!Acknowledge, P!attributes
<1>2. AttributesTyped' /\ ProfilesTyped'
  BY <1>1 DEF AttributesTyped, ProfilesTyped
<1>3. TasksTyped'
  <2>1. t.write \in Nat
    BY DEF TasksTyped
  <2> QED
    BY <1>1, <2>1 DEF TasksTyped
<1>4. NotAhead'
  <2>1. \A k \in P!Key : Current(k)' = Current(k) /\ Current(k) \in Nat
    BY <1>1, CurrentTyped DEF Current
  <2>2. \A k \in P!Key : /\ acknowledged[k] \in Nat /\ acknowledged[k] <= Current(k)
                         /\ Current(k) <= writes
                         /\ k \in t.keys => t.write <= Current(k)
    BY DEF TasksTyped, NotAhead
  <2>3. \A k \in P!Key : /\ acknowledged[k] <= acknowledged'[k]
                         /\ acknowledged'[k] <= Current(k)'
    <3>1. t.write \in Nat
      BY DEF TasksTyped
    <3> QED
      BY <1>1, <2>1, <2>2, <3>1
  <2>4. \A d \in P!Devices : device'[d].write <= writes'
    BY <1>1 DEF NotAhead
  <2>5. writes <= writes' /\ tasks' \ tasks = {}
    BY <1>1 DEF AttributesTyped
  <2>6. \A k \in P!Key : Current(k) <= Current(k)' /\ Current(k)' <= writes'
    BY <1>1, <2>1, <2>2
  <2> QED
    BY <1>2, <1>3, <2>3, <2>4, <2>5, <2>6, NotAheadStep
<1>5. WritesCounted'
  <2>1. Writing' \subseteq Writing
    BY <1>1 DEF Writing
  <2>2. writes' - writes <= updates' - updates
    <3>1. writes \in Nat /\ updates \in Nat
      BY ProfilesAssumption DEF AttributesTyped, P!ConstantsOK
    <3> QED
      BY <1>1, <3>1
  <2> QED
    BY <1>2, <2>1, <2>2, CountedStep
<1>6. P!CapabilitiesKept' /\ P!AnswersAreTrue'
  BY <1>1, CapabilitiesSame, AnswersSame
<1> QED
  BY <1>2, <1>3, <1>4, <1>5, <1>6

\* putProfile() queues the only write of its request.
LEMMA PutProfileInv ==
  ASSUME ProfilesInv, NEW v \in Version, NEW hasCommitment \in BOOLEAN,
         P!PutProfile(v, hasCommitment)
  PROVE  ProfilesInv'
<1> USE DEF ProfilesInv
<1> DEFINE fn == IF hasCommitment THEN "putProfile2" ELSE "putProfile2NoCommitment"
           new == P!Task(fn, {}, 0, v)
<1>1. /\ new \in [fn : Fns, id : Nat, keys : SUBSET P!Key, write : Nat,
                  version : Version \cup {0}, since : [P!Key -> Nat]]
      /\ new.fn = fn /\ new.keys = {} /\ new.since = acknowledged /\ new.version = v
  <2>1. {} \in SUBSET P!Key /\ fn \in Fns /\ 0 \in Nat /\ v \in Version \cup {0}
    BY DEF Fns
  <2>2. new.fn = fn /\ new.keys = {} /\ new.since = acknowledged /\ new.version = v
    BY DEF P!Task
  <2> HIDE DEF fn
  <2> QED
    BY <2>1, <2>2, TaskMade
<1> HIDE DEF new
<1>2. /\ updates < MaxUpdates /\ updates' = updates + 1 /\ tasks' = tasks \cup {new}
      /\ UNCHANGED <<device, gcmId, account, announced, profiles, writes, acknowledged, answers>>
  BY DEF P!PutProfile, P!Requested, P!attributes, new
<1>3. AttributesTyped' /\ ProfilesTyped'
  <2>1. updates' \in 0..MaxUpdates
    BY <1>2, ProfilesAssumption DEF AttributesTyped, P!ConstantsOK
  <2> QED
    BY <1>2, <2>1 DEF AttributesTyped, ProfilesTyped
<1>4. TasksTyped'
  BY <1>1, <1>2 DEF TasksTyped
<1>5. NotAhead'
  <2>1. \A k \in P!Key : /\ Current(k)' = Current(k) /\ Current(k) \in Nat
                         /\ acknowledged[k] \in Nat /\ acknowledged[k] <= Current(k)
                         /\ Current(k) <= writes
    BY <1>2, CurrentTyped DEF Current, TasksTyped, NotAhead
  <2>2. \A k \in P!Key : /\ Current(k) <= Current(k)' /\ Current(k)' <= writes'
                         /\ acknowledged[k] <= acknowledged'[k]
                         /\ acknowledged'[k] <= Current(k)'
    BY <1>2, <2>1
  <2>3. \A d \in P!Devices : device'[d].write <= writes'
    BY <1>2 DEF NotAhead
  <2>4. \A t \in tasks' \ tasks : \A k \in P!Key :
          t.since[k] <= acknowledged[k] /\ (k \in t.keys => t.write <= Current(k)')
    BY <1>1, <1>2, <2>1
  <2>5. writes <= writes'
    BY <1>2 DEF AttributesTyped
  <2> QED
    BY <1>3, <1>4, <2>2, <2>3, <2>4, <2>5, NotAheadStep
<1>6. WritesCounted'
  <2>1. Writing' \in SUBSET (Writing \cup {new})
    BY <1>2 DEF Writing
  <2>2. /\ IsFiniteSet(Writing \cup {new})
        /\ Cardinality(Writing \cup {new}) =
             IF new \in Writing THEN Cardinality(Writing) ELSE Cardinality(Writing) + 1
    BY FS_AddElement DEF WritesCounted
  <2>3. IsFiniteSet(Writing') /\ Cardinality(Writing') <= Cardinality(Writing \cup {new})
    BY <2>1, <2>2, FS_Subset
  <2>4. Cardinality(Writing) \in Nat /\ Cardinality(Writing') \in Nat
    BY <2>3, FS_CardinalityType DEF WritesCounted
  <2>5. writes \in Nat /\ updates \in Nat /\ writes + Cardinality(Writing) <= updates
    BY ProfilesAssumption DEF AttributesTyped, WritesCounted, P!ConstantsOK
  <2>6. \A w, u, m, n \in Nat : w + m <= u /\ n <= m + 1 => w + n <= u + 1
    OBVIOUS
  <2>7. Cardinality(Writing') <= Cardinality(Writing) + 1
    BY <2>2, <2>3, <2>4
  <2>8. writes' + Cardinality(Writing') <= updates'
    BY <1>2, <2>4, <2>5, <2>6, <2>7
  <2> QED
    BY <2>3, <2>8 DEF WritesCounted
<1>7. P!CapabilitiesKept' /\ P!AnswersAreTrue'
  BY <1>2, CapabilitiesSame, AnswersSame
<1> QED
  BY <1>3, <1>4, <1>5, <1>6, <1>7

\* Getting a profile that is not there makes an empty one.
LEMMA ProfileGot ==
  ASSUME ProfilesTyped, NEW v \in Version
  PROVE  /\ DOMAIN P!Got(v) \subseteq Version /\ v \in DOMAIN P!Got(v)
         /\ DOMAIN profiles \subseteq DOMAIN P!Got(v)
         /\ \A w \in DOMAIN P!Got(v) :
              /\ P!Got(v)[w] \in [content : Nat, commitment : Nat]
              /\ P!Got(v)[w].content = P!Got(v)[w].commitment
              /\ P!Got(v)[w].content = IF w \in DOMAIN profiles THEN profiles[w].content ELSE 0
<1>1. [content |-> 0, commitment |-> 0] \in [content : Nat, commitment : Nat]
  OBVIOUS
<1>2. DOMAIN P!Got(v) = DOMAIN profiles \cup {v} /\ DOMAIN profiles \subseteq Version
  BY GotProfile DEF ProfilesTyped
<1>3. ASSUME NEW w \in DOMAIN profiles
      PROVE  /\ P!Got(v)[w] = profiles[w]
             /\ P!Got(v)[w] \in [content : Nat, commitment : Nat]
             /\ P!Got(v)[w].content = P!Got(v)[w].commitment
  BY GotProfile DEF ProfilesTyped
<1>4. v \notin DOMAIN profiles =>
        /\ P!Got(v)[v] \in [content : Nat, commitment : Nat]
        /\ P!Got(v)[v].content = P!Got(v)[v].commitment
        /\ P!Got(v)[v].content = 0
  <2> DEFINE empty == [content |-> 0, commitment |-> 0]
  <2>1. v \notin DOMAIN profiles => P!Got(v)[v] = empty
    BY GotProfile
  <2>2. empty.content = empty.commitment /\ empty.content = 0
    OBVIOUS
  <2> HIDE DEF empty
  <2> QED
    BY <1>1, <2>1, <2>2 DEF empty
<1> QED
  BY <1>2, <1>3, <1>4

\* A version is no other key.
LEMMA VersionIsKey ==
  ASSUME NEW v \in Version
  PROVE  v \in P!Key /\ v # "device" /\ v # "account"
  BY ProfilesAssumption DEF P!ConstantsOK, P!Key

\* The first part of putProfile2() to getProfileKeyCredential2(): with the profile got
\* and the task done, only the answers are left to consider.
LEMMA GotInv ==
  ASSUME ProfilesInv, NEW t \in tasks, NEW v \in Version,
         profiles' = profiles \/ profiles' = P!Got(v),
         tasks' = tasks \ {t},
         UNCHANGED <<device, gcmId, account, announced, updates, writes, acknowledged>>
  PROVE  /\ AttributesTyped' /\ ProfilesTyped' /\ TasksTyped' /\ NotAhead' /\ WritesCounted'
         /\ P!CapabilitiesKept'
<1> USE DEF ProfilesInv
<1>1. AttributesTyped'
  BY DEF AttributesTyped
<1>2. ProfilesTyped'
  BY ProfileGot DEF ProfilesTyped
<1>3. TasksTyped'
  BY DEF TasksTyped
<1>4. \A k \in P!Key : Current(k)' = Current(k)
  BY ProfileGot DEF Current
<1>5. Writing' \subseteq Writing
  BY DEF Writing
<1>6. updates <= updates'
  BY ProfilesAssumption DEF AttributesTyped, P!ConstantsOK
<1>7. NotAhead' /\ WritesCounted'
  BY <1>1, <1>2, <1>3, <1>4, <1>5, <1>6, NothingWritten
<1> QED
  BY <1>1, <1>2, <1>3, <1>7, CapabilitiesSame

\* putProfile2() of Profile.c
LEMMA PutProfile2Inv ==
  ASSUME ProfilesInv, NEW t \in tasks, P!PutProfile2(t)
  PROVE  ProfilesInv'
<1> USE DEF ProfilesInv
<1> DEFINE v == t.version
<1>1. v \in Version /\ v \in P!Key /\ v # "device" /\ v # "account"
  BY VersionIsKey DEF TasksTyped, P!PutProfile2
<1>2. CASE t.fn # "putProfile2"
  <2>1. /\ profiles' = P!Got(v) /\ tasks' = tasks \ {t}
        /\ UNCHANGED <<device, gcmId, account, announced, updates, writes, acknowledged, answers>>
    BY <1>2 DEF P!PutProfile2, P!attributes
  <2> QED
    BY <1>1, <2>1, GotInv, AnswersSame
<1>3. CASE t.fn = "putProfile2"
  <2> DEFINE new == [t EXCEPT !.fn = "respondJsonOK", !.keys = {v}, !.write = writes + 1]
             put == [content |-> writes + 1, commitment |-> writes + 1]
  <2>1. /\ writes' = writes + 1
        /\ profiles' = [P!Got(v) EXCEPT ![v] = put]
        /\ tasks' = (tasks \ {t}) \cup {new}
        /\ UNCHANGED <<device, gcmId, account, announced, updates, acknowledged, answers>>
    BY <1>3 DEF P!PutProfile2, P!Update, P!attributes
  <2>2. /\ new \in [fn : Fns, id : Nat, keys : SUBSET P!Key, write : Nat,
                    version : Version \cup {0}, since : [P!Key -> Nat]]
        /\ new.fn = "respondJsonOK" /\ new.keys = {v} /\ new.write = writes + 1
        /\ new.since = t.since
    <3>1. t \in [fn : Fns, id : Nat, keys : SUBSET P!Key, write : Nat,
                 version : Version \cup {0}, since : [P!Key -> Nat]]
      BY DEF TasksTyped
    <3>2. {v} \in SUBSET P!Key /\ writes + 1 \in Nat /\ "respondJsonOK" \in Fns
      BY <1>1 DEF AttributesTyped, Fns
    <3> QED
      BY <3>1, <3>2
  <2>3. put \in [content : Nat, commitment : Nat] /\ put.content = put.commitment
        /\ put.content = writes + 1
    BY DEF AttributesTyped
  <2> HIDE DEF new, put, v
  <2>4. /\ DOMAIN profiles' = DOMAIN P!Got(v) /\ profiles'[v] = put
        /\ \A w \in DOMAIN P!Got(v) : w # v => profiles'[w] = P!Got(v)[w]
    BY <1>1, <2>1, ProfileGot
  <2>5. AttributesTyped'
    BY <2>1 DEF AttributesTyped
  <2>6. ProfilesTyped'
    <3>1. DOMAIN profiles' \subseteq Version
      BY <1>1, <2>4, ProfileGot
    <3>2. ASSUME NEW w \in DOMAIN profiles'
          PROVE  /\ profiles'[w] \in [content : Nat, commitment : Nat]
                 /\ profiles'[w].content = profiles'[w].commitment
      <4>1. CASE w = v
        BY <4>1, <2>3, <2>4
      <4>2. CASE w # v
        BY <4>2, <1>1, <2>4, ProfileGot
      <4> QED
        BY <4>1, <4>2
    <3> QED
      BY <3>1, <3>2 DEF ProfilesTyped
  <2>7. TasksTyped'
    BY <2>1, <2>2 DEF TasksTyped
  <2>8. NotAhead'
    <3>1. Current(v)' = writes + 1
      BY <1>1, <2>3, <2>4, ProfileGot DEF Current
    <3>2. \A k \in P!Key : k # v => Current(k)' = Current(k)
      BY <1>1, <2>1, <2>4, ProfileGot DEF Current
    <3>3. \A k \in P!Key : /\ Current(k) \in Nat /\ acknowledged[k] \in Nat
                           /\ acknowledged[k] <= Current(k) /\ Current(k) <= writes
      BY CurrentTyped DEF TasksTyped, NotAhead
    <3>4. writes \in Nat /\ \A d \in P!Devices : device[d].write \in Nat
      BY DEF AttributesTyped
    <3>5. \A k \in P!Key : /\ Current(k) <= Current(k)' /\ Current(k)' <= writes'
                           /\ acknowledged[k] <= acknowledged'[k]
                           /\ acknowledged'[k] <= Current(k)'
      BY <2>1, <3>1, <3>2, <3>3, <3>4
    <3>6. \A d \in P!Devices : device'[d].write <= writes'
      BY <2>1, <3>4 DEF NotAhead
    <3>7. \A s \in tasks' \ tasks : \A k \in P!Key :
            s.since[k] <= acknowledged[k] /\ (k \in s.keys => s.write <= Current(k)')
      BY <2>1, <2>2, <3>1, <3>4 DEF NotAhead
    <3>8. writes <= writes'
      BY <2>1, <3>4
    <3> QED
      BY <2>5, <2>6, <2>7, <3>5, <3>6, <3>7, <3>8, NotAheadStep
  <2>9. WritesCounted'
    <3>1. t \in Writing /\ Writing' = Writing \ {t}
      BY <1>3, <2>1, <2>2 DEF Writing
    <3>2. IsFiniteSet(Writing') /\ Cardinality(Writing') = Cardinality(Writing) - 1
      BY <3>1, FS_RemoveElement DEF WritesCounted
    <3>3. Cardinality(Writing) \in Nat /\ writes \in Nat /\ updates \in Nat
          /\ writes + Cardinality(Writing) <= updates
      BY FS_CardinalityType, ProfilesAssumption DEF AttributesTyped, WritesCounted, P!ConstantsOK
    <3>4. writes' + Cardinality(Writing') <= updates'
      BY <2>1, <3>2, <3>3
    <3> QED
      BY <3>2, <3>4 DEF WritesCounted
  <2> QED
    BY <2>1, <2>5, <2>6, <2>7, <2>8, <2>9, CapabilitiesSame, AnswersSame
<1> QED
  BY <1>2, <1>3

\* getProfile(), getVersionedProfile(), getProfileKeyCredential()
LEMMA GetProfileInv ==
  ASSUME ProfilesInv, NEW v \in Version,
         NEW fn \in {"getProfile2", "getVersionedProfile2", "getProfileKeyCredential2"},
         P!GetProfile(fn, v)
  PROVE  ProfilesInv'
<1> USE DEF ProfilesInv
<1> DEFINE new == P!Task(fn, {}, 0, v)
<1>1. /\ new \in [fn : Fns, id : Nat, keys : SUBSET P!Key, write : Nat,
                  version : Version \cup {0}, since : [P!Key -> Nat]]
      /\ new.fn # "putProfile2" /\ new.keys = {} /\ new.since = acknowledged
      /\ new.version = v
  <2>1. {} \in SUBSET P!Key /\ fn \in Fns /\ 0 \in Nat /\ v \in Version \cup {0}
    BY DEF Fns
  <2>2. /\ new.fn # "putProfile2" /\ new.keys = {} /\ new.since = acknowledged
        /\ new.version = v
    BY DEF P!Task
  <2> QED
    BY <2>1, <2>2, TaskMade
<1> HIDE DEF new
<1>2. /\ updates < MaxUpdates /\ updates' = updates + 1 /\ tasks' = tasks \cup {new}
      /\ UNCHANGED <<device, gcmId, account, announced, profiles, writes, acknowledged, answers>>
  BY DEF P!GetProfile, P!Requested, P!attributes, new
<1>3. AttributesTyped' /\ ProfilesTyped'
  <2>1. updates' \in 0..MaxUpdates
    BY <1>2, ProfilesAssumption DEF AttributesTyped, P!ConstantsOK
  <2> QED
    BY <1>2, <2>1 DEF AttributesTyped, ProfilesTyped
<1>4. TasksTyped'
  BY <1>1, <1>2 DEF TasksTyped
<1>5. NotAhead' /\ WritesCounted'
  <2>1. \A k \in P!Key : Current(k)' = Current(k)
    BY <1>2 DEF Current
  <2>2. Writing' \subseteq Writing
    BY <1>1, <1>2 DEF Writing
  <2>3. updates <= updates'
    BY <1>2 DEF AttributesTyped
  <2> QED
    BY <1>1, <1>2, <1>3, <1>4, <2>1, <2>2, <2>3, NothingWritten
<1> QED
  BY <1>2, <1>3, <1>4, <1>5, CapabilitiesSame, AnswersSame

\* An answer that shows what there is at least as new as what was acknowledged when
\* the request came.
LEMMA AnswerIsTrue ==
  ASSUME ProfilesInv, NEW t \in tasks, NEW content, NEW credential,
         answers' = answers \cup {P!Reply(t, content, credential)},
         t.fn # "getProfile2" => content \in Nat /\ t.since[t.version] <= content,
         t.fn = "getProfileKeyCredential2" => credential # 0 /\ credential = content
  PROVE  P!AnswersAreTrue'
<1> USE DEF ProfilesInv
<1> DEFINE new == P!Reply(t, content, credential)
<1>1. /\ new.fn = t.fn /\ new.version = t.version /\ new.since = t.since
      /\ new.device = device[1].write /\ new.account = account
      /\ new.content = content /\ new.credential = credential
  BY DEF P!Reply
<1> HIDE DEF new
<1>2. /\ Current("device") = device[1].write /\ Current("account") = account
      /\ "device" \in P!Key /\ "account" \in P!Key
  BY DEF Current, P!Key
<1>3. \A k \in P!Key : /\ t.since[k] <= acknowledged[k] /\ acknowledged[k] <= Current(k)
                       /\ t.since[k] \in Nat /\ acknowledged[k] \in Nat /\ Current(k) \in Nat
  BY CurrentTyped DEF TasksTyped, NotAhead
<1>4. \A k \in P!Key : t.since[k] <= Current(k)
  BY <1>3
<1>5. new.device >= new.since["device"] /\ new.account >= new.since["account"]
  BY <1>1, <1>2, <1>3, <1>4
<1>6. new.fn # "getProfile2" => new.content >= new.since[new.version]
  <2> SUFFICES ASSUME t.fn # "getProfile2" PROVE content >= t.since[t.version]
    BY <1>1
  <2>1. content \in Nat /\ t.since[t.version] <= content
    OBVIOUS
  <2> QED
    BY <2>1
<1>7. new.fn = "getProfileKeyCredential2" => new.credential # 0 /\ new.credential = new.content
  BY <1>1
<1>8. answers' = answers \cup {new}
  BY DEF new
<1> QED
  BY <1>5, <1>6, <1>7, <1>8 DEF P!AnswersAreTrue, P!ReadYourWrites, P!CredentialIsForProfile

\* getProfile2() shows no profile.
LEMMA GetProfile2Inv ==
  ASSUME ProfilesInv, NEW t \in tasks, P!GetProfile2(t)
  PROVE  ProfilesInv'
<1>1. t.version \in Version
  BY DEF P!GetProfile2, ProfilesInv, TasksTyped
<1>2. /\ profiles' = profiles /\ tasks' = tasks \ {t}
      /\ UNCHANGED <<device, gcmId, account, announced, updates, writes, acknowledged>>
      /\ answers' = answers \cup {P!Reply(t, 0, 0)} /\ t.fn = "getProfile2"
  BY DEF P!GetProfile2, P!attributes
<1>3. P!AnswersAreTrue'
  BY <1>2, AnswerIsTrue
<1> QED
  BY <1>1, <1>2, <1>3, GotInv DEF ProfilesInv

\* A profile that was got is as new as what was acknowledged for it.
LEMMA GotIsNew ==
  ASSUME ProfilesInv, NEW t \in tasks, t.version \in Version
  PROVE  /\ P!Got(t.version)[t.version].content \in Nat
         /\ t.since[t.version] <= P!Got(t.version)[t.version].content
<1>1. /\ t.version \in P!Key
      /\ Current(t.version) = P!Got(t.version)[t.version].content
  BY ProfileGot, VersionIsKey DEF ProfilesInv, Current
<1>2. /\ t.since[t.version] <= acknowledged[t.version]
      /\ acknowledged[t.version] <= Current(t.version)
      /\ t.since[t.version] \in Nat /\ acknowledged[t.version] \in Nat
      /\ Current(t.version) \in Nat
  BY <1>1, CurrentTyped DEF ProfilesInv, TasksTyped, NotAhead
<1> QED
  BY <1>1, <1>2

\* getVersionedProfile2()
LEMMA GetVersionedProfile2Inv ==
  ASSUME ProfilesInv, NEW t \in tasks, P!GetVersionedProfile2(t)
  PROVE  ProfilesInv'
<1> DEFINE content == P!Got(t.version)[t.version].content
<1>1. t.version \in Version
  BY DEF P!GetVersionedProfile2, ProfilesInv, TasksTyped
<1>2. /\ profiles' = P!Got(t.version) /\ tasks' = tasks \ {t}
      /\ UNCHANGED <<device, gcmId, account, announced, updates, writes, acknowledged>>
      /\ answers' = answers \cup {P!Reply(t, content, 0)} /\ t.fn = "getVersionedProfile2"
  BY DEF P!GetVersionedProfile2, P!attributes
<1>3. content \in Nat /\ t.since[t.version] <= content
  BY <1>1, GotIsNew
<1>4. P!AnswersAreTrue'
  BY <1>2, <1>3, AnswerIsTrue
<1> QED
  BY <1>1, <1>2, <1>4, GotInv DEF ProfilesInv

\* getProfileKeyCredential2() issues a credential for the commitment of that profile.
LEMMA GetProfileKeyCredential2Inv ==
  ASSUME ProfilesInv, NEW t \in tasks, P!GetProfileKeyCredential2(t)
  PROVE  ProfilesInv'
<1> DEFINE p == P!Got(t.version)[t.version]
<1>1. t.version \in Version
  BY DEF P!GetProfileKeyCredential2, ProfilesInv, TasksTyped
<1>2. /\ profiles' = P!Got(t.version) /\ tasks' = tasks \ {t}
      /\ UNCHANGED <<device, gcmId, account, announced, updates, writes, acknowledged>>
      /\ \/ p.commitment # 0 /\ answers' = answers \cup {P!Reply(t, p.content, p.commitment)}
         \/ answers' = answers
      /\ t.fn = "getProfileKeyCredential2"
  BY DEF P!GetProfileKeyCredential2, P!HasCommitment, P!attributes
<1>3. p.content \in Nat /\ t.since[t.version] <= p.content
  BY <1>1, GotIsNew
<1>4. p.content = p.commitment
  BY <1>1, ProfileGot DEF ProfilesInv
<1>5. P!AnswersAreTrue'
  <2>1. CASE answers' = answers
    BY <2>1, AnswersSame DEF ProfilesInv
  <2>2. CASE p.commitment # 0 /\ answers' = answers \cup {P!Reply(t, p.content, p.commitment)}
    <3> HIDE DEF p
    <3> QED
      BY <2>2, <1>2, <1>3, <1>4, AnswerIsTrue
  <2> QED
    BY <1>2, <2>1, <2>2
<1> QED
  BY <1>1, <1>2, <1>5, GotInv DEF ProfilesInv

\* A connection that ends takes parts of requests along.
LEMMA DropInv ==
  ASSUME ProfilesInv, NEW t \in tasks, P!Drop(t)
  PROVE  ProfilesInv'
<1> USE DEF ProfilesInv
<1>1. /\ tasks' = tasks \ {t}
      /\ UNCHANGED <<device, gcmId, account, announced, profiles, updates, writes,
                     acknowledged, answers>>
  BY DEF P!Drop, P!attributes
<1>2. AttributesTyped' /\ ProfilesTyped' /\ TasksTyped'
  BY <1>1 DEF AttributesTyped, ProfilesTyped, TasksTyped
<1>3. \A k \in P!Key : Current(k)' = Current(k)
  BY <1>1 DEF Current
<1>4. Writing' \subseteq Writing /\ updates <= updates'
  BY <1>1 DEF Writing, AttributesTyped
<1>5. NotAhead' /\ WritesCounted'
  BY <1>1, <1>2, <1>3, <1>4, NothingWritten
<1> QED
  BY <1>1, <1>2, <1>5, CapabilitiesSame, AnswersSame

\* Every step preserves the invariant.
LEMMA ProfilesStep == ProfilesInv /\ [P!Next]_(P!vars) => ProfilesInv'
<1> SUFFICES ASSUME ProfilesInv, [P!Next]_(P!vars) PROVE ProfilesInv'
  OBVIOUS
<1>1. CASE UNCHANGED P!vars
  <2>1. UNCHANGED <<device, gcmId, account, announced, profiles, tasks, updates, writes,
                    acknowledged, answers>>
    BY <1>1 DEF P!vars
  <2>2. NotAhead' /\ WritesCounted'
    BY <2>1 DEF ProfilesInv, NotAhead, WritesCounted, Writing, Current
  <2>3. AttributesTyped' /\ ProfilesTyped' /\ TasksTyped'
    BY <2>1 DEF ProfilesInv, AttributesTyped, ProfilesTyped, TasksTyped
  <2> QED
    BY <2>1, <2>2, <2>3, CapabilitiesSame, AnswersSame DEF ProfilesInv
<1>2. CASE P!Next
  BY <1>2, PutAccountsAttributesInv, PutDevicesCapabilitiesInv, PutAccountsGcmInv, PutProfileInv,
     GetProfileInv, RespondJsonOKInv, PutProfile2Inv, GetProfile2Inv, GetVersionedProfile2Inv,
     GetProfileKeyCredential2Inv, DropInv, Zenon DEF P!Next
<1> QED
  BY <1>1, <1>2

\* So it always holds.
LEMMA ProfilesAlways == P!Spec => []ProfilesInv
  BY ProfilesInit, ProfilesStep, PTL DEF P!Spec

(***************************************************************************)
(* The stores together                                                     *)
(***************************************************************************)

KP == INSTANCE KeysProofs WITH
  Account <- Owner,
  DeviceId <- OwnDevice,
  answers <- given

\* A behaviour of all stores is one of each of them: requests for others change none
\* of its variables.
LEMMA ChatIsAccounts == ChatSpec => Spec
<1>1. ChatInit => Init
  BY DEF ChatInit
<1>2. [ChatNext]_allVars => [Next]_vars
  BY DEF ChatNext, allVars
<1> QED
  BY <1>1, <1>2, PTL DEF ChatSpec, Spec

\* The same for verification sessions,
LEMMA ChatIsSessions == ChatSpec => R!Spec
<1>1. ChatInit => R!Init
  BY DEF ChatInit
<1>2. [ChatNext]_allVars => [R!Next]_(R!vars)
  BY DEF ChatNext, allVars, sessionVars, R!vars
<1> QED
  BY <1>1, <1>2, PTL DEF ChatSpec, R!Spec

\* for pre-keys,
LEMMA ChatIsKeys == ChatSpec => K!Spec
<1>1. ChatInit => K!Init
  BY DEF ChatInit
<1>2. [ChatNext]_allVars => [K!Next]_(K!vars)
  BY DEF ChatNext, allVars, keyVars, K!vars
<1> QED
  BY <1>1, <1>2, PTL DEF ChatSpec, K!Spec

\* and for profiles.
LEMMA ChatIsProfiles == ChatSpec => P!Spec
<1>1. ChatInit => P!Init
  BY DEF ChatInit
<1>2. [ChatNext]_allVars => [P!Next]_(P!vars)
  BY DEF ChatNext, allVars, profileVars, P!vars
<1> QED
  BY <1>1, <1>2, PTL DEF ChatSpec, P!Spec

\* KeysProofs is about the same pre-keys.
LEMMA SameKeys ==
  /\ K!Spec => KP!Spec
  /\ KP!ConstantsOK
  /\ KP!TypeOK => K!TypeOK
  /\ KP!KeysFit => KeysFit
<1> USE DEF K!Identity, KP!Identity, K!ALL, KP!ALL, K!PreKey, KP!PreKey
<1>1. K!Init => KP!Init
  BY DEF K!Init, KP!Init
<1>2. K!Next => KP!Next
  BY Zenon DEF K!Next, KP!Next, K!PutKeys, KP!PutKeys, K!PutKeys2, KP!PutKeys2,
       K!Store, KP!Store, K!PutKeysSignedAci, KP!PutKeysSignedAci, K!GetKeys, KP!GetKeys,
       K!First, KP!First, K!Take, KP!Take, K!GetKeys2, KP!GetKeys2,
       K!Disconnected, KP!Disconnected
<1>3. UNCHANGED K!vars => UNCHANGED KP!vars
  BY DEF K!vars, KP!vars
<1>4. K!Spec => KP!Spec
  BY <1>1, <1>2, <1>3, PTL DEF K!Spec, KP!Spec
<1>5. KP!ConstantsOK
  BY KeysAssumption DEF K!ConstantsOK, KP!ConstantsOK
<1>6. KP!TypeOK => K!TypeOK
  BY DEF KP!TypeOK, K!TypeOK
<1>7. KP!KeysFit => KeysFit
  BY DEF KeysFit, K!KeysFit, KP!KeysFit, K!OneTimeKeys, KP!OneTimeKeys,
       K!SignedKeysFirst, KP!SignedKeysFirst
<1> QED
  BY <1>4, <1>5, <1>6, <1>7

\* The two stores of sys/registration.c agree, with the other stores next to them.
THEOREM SessionsAgree == ChatSpec => []OneSessionPerNumber
<1>1. SessionsInv => OneSessionPerNumber
  BY DEF SessionsInv, OneSessionPerNumber
<1> QED
  BY <1>1, ChatIsSessions, SessionsAlways, SessionsAssumption, PTL

\* chat/Registration.c accepts a code only for a session whose challenge was pushed.
THEOREM CodeAfterPush == ChatSpec => []AcceptedAfterPush
<1>1. SessionsInv => AcceptedAfterPush
  BY DEF SessionsInv, AcceptedAfterPush
<1> QED
  BY <1>1, ChatIsSessions, SessionsAlways, SessionsAssumption, PTL

\* sys/keys.c gives a one-time pre-key away once, and chat/Keys.c never with older
\* signed keys.
THEOREM KeysAlwaysFit == ChatSpec => []KeysFit
<1>1. KP!Spec => []KP!KeysFit
  BY SameKeys, KP!KeysAlwaysFit
<1> QED
  BY <1>1, ChatIsKeys, SameKeys, PTL

\* lib/Device.c keeps exactly the capabilities and flags that were announced last.
THEOREM CapabilitiesShown == ChatSpec => []CapabilitiesKept
<1>1. ProfilesInv => CapabilitiesKept
  BY DEF ProfilesInv, CapabilitiesKept
<1> QED
  BY <1>1, ChatIsProfiles, ProfilesAlways, PTL

\* What chat/Accounts.c and chat/Profile.c acknowledged is what later requests are
\* shown, and a credential is for the profile in the same answer.
THEOREM AnswersTrue == ChatSpec => []AnswersAreTrue
<1>1. ProfilesInv => AnswersAreTrue
  BY DEF ProfilesInv, AnswersAreTrue
<1> QED
  BY <1>1, ChatIsProfiles, ProfilesAlways, PTL

\* The type invariant of Profiles.
LEMMA ProfilesTypeOK == ProfilesInv => P!TypeOK
<1> SUFFICES ASSUME ProfilesInv PROVE P!TypeOK
  OBVIOUS
<1>1. \A d \in P!Devices : device[d].bits \subseteq 0..9 /\ device[d].write \in 0..writes
  BY DEF ProfilesInv, AttributesTyped, NotAhead
<1>2. account \in 0..writes
  <2>1. "account" \in P!Key /\ Current("account") = account
    BY DEF P!Key, Current
  <2> QED
    BY <2>1 DEF ProfilesInv, AttributesTyped, NotAhead
<1>3. ASSUME NEW v \in DOMAIN profiles PROVE profiles[v].content \in 0..writes
  <2>1. v \in Version /\ profiles[v].content \in Nat
    BY DEF ProfilesInv, ProfilesTyped
  <2>2. v \in P!Key /\ Current(v) = profiles[v].content
    BY <2>1, VersionIsKey DEF Current
  <2> QED
    BY <2>1, <2>2 DEF ProfilesInv, AttributesTyped, NotAhead
<1>4. writes \in 0..updates
  BY FS_CardinalityType, ProfilesAssumption
     DEF ProfilesInv, AttributesTyped, WritesCounted, P!ConstantsOK
<1> QED
  BY <1>1, <1>2, <1>3, <1>4 DEF P!TypeOK, ProfilesInv, AttributesTyped, ProfilesTyped

\* The type invariants of all four modules hold.
THEOREM TypesCorrect == ChatSpec => []TypesOK
<1>1. SessionsInv => R!TypeOK
  BY DEF SessionsInv
<1>2. KP!Spec => []KP!TypeOK
  BY SameKeys, KP!TypeCorrect
<1>3. ProfilesInv => P!TypeOK
  BY ProfilesTypeOK
<1>4. TypeOK /\ R!TypeOK /\ K!TypeOK /\ P!TypeOK => TypesOK
  BY DEF TypesOK
<1> QED
  BY <1>1, <1>2, <1>3, <1>4, SessionsAlways, SessionsAssumption, SameKeys, TypeCorrect, ProfilesAlways,
     ChatIsAccounts, ChatIsSessions, ChatIsKeys, ChatIsProfiles, PTL
=============================================================================
