------------------------------ MODULE Accounts ------------------------------
(***************************************************************************)
(* Accounts, phone number identities and the devices of an account.        *)
(*                                                                         *)
(*   services/lib/chat/Registration.c   postRegistration, 2, 3, 4          *)
(*   services/lib/chat/Devices.c        provisioning code, putDevicesCode  *)
(*   sys/accounts.c, sys/pni.c          account and identity stores        *)
(*   sys/provisioning.c                 verification codes for new devices *)
(*   lib/Account.c, lib/Device.c        device ids and passwords           *)
(*                                                                         *)
(* Every part of a registration is a task of its own (a Continuation), and *)
(* so is the second part of linking a device; they interleave with those   *)
(* of other requests and are dropped with the connection they belong to.   *)
(*                                                                         *)
(* A password is modelled by the number of the request that brought it.    *)
(***************************************************************************)
EXTENDS Integers, FiniteSets, FiniteSetsExt

CONSTANTS
  Phone,           \* phone numbers
  Uuid,            \* 16-byte random ids
  Code,            \* verification codes for new devices, "100000".."999999"
  NONE,            \* nil
  MaxRequests,     \* bound: registration and linking requests
  MaxCodes         \* bound: verification codes handed out

ASSUME BoundsAssumption == MaxRequests \in Nat /\ MaxCodes \in Nat

VARIABLES
  accounts,        \* accounts[id]: the account, or NONE
  phoneIndex,      \* phoneIndex[phone]: its account id, or NONE
  pni,             \* pni[phone]: the identity of a phone number, or NONE
  ipn,             \* ipn[id]: the phone number of an identity, or NONE
  codes,           \* codes[phone]: code and its issue, or NONE
  registering,     \* tasks postRegistration2, 3 and 4
  linking,         \* tasks putDevicesCode2
  requests,        \* number of requests so far
  issued           \* number of codes handed out; issue i is history

vars == <<accounts, phoneIndex, pni, ipn, codes, registering, linking,
          requests, issued>>

Request == 1..MaxRequests
Issue == 1..MaxCodes
Ids == {id \in Uuid : accounts[id] # NONE}

Device == [password : Request, issue : Issue \cup {0}]
Account == [phone : Phone, pni : Uuid, devices : UNION {[1..n -> Device] : n \in Request}]
Registering ==
  [request : Request, phone : Phone, part : {2}]
    \cup [request : Request, phone : Phone, part : {3}, pni : Uuid]
    \cup [request : Request, phone : Phone, part : {4}, id : Uuid]
Linking == [request : Request, phone : Phone, issue : Issue]
VerificationCode == [code : Code, issue : Issue]

\* nil is neither an id, nor a number, nor an object.
ASSUME NoneAssumption ==
  NONE \notin Uuid /\ NONE \notin Phone /\ NONE \notin Account /\ NONE \notin VerificationCode

Init ==
  /\ accounts = [id \in Uuid |-> NONE]
  /\ phoneIndex = [p \in Phone |-> NONE]
  /\ pni = [p \in Phone |-> NONE]
  /\ ipn = [id \in Uuid |-> NONE]
  /\ codes = [p \in Phone |-> NONE]
  /\ registering = {} /\ linking = {}
  /\ requests = 0 /\ issued = 0

(***************************************************************************)
(* Registration                                                            *)
(***************************************************************************)

\* Whether the session passed verification is not checked.
PostRegistration(phone) ==
  /\ requests < MaxRequests
  /\ requests' = requests + 1
  /\ registering' = registering \cup
       {[request |-> requests + 1, phone |-> phone, part |-> 2]}
  /\ UNCHANGED <<accounts, phoneIndex, pni, ipn, codes, linking, issued>>

\* Mutant: every registration makes a new identity.
GetIdAlwaysAdds(phone, id) ==
  /\ ipn[id] = NONE
  /\ ipn' = [ipn EXCEPT ![id] = phone]
  /\ pni' = [pni EXCEPT ![phone] = id]

\* PNI_SERVER->getId(): id is the identity of phone, a new one if needed.  An
\* id that is in use is not taken: the loop tries another.
GetId(phone, id) ==
  IF pni[phone] # NONE
  THEN id = pni[phone] /\ UNCHANGED <<pni, ipn>>
  ELSE /\ ipn[id] = NONE
       /\ ipn' = [ipn EXCEPT ![id] = phone]
       /\ pni' = [pni EXCEPT ![phone] = id]

\* The account object is made, with its first device.
PostRegistration2(r) ==
  /\ r \in registering /\ r.part = 2
  /\ \E id \in Uuid :
       /\ GetId(r.phone, id)
       /\ registering' = (registering \ {r}) \cup
            {[request |-> r.request, phone |-> r.phone, part |-> 3, pni |-> id]}
  /\ UNCHANGED <<accounts, phoneIndex, codes, linking, requests, issued>>

\* Mutant: a number that is already registered is not refused.
RegisteredNever(phone) == FALSE

\* phoneIndex->add() of a number that has an account is an error.
Registered(phone) == phoneIndex[phone] # NONE

\* ACCOUNT_SERVER->add(), atomic: for a registered number nothing is changed
\* and the request gets no answer.
PostRegistration3(r) ==
  /\ r \in registering /\ r.part = 3
  /\ IF Registered(r.phone)
     THEN /\ registering' = registering \ {r}
          /\ UNCHANGED <<accounts, phoneIndex>>
     ELSE \E id \in Uuid \ Ids :
          /\ accounts' = [accounts EXCEPT ![id] =
               [phone |-> r.phone, pni |-> r.pni,
                devices |-> [d \in {1} |-> [password |-> r.request, issue |-> 0]]]]
          /\ phoneIndex' = [phoneIndex EXCEPT ![r.phone] = id]
          /\ registering' = (registering \ {r}) \cup
               {[request |-> r.request, phone |-> r.phone, part |-> 4, id |-> id]}
  /\ UNCHANGED <<pni, ipn, codes, linking, requests, issued>>

\* The client is told the ids of its account.
PostRegistration4(r) ==
  /\ r \in registering /\ r.part = 4
  /\ registering' = registering \ {r}
  /\ UNCHANGED <<accounts, phoneIndex, pni, ipn, codes, linking, requests, issued>>

(***************************************************************************)
(* Linking a device                                                        *)
(***************************************************************************)

\* A device of account id asks for a code; it replaces an earlier one.
GetDevicesProvisioningCode(id, code) ==
  /\ id \in Ids
  /\ issued < MaxCodes
  /\ issued' = issued + 1
  /\ codes' = [codes EXCEPT ![accounts[id].phone] =
                 [code |-> code, issue |-> issued + 1]]
  /\ UNCHANGED <<accounts, phoneIndex, pni, ipn, registering, linking, requests>>

\* Mutant: the code is not removed.
RemoveVerificationCodeNot(phone) == codes

RemoveVerificationCode(phone) == [codes EXCEPT ![phone] = NONE]

\* The new device sends the code; any other is refused.
PutDevicesCode(phone, code) ==
  /\ requests < MaxRequests
  /\ codes[phone] # NONE /\ codes[phone].code = code
  /\ requests' = requests + 1
  /\ codes' = RemoveVerificationCode(phone)
  /\ linking' = linking \cup
       {[request |-> requests + 1, phone |-> phone, issue |-> codes[phone].issue]}
  /\ UNCHANGED <<accounts, phoneIndex, pni, ipn, registering, issued>>

\* Mutant: the search starts at 0.
NextDeviceIdFromZero(devices) ==
  LET max == Cardinality(DOMAIN devices) + 1 IN
  Min({id \in 0..max : id \notin DOMAIN devices} \cup {max})

\* Mutant: the search ends one id too early.
NextDeviceIdShort(devices) ==
  LET max == Cardinality(DOMAIN devices) IN
  Min({id \in 1..max : id \notin DOMAIN devices} \cup {max})

\* Account.c nextDeviceId(): the lowest free id, at most one past the number of
\* devices.
NextDeviceId(devices) ==
  LET max == Cardinality(DOMAIN devices) + 1 IN
  Min({id \in 1..max : id \notin DOMAIN devices} \cup {max})

\* The device is added to the account that has the phone number.
PutDevicesCode2(l) ==
  LET id == phoneIndex[l.phone]
      devices == accounts[id].devices
      deviceId == NextDeviceId(devices)
  IN
  /\ l \in linking
  /\ linking' = linking \ {l}
  /\ accounts' = IF id = NONE THEN accounts ELSE
       [accounts EXCEPT ![id].devices = [d \in DOMAIN devices \cup {deviceId} |->
          IF d = deviceId THEN [password |-> l.request, issue |-> l.issue]
                          ELSE devices[d]]]
  /\ UNCHANGED <<phoneIndex, pni, ipn, codes, registering, requests, issued>>

\* After a day a code reads as nil.
Expire(phone) ==
  /\ codes[phone] # NONE
  /\ codes' = [codes EXCEPT ![phone] = NONE]
  /\ UNCHANGED <<accounts, phoneIndex, pni, ipn, registering, linking, requests,
                 issued>>

\* A connection ends between two parts of its request.
Disconnected(t) ==
  /\ t \in registering \cup linking
  /\ registering' = registering \ {t}
  /\ linking' = linking \ {t}
  /\ UNCHANGED <<accounts, phoneIndex, pni, ipn, codes, requests, issued>>

Next ==
  \/ \E phone \in Phone :
       \/ PostRegistration(phone)
       \/ Expire(phone)
       \/ \E code \in Code : PutDevicesCode(phone, code)
  \/ \E id \in Uuid, code \in Code : GetDevicesProvisioningCode(id, code)
  \/ \E r \in registering :
       PostRegistration2(r) \/ PostRegistration3(r) \/ PostRegistration4(r)
  \/ \E l \in linking : PutDevicesCode2(l)
  \/ \E t \in registering \cup linking : Disconnected(t)

Spec == Init /\ [][Next]_vars

(***************************************************************************)
(* Properties                                                              *)
(***************************************************************************)

\* Type invariant; the devices of an account are numbered 1, 2, ... without a
\* gap, as Account.c nextDeviceId() makes them.
TypeOK ==
  /\ accounts \in [Uuid -> Account \cup {NONE}]
  /\ phoneIndex \in [Phone -> Uuid \cup {NONE}]
  /\ pni \in [Phone -> Uuid \cup {NONE}]
  /\ ipn \in [Uuid -> Phone \cup {NONE}]
  /\ codes \in [Phone -> VerificationCode \cup {NONE}]
  /\ registering \subseteq Registering
  /\ linking \subseteq Linking
  /\ requests \in Nat /\ issued \in Nat

\* A phone number has at most one account, however many registrations of it
\* run at the same time, and the phone index leads to that account.
OneAccountPerNumber ==
  \A id \in Ids : phoneIndex[accounts[id].phone] = id

\* The identity of a phone number is permanent: pni and ipn are each other's
\* inverse, and every account and every account object that waits to be added
\* has the identity of its number (sys/pni.c getId()).
PniPermanent ==
  /\ \A p \in Phone : pni[p] # NONE => ipn[pni[p]] = p
  /\ \A id \in Uuid : ipn[id] # NONE => pni[ipn[id]] = id
  /\ \A id \in Ids : accounts[id].pni = pni[accounts[id].phone]
  /\ \A r \in registering : r.part = 3 => r.pni = pni[r.phone]

\* A verification code links one device, to the account it was made for: no two
\* devices, added or about to be added, owe their existence to the same code,
\* and putDevicesCode2() finds an account.
CodeIsUsedOnce ==
  LET linked == {x \in Ids \X Request : x[2] \in DOMAIN accounts[x[1]].devices}
      issue(x) == accounts[x[1]].devices[x[2]].issue
  IN
  /\ \A x, y \in linked : issue(x) = issue(y) /\ issue(x) # 0 => x = y
  /\ \A l, m \in linking : l.issue = m.issue => l = m
  /\ \A l \in linking : \A x \in linked : issue(x) # l.issue
  /\ \A l \in linking : phoneIndex[l.phone] # NONE

\* A device once added keeps its id and its password: neither a new device nor a
\* second registration of the number takes its place.
DevicesKept ==
  [][\A id \in Ids : /\ accounts'[id] # NONE
                     /\ \A d \in DOMAIN accounts[id].devices :
                          /\ d \in DOMAIN accounts'[id].devices
                          /\ accounts'[id].devices[d] = accounts[id].devices[d]]_vars
=============================================================================
