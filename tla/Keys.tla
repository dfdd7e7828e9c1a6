-------------------------------- MODULE Keys --------------------------------
(***************************************************************************)
(* One-time pre-keys: services/lib/chat/Keys.c and sys/keys.c.             *)
(*                                                                         *)
(* A device uploads its identity key, a signed pre-key and a list of       *)
(* one-time pre-keys.  The first two are stored at once in the account,    *)
(* the list in a later task (putKeys2).  A sender that asks for keys gets, *)
(* also in a later task (getKeys2), the identity key and per device the    *)
(* signed pre-key and one pre-key, which is then gone.                     *)
(*                                                                         *)
(* Keys are modelled by the number of the upload that brought them, since  *)
(* a client generates them anew each time; the key ids may repeat.         *)
(***************************************************************************)
EXTENDS Integers, FiniteSets

CONSTANTS
  Account,         \* accounts
  DeviceId,        \* the device ids that each account has
  KeyId,           \* ids a client gives to its pre-keys
  MaxUploads,      \* bound: uploads
  MaxQueries       \* bound: GET /v2/keys requests

\* What the proofs assume of the constants.  A key id is an int (sys/keys.c), and
\* there is a smallest int.
ConstantsOK ==
  /\ KeyId \subseteq Int
  /\ \E smallest \in KeyId : \A k \in KeyId : smallest <= k
  /\ MaxUploads \in Nat /\ MaxQueries \in Nat

\* The key server keeps the keys of an account's two ids apart.
Identity == Account \X {"aci", "pni"}
ALL == 0          \* "*" in the request

VARIABLES
  keys,            \* keys[id][deviceId]: pre-keys left, for devices that
                   \* uploaded some
  identityKey,     \* identityKey[id]: upload it came with, or 0
  signedPreKey,    \* signedPreKey[id][deviceId]: upload it came with, or 0
  stores,          \* tasks putKeys2
  gets,            \* tasks getKeys2
  uploads, queries, \* numbers of uploads and of queries so far
  answers          \* history: the devices in the answers to queries

vars == <<keys, identityKey, signedPreKey, stores, gets, uploads, queries, answers>>

PreKey == [keyId : KeyId, upload : 1..MaxUploads]

Init ==
  /\ keys = [id \in Identity |-> <<>>]
  /\ identityKey = [id \in Identity |-> 0]
  /\ signedPreKey = [id \in Identity |-> [d \in DeviceId |-> 0]]
  /\ stores = {} /\ gets = {}
  /\ uploads = 0 /\ queries = 0 /\ answers = {}

\* Mutant: the signed pre-key is not updated.
PutKeysUnsigned(id, deviceId, keyIds) ==
  /\ uploads < MaxUploads
  /\ uploads' = uploads + 1
  /\ identityKey' = [identityKey EXCEPT ![id] = uploads + 1]
  /\ stores' = stores \cup {[id |-> id, deviceId |-> deviceId,
                             preKeys |-> [keyId : keyIds, upload : {uploads + 1}]]}
  /\ UNCHANGED <<keys, signedPreKey, gets, queries, answers>>

\* putKeysAci, putKeysPni: identity key and signed pre-key now, the rest later.
PutKeys(id, deviceId, keyIds) ==
  /\ uploads < MaxUploads
  /\ uploads' = uploads + 1
  /\ identityKey' = [identityKey EXCEPT ![id] = uploads + 1]
  /\ signedPreKey' = [signedPreKey EXCEPT ![id][deviceId] = uploads + 1]
  /\ stores' = stores \cup {[id |-> id, deviceId |-> deviceId,
                             preKeys |-> [keyId : keyIds, upload : {uploads + 1}]]}
  /\ UNCHANGED <<keys, gets, queries, answers>>

\* KEYS_SERVER->store(): the new keys replace what the device had left.
Store(id, deviceId, preKeys) ==
  [d \in DOMAIN keys[id] \cup {deviceId} |->
     IF d = deviceId THEN preKeys ELSE keys[id][d]]

PutKeys2(t) ==
  /\ t \in stores
  /\ stores' = stores \ {t}
  /\ keys' = [keys EXCEPT ![t.id] = Store(t.id, t.deviceId, t.preKeys)]
  /\ UNCHANGED <<identityKey, signedPreKey, gets, uploads, queries, answers>>

\* putKeysSignedAci: a new signed pre-key alone.
PutKeysSignedAci(account, deviceId) ==
  /\ uploads < MaxUploads
  /\ uploads' = uploads + 1
  /\ signedPreKey' = [signedPreKey EXCEPT ![<<account, "aci">>][deviceId] = uploads + 1]
  /\ UNCHANGED <<keys, identityKey, stores, gets, queries, answers>>

GetKeys(id, deviceId) ==
  /\ queries < MaxQueries
  /\ queries' = queries + 1
  /\ gets' = gets \cup {[query |-> queries + 1, id |-> id, deviceId |-> deviceId]}
  /\ UNCHANGED <<keys, identityKey, signedPreKey, stores, uploads, answers>>

\* map_indices() is sorted: the key with the lowest id is taken.
First(preKeys) ==
  CHOOSE k \in preKeys : \A other \in preKeys : k.keyId <= other.keyId

\* Mutant: the keys that are given away stay.
TakeNothing(id, devices) == keys[id]

\* takeKey(), takeKeys(): what is left after one key of each device is taken.
Take(id, devices) ==
  [d \in DOMAIN keys[id] |->
     IF d \in devices THEN keys[id][d] \ {First(keys[id][d])} ELSE keys[id][d]]

\* An identity that is no account id, an account without keys, and a single
\* device without a key left are errors: nothing is taken, nothing answered.
\* Of all devices, those without a key left are passed over.
GetKeys2(t) ==
  LET asked == {d \in DOMAIN keys[t.id] : t.deviceId \in {ALL, d}}
      devices == {d \in asked : keys[t.id][d] # {}}
  IN
  /\ t \in gets
  /\ gets' = gets \ {t}
  /\ IF /\ t.id[2] = "aci"
        /\ DOMAIN keys[t.id] # {}
        /\ t.deviceId # ALL => devices # {}
     THEN /\ keys' = [keys EXCEPT ![t.id] = Take(t.id, devices)]
          /\ answers' = answers \cup
               {[query |-> t.query, id |-> t.id, deviceId |-> d,
                 identityKey |-> identityKey[t.id],
                 signedPreKey |-> signedPreKey[t.id][d],
                 preKey |-> First(keys[t.id][d])] : d \in devices}
     ELSE UNCHANGED <<keys, answers>>
  /\ UNCHANGED <<identityKey, signedPreKey, stores, uploads, queries>>

\* A connection ends between two parts of its request.
Disconnected(t) ==
  /\ t \in stores \cup gets
  /\ stores' = stores \ {t}
  /\ gets' = gets \ {t}
  /\ UNCHANGED <<keys, identityKey, signedPreKey, uploads, queries, answers>>

Next ==
  \/ \E id \in Identity, d \in DeviceId :
       \E keyIds \in SUBSET KeyId : PutKeys(id, d, keyIds)
  \/ \E a \in Account, d \in DeviceId : PutKeysSignedAci(a, d)
  \/ \E id \in Identity, d \in DeviceId \cup {ALL} : GetKeys(id, d)
  \/ \E t \in stores : PutKeys2(t)
  \/ \E t \in gets : GetKeys2(t)
  \/ \E t \in stores \cup gets : Disconnected(t)

Spec == Init /\ [][Next]_vars

(***************************************************************************)
(* Properties                                                              *)
(***************************************************************************)

\* Type invariant; the key ids of a device's pre-keys are distinct, since the
\* mapping in sys/keys.c has the key id as its index.
TypeOK ==
  /\ \A id \in Identity :
       /\ DOMAIN keys[id] \subseteq DeviceId
       /\ \A d \in DOMAIN keys[id] :
            /\ keys[id][d] \subseteq PreKey
            /\ \A j, k \in keys[id][d] : j.keyId = k.keyId => j = k
  /\ identityKey \in [Identity -> 0..MaxUploads]
  /\ signedPreKey \in [Identity -> [DeviceId -> 0..MaxUploads]]
  /\ stores \subseteq [id : Identity, deviceId : DeviceId, preKeys : SUBSET PreKey]
  /\ gets \subseteq [query : 1..MaxQueries, id : Identity, deviceId : DeviceId \cup {ALL}]
  /\ uploads \in 0..MaxUploads /\ queries \in 0..MaxQueries

\* A one-time pre-key is given to one sender only, and is then neither in the
\* key server nor in a list that is still to be stored: sys/keys.c takeKey() and
\* takeKeys() remove what they return, and no list is stored twice.
OneTimeKeys ==
  \A x \in answers :
    /\ \A y \in answers :
         <<x.id, x.deviceId, x.preKey>> = <<y.id, y.deviceId, y.preKey>> => x = y
    /\ x.preKey \notin keys[x.id][x.deviceId]
    /\ \A t \in stores : <<t.id, t.deviceId>> = <<x.id, x.deviceId>> => x.preKey \notin t.preKeys

\* A sender never gets a pre-key that is newer than the identity key and the
\* signed pre-key it comes with: Keys.c stores those two before it queues
\* putKeys2().  (They can be newer than the pre-key.)
SignedKeysFirst ==
  \A x \in answers :
    x.preKey.upload <= x.signedPreKey /\ x.preKey.upload <= x.identityKey

\* What a sender gets is for it alone, and fits together.
KeysFit == OneTimeKeys /\ SignedKeysFirst
=============================================================================
