------------------------------ MODULE KeysProofs ------------------------------
(***************************************************************************)
(* Proofs of the properties of Keys, for any number of accounts, devices,  *)
(* key ids, uploads and queries.                                           *)
(***************************************************************************)
EXTENDS Keys, WellFoundedInduction, TLAPS

(***************************************************************************)
(* The inductive invariant                                                 *)
(***************************************************************************)

\* The key server has a mapping for every identity.
KeysShape == keys = [id \in Identity |-> keys[id]]

\* Pre-keys, stored or to be stored, are not newer than the keys in the account.
NotNewer ==
  /\ \A id \in Identity : \A d \in DOMAIN keys[id] : \A k \in keys[id][d] :
       k.upload <= identityKey[id] /\ k.upload <= signedPreKey[id][d]
  /\ \A t \in stores : \A k \in t.preKeys :
       k.upload <= identityKey[t.id] /\ k.upload <= signedPreKey[t.id][t.deviceId]
  /\ \A id \in Identity : identityKey[id] <= uploads

\* A pre-key is in one list: no two tasks have it, and none that the server has.
ListsDiffer ==
  /\ \A t, u \in stores : \A k \in t.preKeys : k \in u.preKeys => t = u
  /\ \A t \in stores : t.deviceId \in DOMAIN keys[t.id] =>
       \A k \in t.preKeys : k \notin keys[t.id][t.deviceId]
  /\ \A t \in stores : \A j, k \in t.preKeys : j.keyId = k.keyId => j = k

\* An answer is about a device that has a mapping in the key server, and its
\* pre-key was uploaded.
AnswersShape ==
  \A x \in answers :
    /\ x.id \in Identity /\ x.deviceId \in DOMAIN keys[x.id]
    /\ x.preKey \in PreKey /\ x.preKey.upload <= uploads

Inv ==
  /\ TypeOK
  /\ KeysShape
  /\ NotNewer
  /\ ListsDiffer
  /\ AnswersShape
  /\ OneTimeKeys
  /\ SignedKeysFirst

(***************************************************************************)
(* Lemmas about the operators                                              *)
(***************************************************************************)

\* takeKey() takes a key that the device has: map_indices() has a first element.
LEMMA FirstIsMember ==
  ASSUME ConstantsOK, NEW S \in SUBSET PreKey, S # {}
  PROVE  First(S) \in S
<1>1. PICK smallest \in KeyId : \A k \in KeyId : smallest <= k
  BY DEF ConstantsOK
<1> DEFINE T == {k.keyId - smallest : k \in S}
<1>2. \A k \in S : k.keyId \in KeyId /\ k.keyId \in Int
  BY DEF PreKey, ConstantsOK
<1>3. smallest \in Int
  BY DEF ConstantsOK
<1>4. T \subseteq Nat /\ T # {}
  BY <1>1, <1>2, <1>3
<1>5. PICK m \in T : \A n \in T : ~ (<<n, m>> \in OpToRel(<, Nat))
  <2> HIDE DEF T
  <2> QED
    BY <1>4, NatLessThanWellFounded, WFMin
<1>6. \A n \in T : m <= n
  <2> SUFFICES ASSUME NEW n \in T PROVE m <= n
    OBVIOUS
  <2>1. ~ (n < m)
    BY <1>4, <1>5 DEF OpToRel
  <2>2. n \in Nat /\ m \in Nat
    BY <1>4
  <2> HIDE DEF T
  <2> QED
    BY <2>1, <2>2
<1>7. PICK k \in S : m = k.keyId - smallest
  OBVIOUS
<1>8. \A other \in S : k.keyId <= other.keyId
  <2> SUFFICES ASSUME NEW other \in S PROVE k.keyId <= other.keyId
    OBVIOUS
  <2>1. m <= other.keyId - smallest
    BY <1>6
  <2>2. k.keyId \in Int /\ other.keyId \in Int
    BY <1>2
  <2> HIDE DEF T
  <2> QED
    BY <1>3, <1>7, <2>1, <2>2
<1> QED
  BY <1>8 DEF First

\* At the start there are no keys.
LEMMA InvInit == ASSUME ConstantsOK PROVE Init => Inv
<1> SUFFICES ASSUME Init PROVE Inv
  OBVIOUS
<1>1. \A id \in Identity : keys[id] = <<>> /\ DOMAIN keys[id] = {}
  BY DEF Init
<1>2. TypeOK
  BY <1>1 DEF Init, TypeOK, ConstantsOK
<1>3. KeysShape /\ NotNewer /\ ListsDiffer /\ AnswersShape /\ OneTimeKeys /\ SignedKeysFirst
  BY <1>1 DEF Init, KeysShape, NotNewer, ListsDiffer, AnswersShape, OneTimeKeys,
               SignedKeysFirst
<1> QED
  BY <1>2, <1>3 DEF Inv

\* Every pre-key that is stored or waits to be stored was uploaded.
LEMMA Uploaded ==
  ASSUME ConstantsOK, Inv
  PROVE  /\ \A id \in Identity : \A d \in DOMAIN keys[id] : \A k \in keys[id][d] :
              k \in PreKey /\ k.upload \in Nat /\ k.upload <= uploads
         /\ \A t \in stores : \A k \in t.preKeys :
              k \in PreKey /\ k.upload \in Nat /\ k.upload <= uploads
<1>1. uploads \in Nat /\ \A id \in Identity : identityKey[id] \in Nat /\ identityKey[id] <= uploads
  BY DEF Inv, TypeOK, NotNewer, ConstantsOK
<1>2. \A k \in PreKey : k.upload \in Nat
  BY DEF PreKey
<1>3. \A t \in stores : t.id \in Identity /\ t.preKeys \subseteq PreKey
  BY DEF Inv, TypeOK
<1>4. \A id \in Identity : \A d \in DOMAIN keys[id] : keys[id][d] \subseteq PreKey
  BY DEF Inv, TypeOK
<1> QED
  BY <1>1, <1>2, <1>3, <1>4 DEF Inv, NotNewer

(***************************************************************************)
(* Every step keeps the invariant                                          *)
(***************************************************************************)

\* putKeysAci(), putKeysPni(): a task with new pre-keys.
LEMMA InvPutKeys ==
  ASSUME ConstantsOK, Inv, NEW id \in Identity, NEW deviceId \in DeviceId,
         NEW keyIds \in SUBSET KeyId, PutKeys(id, deviceId, keyIds)
  PROVE  Inv'
<1> DEFINE list == [keyId : keyIds, upload : {uploads + 1}]
           new == [id |-> id, deviceId |-> deviceId, preKeys |-> list]
<1>1. uploads \in Nat /\ uploads' = uploads + 1 /\ uploads + 1 \in 1..MaxUploads
  BY DEF PutKeys, Inv, TypeOK, ConstantsOK
<1>2. /\ identityKey' = [identityKey EXCEPT ![id] = uploads + 1]
      /\ signedPreKey' = [signedPreKey EXCEPT ![id][deviceId] = uploads + 1]
      /\ stores' = stores \cup {new}
      /\ UNCHANGED <<keys, gets, queries, answers>>
  BY DEF PutKeys
<1>3. /\ list \subseteq PreKey
      /\ \A k \in list : k.upload = uploads + 1
      /\ \A j, k \in list : j.keyId = k.keyId => j = k
  BY <1>1 DEF PreKey
<1> HIDE DEF list
<1>4. /\ new \in [id : Identity, deviceId : DeviceId, preKeys : SUBSET PreKey]
      /\ new.id = id /\ new.deviceId = deviceId /\ new.preKeys = list
  BY <1>3
<1> HIDE DEF new
<1>5. TypeOK'
  <2>1. identityKey' \in [Identity -> 0..MaxUploads]
    BY <1>1, <1>2 DEF Inv, TypeOK
  <2>2. signedPreKey' \in [Identity -> [DeviceId -> 0..MaxUploads]]
    BY <1>1, <1>2 DEF Inv, TypeOK
  <2> QED
    BY <1>1, <1>2, <1>4, <2>1, <2>2 DEF Inv, TypeOK
<1>6. KeysShape'
  BY <1>2 DEF Inv, KeysShape
\* Pre-keys that were there are older than the keys of this upload.
<1>7. \A i \in Identity : identityKey[i] \in Nat /\ identityKey[i] <= uploads
                          /\ \A d \in DeviceId : signedPreKey[i][d] \in Nat
  BY DEF Inv, TypeOK, NotNewer
<1>8. /\ \A i \in Identity : identityKey'[i] = IF i = id THEN uploads + 1 ELSE identityKey[i]
      /\ \A i \in Identity, d \in DeviceId :
           signedPreKey'[i][d] = IF i = id /\ d = deviceId THEN uploads + 1
                                                           ELSE signedPreKey[i][d]
  BY <1>2 DEF Inv, TypeOK
<1>9. \A t \in stores : t.id \in Identity /\ t.deviceId \in DeviceId
  BY DEF Inv, TypeOK
<1>10. \A i \in Identity : DOMAIN keys[i] \subseteq DeviceId
  BY DEF Inv, TypeOK
<1>11. NotNewer'
  <2>1. \A i \in Identity : \A d \in DOMAIN keys[i] : \A k \in keys[i][d] :
          k.upload <= identityKey'[i] /\ k.upload <= signedPreKey'[i][d]
    BY <1>1, <1>7, <1>8, <1>10, Uploaded DEF Inv, NotNewer
  <2>2. \A t \in stores : \A k \in t.preKeys :
          k.upload <= identityKey'[t.id] /\ k.upload <= signedPreKey'[t.id][t.deviceId]
    BY <1>1, <1>7, <1>8, <1>9, Uploaded DEF Inv, NotNewer
  <2>3. \A k \in new.preKeys :
          k.upload <= identityKey'[new.id] /\ k.upload <= signedPreKey'[new.id][new.deviceId]
    BY <1>1, <1>3, <1>4, <1>8
  <2>4. \A i \in Identity : identityKey'[i] <= uploads'
    BY <1>1, <1>7, <1>8
  <2> QED
    BY <1>2, <2>1, <2>2, <2>3, <2>4 DEF NotNewer
\* They are not on the new list.
<1>12. /\ \A t \in stores : \A k \in t.preKeys : k \notin list
       /\ \A i \in Identity : \A d \in DOMAIN keys[i] : \A k \in list : k \notin keys[i][d]
       /\ \A x \in answers : x.preKey \notin list
  <2>1. \A k \in list : ~ (k.upload <= uploads)
    BY <1>1, <1>3
  <2> QED
    BY <2>1, Uploaded DEF Inv, AnswersShape
<1>13. ListsDiffer'
  BY <1>2, <1>3, <1>4, <1>12 DEF Inv, ListsDiffer
<1>14. AnswersShape'
  BY <1>1, <1>2 DEF Inv, AnswersShape, PreKey
<1>15. OneTimeKeys'
  BY <1>2, <1>4, <1>12 DEF Inv, OneTimeKeys
<1>16. SignedKeysFirst'
  BY <1>2 DEF Inv, SignedKeysFirst
<1> QED
  BY <1>5, <1>6, <1>11, <1>13, <1>14, <1>15, <1>16 DEF Inv

\* putKeysSignedAci(): a newer signed pre-key.
LEMMA InvPutKeysSignedAci ==
  ASSUME ConstantsOK, Inv, NEW account \in Account, NEW deviceId \in DeviceId,
         PutKeysSignedAci(account, deviceId)
  PROVE  Inv'
<1> DEFINE id == <<account, "aci">>
<1>1. uploads \in Nat /\ uploads' = uploads + 1 /\ uploads + 1 \in 1..MaxUploads
  BY DEF PutKeysSignedAci, Inv, TypeOK, ConstantsOK
<1>2. /\ signedPreKey' = [signedPreKey EXCEPT ![id][deviceId] = uploads + 1]
      /\ UNCHANGED <<keys, identityKey, stores, gets, queries, answers>>
  BY DEF PutKeysSignedAci
<1>3. id \in Identity
  BY DEF Identity
<1> HIDE DEF id
<1>4. signedPreKey' \in [Identity -> [DeviceId -> 0..MaxUploads]]
  BY <1>1, <1>2, <1>3 DEF Inv, TypeOK
<1>5. TypeOK'
  BY <1>1, <1>2, <1>4 DEF Inv, TypeOK
<1>6. \A i \in Identity, d \in DeviceId :
        /\ signedPreKey[i][d] \in Nat
        /\ signedPreKey'[i][d] = IF i = id /\ d = deviceId THEN uploads + 1
                                                           ELSE signedPreKey[i][d]
  BY <1>2, <1>3 DEF Inv, TypeOK
<1>7. \A t \in stores : t.id \in Identity /\ t.deviceId \in DeviceId
  BY DEF Inv, TypeOK
<1>8. \A i \in Identity : DOMAIN keys[i] \subseteq DeviceId /\ identityKey[i] \in Nat
  BY DEF Inv, TypeOK
<1>9. NotNewer'
  <2>1. \A i \in Identity : \A d \in DOMAIN keys[i] : \A k \in keys[i][d] :
          k.upload <= identityKey[i] /\ k.upload <= signedPreKey'[i][d]
    BY <1>1, <1>6, <1>8, Uploaded DEF Inv, NotNewer
  <2>2. \A t \in stores : \A k \in t.preKeys :
          k.upload <= identityKey[t.id] /\ k.upload <= signedPreKey'[t.id][t.deviceId]
    BY <1>1, <1>6, <1>7, Uploaded DEF Inv, NotNewer
  <2>3. \A i \in Identity : identityKey[i] <= uploads'
    BY <1>1, <1>8 DEF Inv, NotNewer
  <2> QED
    BY <1>2, <2>1, <2>2, <2>3 DEF NotNewer
<1>10. AnswersShape'
  BY <1>1, <1>2 DEF Inv, AnswersShape, PreKey
<1>11. KeysShape' /\ ListsDiffer' /\ OneTimeKeys' /\ SignedKeysFirst'
  BY <1>2 DEF Inv, KeysShape, ListsDiffer, OneTimeKeys, SignedKeysFirst
<1> QED
  BY <1>5, <1>9, <1>10, <1>11 DEF Inv

\* putKeys2(), KEYS_SERVER->store(): the list of the task replaces that of the device.
LEMMA InvPutKeys2 ==
  ASSUME ConstantsOK, Inv, NEW t \in stores, PutKeys2(t)
  PROVE  Inv'
<1> DEFINE map == Store(t.id, t.deviceId, t.preKeys)
<1>1. t.id \in Identity /\ t.deviceId \in DeviceId /\ t.preKeys \subseteq PreKey
  BY DEF Inv, TypeOK
<1>2. /\ DOMAIN map = DOMAIN keys[t.id] \cup {t.deviceId}
      /\ map[t.deviceId] = t.preKeys
      /\ \A d \in DOMAIN map \ {t.deviceId} : d \in DOMAIN keys[t.id] /\ map[d] = keys[t.id][d]
  BY DEF Store
<1>3. keys' = [keys EXCEPT ![t.id] = map]
  BY DEF PutKeys2
<1>4. /\ stores' = stores \ {t}
      /\ UNCHANGED <<identityKey, signedPreKey, gets, uploads, queries, answers>>
  BY DEF PutKeys2
<1> HIDE DEF map
<1>5. /\ KeysShape'
      /\ keys'[t.id] = map
      /\ \A i \in Identity \ {t.id} : keys'[i] = keys[i]
  BY <1>1, <1>3 DEF Inv, KeysShape
\* A list in the key server is that of the task, or was there before.
<1>6. ASSUME NEW i \in Identity, NEW d \in DOMAIN keys'[i]
      PROVE  \/ i = t.id /\ d = t.deviceId /\ keys'[i][d] = t.preKeys
             \/ d \in DOMAIN keys[i] /\ keys'[i][d] = keys[i][d]
                /\ <<i, d>> # <<t.id, t.deviceId>>
  BY <1>2, <1>5
<1>7. \A i \in Identity : \A d \in DOMAIN keys[i] : d \in DOMAIN keys'[i]
  BY <1>2, <1>5
<1>8. TypeOK'
  <2> SUFFICES ASSUME NEW i \in Identity
               PROVE  /\ DOMAIN keys'[i] \subseteq DeviceId
                      /\ \A d \in DOMAIN keys'[i] :
                           /\ keys'[i][d] \subseteq PreKey
                           /\ \A j, k \in keys'[i][d] : j.keyId = k.keyId => j = k
    BY <1>4 DEF Inv, TypeOK
  <2> QED
    BY <1>1, <1>6 DEF Inv, TypeOK, ListsDiffer
<1>9. NotNewer'
  <2>1. \A i \in Identity : \A d \in DOMAIN keys'[i] : \A k \in keys'[i][d] :
          k.upload <= identityKey[i] /\ k.upload <= signedPreKey[i][d]
    BY <1>6 DEF Inv, NotNewer
  <2> QED
    BY <1>4, <2>1 DEF Inv, NotNewer
<1>10. ListsDiffer'
  <2>1. \A u \in stores' : u.deviceId \in DOMAIN keys'[u.id] =>
          \A k \in u.preKeys : k \notin keys'[u.id][u.deviceId]
    <3> SUFFICES ASSUME NEW u \in stores', u.deviceId \in DOMAIN keys'[u.id],
                        NEW k \in u.preKeys
                 PROVE  k \notin keys'[u.id][u.deviceId]
      OBVIOUS
    <3>1. u \in stores /\ u # t /\ u.id \in Identity
      BY <1>4 DEF Inv, TypeOK
    <3>2. k \notin t.preKeys
      BY <3>1 DEF Inv, ListsDiffer
    <3> QED
      BY <1>6, <3>1, <3>2 DEF Inv, ListsDiffer
  <2> QED
    BY <1>4, <2>1 DEF Inv, ListsDiffer
<1>11. AnswersShape'
  BY <1>4, <1>7 DEF Inv, AnswersShape
<1>12. OneTimeKeys'
  <2>1. \A x \in answers : x.preKey \notin keys'[x.id][x.deviceId]
    <3> SUFFICES ASSUME NEW x \in answers PROVE x.preKey \notin keys'[x.id][x.deviceId]
      OBVIOUS
    <3>1. x.id \in Identity /\ x.deviceId \in DOMAIN keys'[x.id]
      BY <1>7 DEF Inv, AnswersShape
    <3>2. <<t.id, t.deviceId>> = <<x.id, x.deviceId>> => x.preKey \notin t.preKeys
      BY DEF Inv, OneTimeKeys
    <3>3. x.preKey \notin keys[x.id][x.deviceId]
      BY DEF Inv, OneTimeKeys
    <3> QED
      BY <1>6, <3>1, <3>2, <3>3
  <2> QED
    BY <1>4, <2>1 DEF Inv, OneTimeKeys
<1>13. SignedKeysFirst'
  BY <1>4 DEF Inv, SignedKeysFirst
<1> QED
  BY <1>5, <1>8, <1>9, <1>10, <1>11, <1>12, <1>13 DEF Inv

\* getKeys(): a query waits.
LEMMA InvGetKeys ==
  ASSUME ConstantsOK, Inv, NEW id \in Identity, NEW deviceId \in DeviceId \cup {ALL},
         GetKeys(id, deviceId)
  PROVE  Inv'
<1>1. UNCHANGED <<keys, identityKey, signedPreKey, stores, uploads, answers>>
  BY DEF GetKeys
<1>2. /\ queries' \in 0..MaxQueries
      /\ gets' \subseteq [query : 1..MaxQueries, id : Identity, deviceId : DeviceId \cup {ALL}]
  BY DEF GetKeys, Inv, TypeOK, ConstantsOK
<1>3. TypeOK'
  BY <1>1, <1>2 DEF Inv, TypeOK
<1> QED
  BY <1>1, <1>3 DEF Inv, KeysShape, NotNewer, ListsDiffer, AnswersShape, OneTimeKeys,
                     SignedKeysFirst

\* getKeys2(): what is given away is taken from the lists of the devices.
LEMMA InvGetKeys2 ==
  ASSUME ConstantsOK, Inv, NEW t \in gets, GetKeys2(t)
  PROVE  Inv'
<1> DEFINE id == t.id
           asked == {d \in DOMAIN keys[id] : t.deviceId \in {ALL, d}}
           devices == {d \in asked : keys[id][d] # {}}
           given == /\ id[2] = "aci"
                    /\ DOMAIN keys[id] # {}
                    /\ t.deviceId # ALL => devices # {}
           answer(d) == [query |-> t.query, id |-> id, deviceId |-> d,
                         identityKey |-> identityKey[id],
                         signedPreKey |-> signedPreKey[id][d],
                         preKey |-> First(keys[id][d])]
<1>1. /\ gets' = gets \ {t}
      /\ IF given
         THEN /\ keys' = [keys EXCEPT ![id] = Take(id, devices)]
              /\ answers' = answers \cup {answer(d) : d \in devices}
         ELSE UNCHANGED <<keys, answers>>
      /\ UNCHANGED <<identityKey, signedPreKey, stores, uploads, queries>>
  BY DEF GetKeys2
<1>2. id \in Identity
  BY DEF Inv, TypeOK
<1>3. CASE ~ given
  <2>1. UNCHANGED <<keys, answers>>
    BY <1>1, <1>3
  <2>2. TypeOK'
    BY <1>1, <2>1 DEF Inv, TypeOK
  <2> QED
    BY <1>1, <2>1, <2>2 DEF Inv, KeysShape, NotNewer, ListsDiffer, AnswersShape,
                            OneTimeKeys, SignedKeysFirst
<1>4. CASE given
  <2> DEFINE map == Take(id, devices)
             first(d) == First(keys[id][d])
  <2>1. devices \subseteq DOMAIN keys[id] /\ \A d \in devices : keys[id][d] # {}
    OBVIOUS
  <2>2. /\ DOMAIN map = DOMAIN keys[id]
        /\ \A d \in devices : map[d] = keys[id][d] \ {first(d)}
        /\ \A d \in DOMAIN map \ devices : map[d] = keys[id][d]
    BY <2>1 DEF Take
  <2>3. keys' = [keys EXCEPT ![id] = map] /\ answers' = answers \cup {answer(d) : d \in devices}
    BY <1>1, <1>4
  <2>4. \A d \in devices : first(d) \in keys[id][d] /\ first(d) \in PreKey
    BY <1>2, <2>1, FirstIsMember DEF Inv, TypeOK
  <2>5. \A d \in devices :
          /\ answer(d).id = id /\ answer(d).deviceId = d /\ answer(d).preKey = first(d)
          /\ answer(d).identityKey = identityKey[id]
          /\ answer(d).signedPreKey = signedPreKey[id][d]
    OBVIOUS
  <2> HIDE DEF map, first, answer, devices
  <2>6. /\ KeysShape'
        /\ keys'[id] = map
        /\ \A i \in Identity \ {id} : keys'[i] = keys[i]
    BY <1>2, <2>3 DEF Inv, KeysShape
  \* The devices that have a list stay the same, and lists only get shorter.
  <2>7. \A i \in Identity : DOMAIN keys'[i] = DOMAIN keys[i]
                            /\ \A d \in DOMAIN keys[i] : keys'[i][d] \subseteq keys[i][d]
    BY <2>1, <2>2, <2>6
  <2>8. TypeOK'
    <3> SUFFICES ASSUME NEW i \in Identity
                 PROVE  /\ DOMAIN keys'[i] \subseteq DeviceId
                        /\ \A d \in DOMAIN keys'[i] :
                             /\ keys'[i][d] \subseteq PreKey
                             /\ \A j, k \in keys'[i][d] : j.keyId = k.keyId => j = k
      BY <1>1 DEF Inv, TypeOK
    <3> QED
      BY <2>7 DEF Inv, TypeOK
  <2>9. NotNewer'
    <3>1. \A i \in Identity : \A d \in DOMAIN keys'[i] : \A k \in keys'[i][d] :
            k.upload <= identityKey[i] /\ k.upload <= signedPreKey[i][d]
      BY <2>7 DEF Inv, NotNewer
    <3> QED
      BY <1>1, <3>1 DEF Inv, NotNewer
  <2>10. ListsDiffer'
    <3>1. \A u \in stores : u.id \in Identity
      BY DEF Inv, TypeOK
    <3> QED
      BY <1>1, <2>7, <3>1 DEF Inv, ListsDiffer
  <2>11. AnswersShape'
    <3>1. \A d \in devices : first(d).upload <= uploads
      BY <1>2, <2>1, <2>4, Uploaded
    <3> QED
      BY <1>1, <1>2, <2>1, <2>3, <2>4, <2>5, <2>7, <3>1 DEF Inv, AnswersShape
  <2>12. OneTimeKeys'
    \* A pre-key that is given away now was still there, so it was not given before.
    <3>1. \A x \in answers, d \in devices :
            <<x.id, x.deviceId, x.preKey>> # <<id, d, first(d)>>
      BY <2>4 DEF Inv, OneTimeKeys
    <3>2. \A x, y \in answers' :
            <<x.id, x.deviceId, x.preKey>> = <<y.id, y.deviceId, y.preKey>> => x = y
      <4>1. \A x, y \in answers :
              <<x.id, x.deviceId, x.preKey>> = <<y.id, y.deviceId, y.preKey>> => x = y
        BY DEF Inv, OneTimeKeys
      <4> QED
        BY <2>3, <2>5, <3>1, <4>1
    <3>3. \A x \in answers' : x.preKey \notin keys'[x.id][x.deviceId]
      <4>1. \A x \in answers : x.preKey \notin keys'[x.id][x.deviceId]
        BY <2>7 DEF Inv, OneTimeKeys, AnswersShape
      <4>2. \A d \in devices : first(d) \notin keys'[id][d]
        BY <2>2, <2>6
      <4> QED
        BY <2>3, <2>5, <4>1, <4>2
    <3>4. \A x \in answers' : \A u \in stores' :
            <<u.id, u.deviceId>> = <<x.id, x.deviceId>> => x.preKey \notin u.preKeys
      <4>1. \A x \in answers : \A u \in stores :
              <<u.id, u.deviceId>> = <<x.id, x.deviceId>> => x.preKey \notin u.preKeys
        BY DEF Inv, OneTimeKeys
      <4>2. \A d \in devices : \A u \in stores :
              <<u.id, u.deviceId>> = <<id, d>> => first(d) \notin u.preKeys
        BY <2>1, <2>4 DEF Inv, ListsDiffer
      <4> QED
        BY <1>1, <2>3, <2>5, <4>1, <4>2
    <3> QED
      BY <3>2, <3>3, <3>4 DEF OneTimeKeys
  <2>13. SignedKeysFirst'
    <3>1. \A d \in devices : first(d).upload <= signedPreKey[id][d]
                             /\ first(d).upload <= identityKey[id]
      BY <1>2, <2>1, <2>4 DEF Inv, NotNewer
    <3> QED
      BY <2>3, <2>5, <3>1 DEF Inv, SignedKeysFirst
  <2> QED
    BY <2>6, <2>8, <2>9, <2>10, <2>11, <2>12, <2>13 DEF Inv
<1> QED
  BY <1>3, <1>4

\* Tasks that end with their connection change nothing else.
LEMMA InvDropped ==
  ASSUME Inv, stores' \subseteq stores, gets' \subseteq gets,
         UNCHANGED <<keys, identityKey, signedPreKey, uploads, queries, answers>>
  PROVE  Inv'
<1>1. TypeOK'
  BY DEF Inv, TypeOK
<1> QED
  BY <1>1 DEF Inv, KeysShape, NotNewer, ListsDiffer, AnswersShape, OneTimeKeys,
              SignedKeysFirst

\* Inv is inductive.
LEMMA InvStep == ASSUME ConstantsOK PROVE Inv /\ [Next]_vars => Inv'
<1> SUFFICES ASSUME Inv, [Next]_vars PROVE Inv'
  OBVIOUS
<1>1. ASSUME NEW id \in Identity, NEW d \in DeviceId, NEW keyIds \in SUBSET KeyId,
             PutKeys(id, d, keyIds)
      PROVE  Inv'
  BY <1>1, InvPutKeys
<1>2. ASSUME NEW a \in Account, NEW d \in DeviceId, PutKeysSignedAci(a, d) PROVE Inv'
  BY <1>2, InvPutKeysSignedAci
<1>3. ASSUME NEW id \in Identity, NEW d \in DeviceId \cup {ALL}, GetKeys(id, d) PROVE Inv'
  BY <1>3, InvGetKeys
<1>4. ASSUME NEW t \in stores, PutKeys2(t) PROVE Inv'
  BY <1>4, InvPutKeys2
<1>5. ASSUME NEW t \in gets, GetKeys2(t) PROVE Inv'
  BY <1>5, InvGetKeys2
<1>6. ASSUME NEW t \in stores \cup gets, Disconnected(t) PROVE Inv'
  BY <1>6, InvDropped DEF Disconnected
<1>7. CASE UNCHANGED vars
  BY <1>7, InvDropped DEF vars
<1> QED
  BY <1>1, <1>2, <1>3, <1>4, <1>5, <1>6, <1>7 DEF Next

(***************************************************************************)
(* The theorems                                                            *)
(***************************************************************************)

\* Type correctness; a device never has two pre-keys with the same id.
THEOREM TypeCorrect == ASSUME ConstantsOK PROVE Spec => []TypeOK
<1>1. Inv => TypeOK
  BY DEF Inv
<1>2. Init => Inv
  BY InvInit
<1>3. Inv /\ [Next]_vars => Inv'
  BY InvStep
<1> QED
  BY <1>1, <1>2, <1>3, PTL DEF Spec

\* However uploads and queries interleave between their two parts, sys/keys.c
\* gives a one-time pre-key away at most once, and chat/Keys.c never gives one
\* with an identity key or signed pre-key that is older.
THEOREM KeysAlwaysFit == ASSUME ConstantsOK PROVE Spec => []KeysFit
<1>1. Inv => KeysFit
  BY DEF Inv, KeysFit
<1>2. Init => Inv
  BY InvInit
<1>3. Inv /\ [Next]_vars => Inv'
  BY InvStep
<1> QED
  BY <1>1, <1>2, <1>3, PTL DEF Spec
===============================================================================
