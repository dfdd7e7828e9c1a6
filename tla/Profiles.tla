------------------------------- MODULE Profiles -------------------------------
(***************************************************************************)
(* The attributes of an account and of its devices, and profiles.          *)
(*                                                                         *)
(*   services/lib/chat/Accounts.c   attributes, gcm id                     *)
(*   services/lib/chat/Devices.c    capabilities of a device               *)
(*   services/lib/chat/Profile.c    profiles and profile key credentials   *)
(*   lib/Account.c, lib/Device.c    flags and capabilities, as bits        *)
(*   sys/profiles.c, lib/Profile.c  the store of profiles                  *)
(*                                                                         *)
(* There is one account, with its primary device 1 and a linked device 2.  *)
(* A bit mask is the set of the numbers of its bits.  A profile and other  *)
(* values that a client writes are the number of the write; credentials    *)
(* are the commitment that they are issued for (external: zero-knowledge   *)
(* proofs).                                                                *)
(***************************************************************************)
EXTENDS Integers, FiniteSets

CONSTANTS
  Version,        \* versions of profiles
  CapSets,        \* the sets of capabilities that clients announce
  GcmId,          \* ids for push messages
  MaxRequests     \* bound: requests

Devices == {1, 2}

Capability == {"announcementGroup", "changeNumber", "giftBadges", "paymentActivation",
               "pni", "senderKey", "storage", "stories", "uuid"}

\* What the proofs assume of the constants: clients announce capabilities that there
\* are, and a version, a string of hexadecimal digits, is none of the other keys below.
ConstantsOK ==
  /\ CapSets \subseteq SUBSET Capability
  /\ Version \cap {"device", "account"} = {}
  /\ MaxRequests \in Nat

VARIABLES
  device,         \* device[d]: its capabilities as bits, and the write they are from
  gcmId,          \* gcmId[d]; 0 for nil
  account,        \* the write that the attributes of the account are from
  profiles,       \* profiles[v]: content and commitment; no entry for nil
  tasks,          \* parts of requests that have yet to run
  requests,       \* number of requests
  writes          \* number of writes

\* History
VARIABLES
  announced,      \* announced[d]: what the clients said last: [fetches, caps]
  acknowledged,   \* by what is written: the latest write that was acknowledged
  answers         \* answers to requests for profiles

vars == <<device, gcmId, account, profiles, tasks, requests, writes, announced,
          acknowledged, answers>>

attributes == <<device, gcmId, account, announced>>

\* What is written: the attributes of device 1, those of the account, the profiles.
Key == {"device", "account"} \cup Version

\* A part of a request: its function; the keys that it writes and the number of the
\* write; the version that it is for; the acknowledged writes when the request came.
Task(fn, keys, write, version) ==
  [fn |-> fn, id |-> requests + 1, keys |-> keys, write |-> write, version |-> version,
   since |-> acknowledged]

Init ==
  /\ device = [d \in Devices |-> [bits |-> {}, write |-> 0]]
  /\ gcmId = [d \in Devices |-> 0]
  /\ account = 0
  /\ profiles = <<>>
  /\ tasks = {} /\ requests = 0 /\ writes = 0
  /\ announced = [d \in Devices |-> [fetches |-> FALSE, caps |-> {}]]
  /\ acknowledged = [k \in Key |-> 0]
  /\ answers = {}

Requested == requests < MaxRequests /\ requests' = requests + 1

\* A write is acknowledged.
Acknowledge(keys, write) ==
  acknowledged' = [k \in Key |-> IF k \in keys /\ write > acknowledged[k] THEN write
                                 ELSE acknowledged[k]]

(***************************************************************************)
(* Device.c, Account.c                                                     *)
(***************************************************************************)

FETCHES_MESSAGES == 0

\* The bits of the capabilities
Bit(c) ==
  CASE c = "announcementGroup" -> 1 [] c = "changeNumber" -> 2 [] c = "giftBadges" -> 3
    [] c = "paymentActivation" -> 4 [] c = "pni" -> 5 [] c = "senderKey" -> 6
    [] c = "storage" -> 7 [] c = "stories" -> 8 [] c = "uuid" -> 9

\* Mutant: bits that are not announced any more are not cleared.
UpdateCapabilitiesOr(bits, caps) == bits \cup {Bit(c) : c \in caps}

\* updateCapabilities()
UpdateCapabilities(bits, caps) == (bits \cap {FETCHES_MESSAGES}) \cup {Bit(c) : c \in caps}

\* update()
UpdateDevice(fetches, caps) ==
  UpdateCapabilities(IF fetches THEN {FETCHES_MESSAGES} ELSE {}, caps)

\* setFetchesMessages()
SetFetchesMessages(bits, fetches) ==
  (bits \ {FETCHES_MESSAGES}) \cup IF fetches THEN {FETCHES_MESSAGES} ELSE {}

\* fetchesMessages(), capPni() and the like
FetchesMessages(bits) == FETCHES_MESSAGES \in bits
Caps(bits) == {c \in Capability : Bit(c) \in bits}

(***************************************************************************)
(* Accounts.c, Devices.c                                                   *)
(***************************************************************************)

\* putAccountsAttributes() without unidentifiedAccessKey fails between the updates of
\* the device and of the account; there is no answer.
PutAccountsAttributes(d, fetches, caps, hasKey) ==
  /\ Requested
  /\ writes' = writes + 1
  /\ device' = [device EXCEPT ![d] = [bits |-> UpdateDevice(fetches, caps), write |-> writes']]
  /\ announced' = [announced EXCEPT ![d] = [fetches |-> fetches, caps |-> caps]]
  /\ IF hasKey
     THEN /\ account' = writes'
          /\ tasks' = tasks \cup
               {Task("respondJsonOK", {"account"} \cup IF d = 1 THEN {"device"} ELSE {},
                     writes', 0)}
     ELSE UNCHANGED <<account, tasks>>
  /\ UNCHANGED <<gcmId, profiles, acknowledged, answers>>

\* putDevicesCapabilities() answers at once; three capabilities are never set.
PutDevicesCapabilities(d, caps) ==
  LET kept == caps \ {"paymentActivation", "storage", "uuid"} IN
  /\ Requested
  /\ writes' = writes + 1
  /\ device' = [device EXCEPT ![d] = [bits |-> UpdateCapabilities(@.bits, kept),
                                      write |-> writes']]
  /\ announced' = [announced EXCEPT ![d].caps = kept]
  /\ Acknowledge(IF d = 1 THEN {"device"} ELSE {}, writes')
  /\ UNCHANGED <<gcmId, account, profiles, tasks, answers>>

\* putAccountsGcm(): a new id means that the device is pushed messages.
PutAccountsGcm(d, id) ==
  /\ Requested
  /\ gcmId' = [gcmId EXCEPT ![d] = id]
  /\ IF id # gcmId[d]
     THEN /\ device' = [device EXCEPT ![d].bits = SetFetchesMessages(@, FALSE)]
          /\ announced' = [announced EXCEPT ![d].fetches = FALSE]
     ELSE UNCHANGED <<device, announced>>
  /\ tasks' = tasks \cup {Task("respondJsonOK", {}, writes, 0)}
  /\ UNCHANGED <<account, profiles, writes, acknowledged, answers>>

\* respondJsonOK(), the last part of a request that writes
RespondJsonOK(t) ==
  /\ t \in tasks /\ t.fn = "respondJsonOK"
  /\ tasks' = tasks \ {t}
  /\ Acknowledge(t.keys, t.write)
  /\ UNCHANGED <<attributes, profiles, requests, writes, answers>>

(***************************************************************************)
(* Profile.c, sys/profiles.c                                               *)
(***************************************************************************)

NewProfile == [content |-> 0, commitment |-> 0]

\* PROFILE_SERVER->get(): reading a profile makes an empty one.
Got(v) ==
  [w \in DOMAIN profiles \cup {v} |-> IF w \in DOMAIN profiles THEN profiles[w] ELSE NewProfile]

\* Mutant: the commitment is set only once.
UpdateKeepsCommitment(profile, write) ==
  [content |-> write, commitment |-> IF profile.commitment # 0 THEN profile.commitment ELSE write]

\* Profile.c: update()
Update(profile, write) == [content |-> write, commitment |-> write]

\* Mutant: the answer is sent first.
PutProfileAnswersFirst(v, hasCommitment) ==
  /\ Requested
  /\ tasks' = tasks \cup
       (IF hasCommitment
        THEN {Task("putProfile2", {}, 0, v), Task("respondJsonOK", {v}, writes + 1, v)}
        ELSE {Task("putProfile2NoCommitment", {}, 0, v)})
  /\ UNCHANGED <<attributes, profiles, writes, acknowledged, answers>>

\* putProfile(): putProfile2() runs as a task of its own.
PutProfile(v, hasCommitment) ==
  /\ Requested
  /\ tasks' = tasks \cup
       {Task(IF hasCommitment THEN "putProfile2" ELSE "putProfile2NoCommitment", {}, 0, v)}
  /\ UNCHANGED <<attributes, profiles, writes, acknowledged, answers>>

\* putProfile2(): without commitment it fails when it has got the profile.
PutProfile2(t) ==
  /\ t \in tasks /\ t.fn \in {"putProfile2", "putProfile2NoCommitment"}
  /\ IF t.fn = "putProfile2"
     THEN /\ writes' = writes + 1
          /\ profiles' = [Got(t.version) EXCEPT ![t.version] = Update(@, writes')]
          /\ tasks' = (tasks \ {t}) \cup
               {[t EXCEPT !.fn = "respondJsonOK", !.keys = {t.version}, !.write = writes']}
     ELSE /\ profiles' = Got(t.version)
          /\ tasks' = tasks \ {t}
          /\ UNCHANGED writes
  /\ UNCHANGED <<attributes, requests, acknowledged, answers>>

\* getProfile(), getVersionedProfile(), getProfileKeyCredential()
GetProfile(fn, v) ==
  /\ Requested
  /\ tasks' = tasks \cup {Task(fn, {}, 0, v)}
  /\ UNCHANGED <<attributes, profiles, writes, acknowledged, answers>>

\* baseProfileResponse(), versionedProfileResponse(): the attributes of the account and
\* of its primary device, and the profile, each known by its write
Reply(t, content, credential) ==
  [fn |-> t.fn, version |-> t.version, since |-> t.since, device |-> device[1].write,
   account |-> account, content |-> content, credential |-> credential]

\* getProfile2()
GetProfile2(t) ==
  /\ t \in tasks /\ t.fn = "getProfile2"
  /\ tasks' = tasks \ {t}
  /\ answers' = answers \cup {Reply(t, 0, 0)}
  /\ UNCHANGED <<attributes, profiles, requests, writes, acknowledged>>

\* getVersionedProfile2()
GetVersionedProfile2(t) ==
  /\ t \in tasks /\ t.fn = "getVersionedProfile2"
  /\ tasks' = tasks \ {t}
  /\ profiles' = Got(t.version)
  /\ answers' = answers \cup {Reply(t, profiles'[t.version].content, 0)}
  /\ UNCHANGED <<attributes, requests, writes, acknowledged>>

\* RemoteProfileKeyCommitment: nil is an error.
HasCommitment(profile) == profile.commitment # 0

\* getProfileKeyCredential2(): a failure is not answered.
GetProfileKeyCredential2(t) ==
  /\ t \in tasks /\ t.fn = "getProfileKeyCredential2"
  /\ tasks' = tasks \ {t}
  /\ profiles' = Got(t.version)
  /\ LET p == profiles'[t.version] IN
     answers' = IF HasCommitment(p) THEN answers \cup {Reply(t, p.content, p.commitment)}
                ELSE answers
  /\ UNCHANGED <<attributes, requests, writes, acknowledged>>

\* The connection of a request ends, and with it the parts that have yet to run.
Drop(t) ==
  /\ t \in tasks
  /\ tasks' = tasks \ {t}
  /\ UNCHANGED <<attributes, profiles, requests, writes, acknowledged, answers>>

Next ==
  \/ \E d \in Devices, fetches, hasKey \in BOOLEAN, caps \in CapSets :
       PutAccountsAttributes(d, fetches, caps, hasKey)
  \/ \E d \in Devices, caps \in CapSets : PutDevicesCapabilities(d, caps)
  \/ \E d \in Devices, id \in GcmId : PutAccountsGcm(d, id)
  \/ \E v \in Version, hasCommitment \in BOOLEAN : PutProfile(v, hasCommitment)
  \/ \E v \in Version, fn \in {"getProfile2", "getVersionedProfile2", "getProfileKeyCredential2"} :
       GetProfile(fn, v)
  \/ \E t \in tasks :
       \/ RespondJsonOK(t) \/ PutProfile2(t) \/ GetProfile2(t) \/ GetVersionedProfile2(t)
       \/ GetProfileKeyCredential2(t) \/ Drop(t)

Spec == Init /\ [][Next]_vars

(***************************************************************************)
(* Properties                                                              *)
(***************************************************************************)

\* Type invariant: there is no bit beyond the ten that are defined, and no value
\* from a write that has not happened.
TypeOK ==
  /\ \A d \in Devices : device[d].bits \subseteq 0..9 /\ device[d].write \in 0..writes
  /\ account \in 0..writes
  /\ DOMAIN profiles \subseteq Version
  /\ \A v \in DOMAIN profiles : profiles[v].content \in 0..writes
  /\ requests \in 0..MaxRequests /\ writes \in 0..requests

\* Whatever the sequence of updates, a device is shown with exactly the capabilities
\* that were last announced for it, and fetches messages exactly if it last said so
\* and has not got a new id for push messages since.
CapabilitiesKept ==
  \A d \in Devices :
    /\ Caps(device[d].bits) = announced[d].caps
    /\ FetchesMessages(device[d].bits) = announced[d].fetches

\* An answer shows at least what was acknowledged when the request for it came: the
\* attributes of account and device, and the profile.
ReadYourWrites ==
  \A a \in answers :
    /\ a.device >= a.since["device"]
    /\ a.account >= a.since["account"]
    /\ a.fn # "getProfile2" => a.content >= a.since[a.version]

\* A credential is for a commitment that a client uploaded, and for the one that
\* belongs to the profile in the same answer.
CredentialIsForProfile ==
  \A a \in answers :
    a.fn = "getProfileKeyCredential2" => a.credential # 0 /\ a.credential = a.content

\* An answer is up to date and of one piece.
AnswersAreTrue == ReadYourWrites /\ CredentialIsForProfile
==============================================================================
