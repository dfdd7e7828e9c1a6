----------------------------- MODULE Conversions -----------------------------
(***************************************************************************)
(* Phone numbers, times and UUIDs: lib/phone.c (as compiled where integers *)
(* have 32 bits), lib/time.c, lib/uuid.c.  Numbers as keys are produced by *)
(* phoneToNum() and read back by numToPhone(); the stores of accounts,     *)
(* identities, sessions and verification codes are indexed by them.        *)
(*                                                                         *)
(* A phone number is the sequence of its digits, a UUID one of 16 bytes.   *)
(* The state is the number being dialled, a time and a UUID.               *)
(***************************************************************************)
EXTENDS Integers, Sequences

CONSTANTS
  GroupDigits,    \* digits in one group (7)
  Digits,         \* digits that are dialled
  MaxDigits,      \* bound: digits in a phone number
  Times,          \* times, in seconds
  Bytes           \* bytes of which UUIDs are made

ASSUME GroupDigitsAssumption == GroupDigits \in Nat \ {0}
ASSUME DigitsAssumption == Digits \subseteq 0..9
ASSUME TimesAssumption == Times \subseteq Nat
ASSUME BytesAssumption == Bytes \subseteq 0..255

VARIABLES phoneNumber, time, uuid

vars == <<phoneNumber, time, uuid>>

(***************************************************************************)
(* lib/phone.c                                                             *)
(***************************************************************************)

\* (int) of a string of digits, and asn::encode() of it.
Decimal(digits) ==
  LET f[i \in 0..Len(digits)] == IF i = 0 THEN 0 ELSE 10 * f[i - 1] + digits[i]
  IN f[Len(digits)]

\* 10 to the k
TenTo[k \in Nat] == IF k = 0 THEN 1 ELSE 10 * TenTo[k - 1]

\* A number as a string, with zeroes in front up to a length, or without; only groups
\* are converted without.
Padded(n, len) == [i \in 1..len |-> (n \div TenTo[len - i]) % 10]
Plain(n) ==
  LET len == CHOOSE l \in 1..GroupDigits : n < TenTo[l] /\ \A k \in 1..(l - 1) : n >= TenTo[k]
  IN Padded(n, len)

TEN_MILLION == TenTo[GroupDigits]

\* phoneToNum(): groups from the end, each multiplied by ten million more.
PhoneToNum(str) ==
  LET f[len \in 0..Len(str)] ==
        IF len <= GroupDigits THEN Decimal(SubSeq(str, 1, len))
        ELSE Decimal(SubSeq(str, len - GroupDigits + 1, len))
               + TEN_MILLION * f[len - GroupDigits]
  IN f[Len(str)]

\* Mutant: zeroes in front of a group are lost.
NumToPhoneShort(num) ==
  LET f[n \in Nat] ==
        IF n < TEN_MILLION THEN Plain(n)
        ELSE f[n \div TEN_MILLION] \o Plain(n % TEN_MILLION)
  IN f[num]

\* numToPhone(): the groups with their zeroes, the first one without. The code
\* takes each group from three bytes of asn_mod()'s result; that the driver gives
\* exactly three is assumed here.
NumToPhone(num) ==
  LET f[n \in Nat] ==
        IF n < TEN_MILLION THEN Plain(n)
        ELSE f[n \div TEN_MILLION] \o Padded(n % TEN_MILLION, GroupDigits)
  IN f[num]

(***************************************************************************)
(* lib/time.c.  >> is a logical shift, so a negative time is a large one.  *)
(***************************************************************************)

\* Mutant: the shift is by 6.
TimeDaySix(t) == LET u == t \div 64 IN (u - (u % 675)) * 64

\* timeDay(): t >> 7, and 86400 = 675 << 7
TimeDay(t) == LET u == t \div 128 IN (u - (u % 675)) * 128

(***************************************************************************)
(* lib/uuid.c.  A character is a hexadecimal digit or Dash.                *)
(***************************************************************************)

Dash == 16

\* hex::format(), hex::decodeString()
HexFormat(bytes) ==
  [i \in 1..(2 * Len(bytes)) |->
     IF i % 2 = 1 THEN bytes[(i + 1) \div 2] \div 16 ELSE bytes[i \div 2] % 16]
HexDecode(str) == [i \in 1..(Len(str) \div 2) |-> 16 * str[2 * i - 1] + str[2 * i]]

\* encode()
Encode(id) ==
  HexFormat(SubSeq(id, 1, 4)) \o <<Dash>> \o HexFormat(SubSeq(id, 5, 6)) \o <<Dash>>
    \o HexFormat(SubSeq(id, 7, 8)) \o <<Dash>> \o HexFormat(SubSeq(id, 9, 10)) \o <<Dash>>
    \o HexFormat(SubSeq(id, 11, 16))

\* decode() is an error unless this holds.
IsUuid(str) == Len(str) = 36 /\ \A i \in {9, 14, 19, 24} : str[i] = Dash

\* Mutant: the last part starts one character late.
DecodeLate(str) ==
  HexDecode(SubSeq(str, 1, 8)) \o HexDecode(SubSeq(str, 10, 13))
    \o HexDecode(SubSeq(str, 15, 18)) \o HexDecode(SubSeq(str, 20, 23))
    \o HexDecode(SubSeq(str, 26, 36))

\* decode()
Decode(str) ==
  HexDecode(SubSeq(str, 1, 8)) \o HexDecode(SubSeq(str, 10, 13))
    \o HexDecode(SubSeq(str, 15, 18)) \o HexDecode(SubSeq(str, 20, 23))
    \o HexDecode(SubSeq(str, 25, 36))

\* generate(): version and variant bits in a random string
Generate(random) ==
  [random EXCEPT ![7] = 64 + (@ % 16), ![9] = 128 + (@ % 64)]

(***************************************************************************)
(* Specification                                                           *)
(***************************************************************************)

NilUuid == Generate([i \in 1..16 |-> 0])

Init ==
  /\ phoneNumber = <<>> /\ time \in Times
  /\ uuid = NilUuid

\* A digit; phone numbers do not start with 0.
Dial(d) ==
  /\ Len(phoneNumber) < MaxDigits /\ uuid = NilUuid
  /\ phoneNumber = <<>> => d # 0
  /\ phoneNumber' = Append(phoneNumber, d)
  /\ UNCHANGED <<time, uuid>>

\* A new UUID, the random string differing from zeroes in one or two places.
NewUuid(i, j, b) ==
  /\ phoneNumber = <<>>
  /\ uuid' = Generate([k \in 1..16 |-> IF k \in {i, j} THEN b ELSE 0])
  /\ UNCHANGED <<phoneNumber, time>>

Next ==
  \/ \E d \in Digits : Dial(d)
  \/ \E i, j \in 1..16, b \in Bytes : NewUuid(i, j, b)

Spec == Init /\ [][Next]_vars

(***************************************************************************)
(* Properties                                                              *)
(***************************************************************************)

\* The groups of phoneToNum() add up to the number itself, the one that is used
\* where integers have 64 bits, and numToPhone() restores it with every zero.
PhoneNumberKept ==
  phoneNumber # <<>> =>
    /\ PhoneToNum(phoneNumber) = Decimal(phoneNumber)
    /\ NumToPhone(PhoneToNum(phoneNumber)) = phoneNumber

\* timeDay() is the start of the day that the time is in.
IsDayStart(t, day) == day % 86400 = 0 /\ day <= t /\ t < day + 86400
DayStarts == IsDayStart(time, TimeDay(time))

\* decode() accepts what encode() makes, and finds the same bytes.
UuidKept == IsUuid(Encode(uuid)) /\ Decode(Encode(uuid)) = uuid

\* What stores are indexed with is restored by the conversion back.
IdentifiersKept == PhoneNumberKept /\ UuidKept
==============================================================================
