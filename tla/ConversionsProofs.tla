-------------------------- MODULE ConversionsProofs --------------------------
(***************************************************************************)
(* lib/phone.c, lib/uuid.c and lib/time.c for every number, identifier and *)
(* time, not only for those of the run; the registry of REST calls for     *)
(* every request; and lib/proto.c and lib/websocket.c for every message,   *)
(* wherever it is cut up.                                                  *)
(*                                                                         *)
(* The conversions are written with recursive functions.  What they return *)
(* for every input is proved by induction, which is reduced here to sets   *)
(* of natural numbers: a set that is not empty has a least element.        *)
(***************************************************************************)
EXTENDS Conversions, RestApi, Proto, SequenceTheorems, FiniteSetTheorems, WellFoundedInduction,
  TLAPS

(***************************************************************************)
(* Times                                                                   *)
(***************************************************************************)

\* Dividing by 128 first does not change the day: 86400 = 675 * 128.
LEMMA DayStart == \A t \in Nat : IsDayStart(t, TimeDay(t))
<1> SUFFICES ASSUME NEW t \in Nat PROVE IsDayStart(t, TimeDay(t))
  OBVIOUS
<1> DEFINE u == t \div 128
           k == u \div 675
           r == u % 675
<1>1. u \in Nat /\ 128 * u <= t /\ t < 128 * u + 128
  OBVIOUS
<1>2. k \in Nat /\ r \in 0..674 /\ u = 675 * k + r
  BY <1>1
<1>3. TimeDay(t) = 86400 * k
  <2>1. TimeDay(t) = (u - r) * 128
    BY DEF TimeDay
  <2> HIDE DEF u, k, r
  <2> QED
    BY <2>1, <1>1, <1>2
<1> HIDE DEF u, k, r
<1>4. 86400 * k <= t /\ t < 86400 * k + 86400
  BY <1>1, <1>2
<1>5. (86400 * k) % 86400 = 0
  BY <1>2
<1> QED
  BY <1>3, <1>4, <1>5 DEF IsDayStart

\* Times are natural numbers, and the time of a behaviour does not change.
LEMMA TimeInit == Init => time \in Nat
  BY TimesAssumption DEF Init

\* The same after a step.
LEMMA TimeNext == time \in Nat /\ [Next]_vars => (time \in Nat)'
  BY DEF Next, Dial, NewUuid, vars

\* lib/time.c timeDay(): the day on which a profile credential is issued, and the
\* one on which a device was seen last, are the day that the time is in.
THEOREM DaysStart == Spec => []DayStarts
<1>1. time \in Nat => DayStarts
  BY DayStart DEF DayStarts
<1> QED
  BY <1>1, TimeInit, TimeNext, PTL DEF Spec

(***************************************************************************)
(* Induction and recursion                                                 *)
(***************************************************************************)

\* A set of numbers that is not empty has a least element.
LEMMA HasLeast ==
  ASSUME NEW S, S \subseteq Nat, S # {}
  PROVE  \E m \in S : \A n \in S : m <= n
<1>1. PICK m \in S : \A n \in S : ~ (<<n, m>> \in OpToRel(<, Nat))
  BY NatLessThanWellFounded, WFMin, Zenon
<1>2. \A n \in S : ~ (n < m)
  BY <1>1 DEF OpToRel
<1> QED
  BY <1>2

\* Induction: the numbers that are left out of a set closed under successor have no least.
LEMMA Induction ==
  ASSUME NEW S, 0 \in S, \A n \in Nat : n \in S => n + 1 \in S
  PROVE  Nat \subseteq S
<1> DEFINE Remaining == {n \in Nat : n \notin S}
<1>1. ASSUME Remaining # {} PROVE FALSE
  <2>1. PICK m \in Remaining : \A n \in Remaining : m <= n
    <3>1. Remaining \subseteq Nat
      OBVIOUS
    <3> HIDE DEF Remaining
    <3> QED
      BY <1>1, <3>1, HasLeast
  <2>2. m \in Nat /\ m # 0 /\ m \notin S
    BY <2>1
  <2>3. m - 1 \in Nat /\ ~ (m <= m - 1) /\ (m - 1) + 1 = m
    BY <2>2
  <2>4. m - 1 \in S
    BY <2>1, <2>3
  <2> QED
    BY <2>2, <2>3, <2>4
<1> QED
  BY <1>1

\* A function that begins with a and goes on by a step, on a set of numbers.
IsRecursion(f, a, step, D) ==
  f[0] = a /\ \A i \in D \ {0} : f[i] = step[<<f[i - 1], i>>]

\* Two functions on 0..n that begin alike and go on by the same step are equal.
LEMMA RecursionUnique ==
  ASSUME NEW n \in Nat, NEW f, NEW g, NEW a, NEW step,
         IsRecursion(f, a, step, 0..n), IsRecursion(g, a, step, 0..n)
  PROVE  f[n] = g[n]
<1> DEFINE S == {i \in Nat : i <= n => f[i] = g[i]}
<1>1. 0 \in S
  BY DEF IsRecursion
<1>2. ASSUME NEW i \in Nat, i \in S PROVE i + 1 \in S
  <2> SUFFICES ASSUME i + 1 <= n PROVE f[i + 1] = g[i + 1]
    OBVIOUS
  <2>1. f[i] = g[i]
    BY <1>2
  <2>2. i + 1 \in (0..n) \ {0} /\ (i + 1) - 1 = i
    OBVIOUS
  <2>3. f[i + 1] = step[<<f[i], i + 1>>] /\ g[i + 1] = step[<<g[i], i + 1>>]
    BY <2>2 DEF IsRecursion
  <2> QED
    BY <2>1, <2>3
<1>3. Nat \subseteq S
  <2> HIDE DEF S
  <2> QED
    BY <1>1, <1>2, Induction
<1> QED
  BY <1>3

\* A function on 0..n that begins with a and goes on by a step.
LEMMA RecursionExists ==
  ASSUME NEW S, NEW a \in S, NEW step \in [S \X Nat -> S]
  PROVE  \A n \in Nat : \E f \in [0..n -> S] : IsRecursion(f, a, step, 0..n)
<1> DEFINE N == {n \in Nat : \E f \in [0..n -> S] : IsRecursion(f, a, step, 0..n)}
<1>1. 0 \in N
  <2> DEFINE f == [i \in 0..0 |-> a]
  <2>1. f \in [0..0 -> S] /\ IsRecursion(f, a, step, 0..0)
    BY DEF IsRecursion
  <2> HIDE DEF f
  <2> QED
    BY <2>1
<1>2. ASSUME NEW n \in Nat, n \in N PROVE n + 1 \in N
  <2>1. PICK f \in [0..n -> S] : IsRecursion(f, a, step, 0..n)
    BY <1>2
  <2> DEFINE last == step[<<f[n], n + 1>>]
             g == [i \in 0..(n + 1) |-> IF i <= n THEN f[i] ELSE last]
  <2>2. last \in S
    OBVIOUS
  <2>3. g \in [0..(n + 1) -> S] /\ g[0] = a
    <3> HIDE DEF last
    <3> QED
      BY <2>1, <2>2 DEF IsRecursion
  <2>4. ASSUME NEW i \in (0..(n + 1)) \ {0} PROVE g[i] = step[<<g[i - 1], i>>]
    <3>1. i - 1 \in 0..n /\ i \in 0..(n + 1) /\ i - 1 \in 0..(n + 1)
      OBVIOUS
    <3>2. g[i - 1] = f[i - 1]
      BY <3>1
    <3>3. CASE i <= n
      <4>1. i \in (0..n) \ {0}
        BY <3>3
      <4>2. g[i] = f[i]
        BY <3>1, <3>3
      <4> QED
        BY <2>1, <3>2, <4>1, <4>2 DEF IsRecursion
    <3>4. CASE ~ (i <= n)
      <4>1. i = n + 1 /\ i - 1 = n
        BY <3>4
      <4>2. g[i] = last
        BY <3>1, <3>4
      <4> QED
        BY <3>2, <4>1, <4>2
    <3> QED
      BY <3>3, <3>4
  <2>5. IsRecursion(g, a, step, 0..(n + 1))
    <3> HIDE DEF g
    <3> QED
      BY <2>3, <2>4 DEF IsRecursion
  <2> HIDE DEF g
  <2> QED
    BY <2>3, <2>5
<1>3. Nat \subseteq N
  <2> HIDE DEF N
  <2> QED
    BY <1>1, <1>2, Induction
<1> QED
  BY <1>3

\* The function on the natural numbers that begins with a and goes on by a step.
LEMMA RecursionOnNat ==
  ASSUME NEW S, NEW a \in S, NEW step \in [S \X Nat -> S]
  PROVE  \E f \in [Nat -> S] : IsRecursion(f, a, step, Nat)
<1> DEFINE F(n) == CHOOSE f \in [0..n -> S] : IsRecursion(f, a, step, 0..n)
           g == [n \in Nat |-> F(n)[n]]
<1>1. ASSUME NEW n \in Nat PROVE F(n) \in [0..n -> S] /\ IsRecursion(F(n), a, step, 0..n)
  <2>1. \E f \in [0..n -> S] : IsRecursion(f, a, step, 0..n)
    BY RecursionExists
  <2> QED
    BY <2>1
<1>2. ASSUME NEW i \in Nat \ {0} PROVE g[i] = step[<<g[i - 1], i>>]
  <2> DEFINE f == F(i)
             h == F(i - 1)
  <2>1. i \in Nat /\ i - 1 \in Nat /\ i \in (0..i) \ {0} /\ i - 1 \in 0..(i - 1)
        /\ \A j \in (0..(i - 1)) \ {0} : j \in (0..i) \ {0}
    OBVIOUS
  <2>2. IsRecursion(f, a, step, 0..i) /\ IsRecursion(h, a, step, 0..(i - 1))
    <3> HIDE DEF F
    <3> QED
      BY <1>1, <2>1
  <2>3. g[i] = f[i] /\ g[i - 1] = h[i - 1]
    <3> HIDE DEF F
    <3> QED
      BY <2>1
  <2> HIDE DEF f, h, g
  <2>4. IsRecursion(f, a, step, 0..(i - 1))
    BY <2>1, <2>2 DEF IsRecursion
  <2>5. f[i - 1] = h[i - 1]
    <3>1. i - 1 \in Nat /\ IsRecursion(h, a, step, 0..(i - 1))
      BY <2>1, <2>2
    <3> QED
      BY <2>4, <3>1, RecursionUnique, Zenon
  <2>6. f[i] = step[<<f[i - 1], i>>]
    BY <2>1, <2>2 DEF IsRecursion
  <2> QED
    BY <2>3, <2>5, <2>6
<1>3. g \in [Nat -> S] /\ g[0] = a
  <2>1. F(0)[0] = a
    <3>1. 0 \in Nat
      OBVIOUS
    <3> HIDE DEF F
    <3> QED
      BY <1>1, <3>1 DEF IsRecursion
  <2>2. \A n \in Nat : F(n)[n] \in S
    <3> HIDE DEF F
    <3> QED
      BY <1>1
  <2> HIDE DEF F
  <2> QED
    BY <2>1, <2>2
<1>4. IsRecursion(g, a, step, Nat)
  <2> HIDE DEF g
  <2> QED
    BY <1>2, <1>3 DEF IsRecursion
<1> HIDE DEF g
<1> QED
  BY <1>3, <1>4

(***************************************************************************)
(* Digits                                                                  *)
(***************************************************************************)

\* Powers of 10.
LEMMA TenToType ==
  /\ TenTo \in [Nat -> Nat \ {0}] /\ TenTo[0] = 1
  /\ \A k \in Nat : TenTo[k + 1] = 10 * TenTo[k]
<1> DEFINE step == [p \in (Nat \ {0}) \X Nat |-> 10 * p[1]]
           G(f) == [k \in Nat |-> IF k = 0 THEN 1 ELSE 10 * f[k - 1]]
<1>1. step \in [(Nat \ {0}) \X Nat -> Nat \ {0}]
  OBVIOUS
<1>2. \A v \in Nat \ {0}, k \in Nat : step[<<v, k>>] = 10 * v
  OBVIOUS
<1>3. PICK f \in [Nat -> Nat \ {0}] : IsRecursion(f, 1, step, Nat)
  <2>1. 1 \in Nat \ {0}
    OBVIOUS
  <2> HIDE DEF step
  <2> QED
    BY <1>1, <2>1, RecursionOnNat
<1>4. f = G(f)
  <2>1. ASSUME NEW k \in Nat \ {0} PROVE f[k] = 10 * f[k - 1]
    <3>1. k \in Nat /\ k - 1 \in Nat /\ f[k - 1] \in Nat \ {0}
      OBVIOUS
    <3> HIDE DEF step
    <3>2. step[<<f[k - 1], k>>] = 10 * f[k - 1]
      BY <1>2, <3>1
    <3> QED
      BY <1>3, <3>2 DEF IsRecursion
  <2> QED
    BY <1>3, <2>1 DEF IsRecursion
<1>5. TenTo = G(TenTo)
  <2>1. TenTo = CHOOSE h : h = G(h)
    BY DEF TenTo
  <2> HIDE DEF G
  <2> QED
    BY <1>4, <2>1
<1>6. \A k \in Nat : TenTo[k] = IF k = 0 THEN 1 ELSE 10 * TenTo[k - 1]
  <2>1. \A k \in Nat : G(TenTo)[k] = IF k = 0 THEN 1 ELSE 10 * TenTo[k - 1]
    OBVIOUS
  <2> HIDE DEF G
  <2> QED
    BY <1>5, <2>1
<1>7. TenTo[0] = 1 /\ \A k \in Nat : TenTo[k + 1] = 10 * TenTo[k]
  BY <1>6
<1>8. \A k \in Nat : TenTo[k] \in Nat \ {0}
  <2> DEFINE K == {k \in Nat : TenTo[k] \in Nat \ {0}}
  <2>1. 0 \in K /\ \A k \in Nat : k \in K => k + 1 \in K
    BY <1>7
  <2>2. Nat \subseteq K
    <3> HIDE DEF K
    <3> QED
      BY <2>1, Induction
  <2> QED
    BY <2>2
<1>9. TenTo = [k \in Nat |-> TenTo[k]]
  <2>1. \E h : TenTo = [k \in Nat |-> h[k]]
    <3>1. G(TenTo) = [k \in Nat |-> G(TenTo)[k]]
      OBVIOUS
    <3> HIDE DEF G
    <3> QED
      BY <1>5, <3>1
  <2> QED
    BY <2>1
<1> QED
  BY <1>7, <1>8, <1>9

\* A quotient and a remainder are unique.
LEMMA Division ==
  ASSUME NEW b \in Nat \ {0}, NEW q \in Nat, NEW r \in 0..(b - 1), NEW a, a = q * b + r
  PROVE  a \in Nat /\ a \div b = q /\ a % b = r
<1>1. q * b \in Nat
  OBVIOUS
<1> QED
  BY <1>1

\* A quotient and a remainder add up.
LEMMA Quotient ==
  ASSUME NEW a \in Nat, NEW b \in Nat \ {0}
  PROVE  a \div b \in Nat /\ a % b \in 0..(b - 1) /\ a = (a \div b) * b + (a % b)
<1>1. a \div b \in Nat /\ a % b \in 0..(b - 1)
  OBVIOUS
<1>2. a = (a \div b) * b + (a % b)
  OBVIOUS
<1> QED
  BY <1>1, <1>2

\* One more digit, if there is one.
DigitStep(s) ==
  [p \in Nat \X Nat |-> 10 * p[1] + IF p[2] \in 1..Len(s) THEN s[p[2]] ELSE 0]

\* The digits are taken one after another.
LEMMA DecimalDefinition ==
  ASSUME NEW s \in Seq(Nat)
  PROVE  \E f \in [0..Len(s) -> Nat] :
           IsRecursion(f, 0, DigitStep(s), 0..Len(s)) /\ Decimal(s) = f[Len(s)]
<1> DEFINE n == Len(s)
           G(f) == [i \in 0..Len(s) |-> IF i = 0 THEN 0 ELSE 10 * f[i - 1] + s[i]]
           h == CHOOSE f : f = G(f)
<1>1. n \in Nat
  OBVIOUS
<1>2. DigitStep(s) \in [Nat \X Nat -> Nat]
  <2>1. \A p \in Nat \X Nat :
          10 * p[1] + (IF p[2] \in 1..Len(s) THEN s[p[2]] ELSE 0) \in Nat
    OBVIOUS
  <2> QED
    BY <2>1 DEF DigitStep
<1>3. \A v \in Nat, i \in 1..n : DigitStep(s)[<<v, i>>] = 10 * v + s[i]
  BY <1>1 DEF DigitStep
<1>4. PICK f \in [0..n -> Nat] : IsRecursion(f, 0, DigitStep(s), 0..n)
  <2>1. 0 \in Nat
    OBVIOUS
  <2> HIDE DEF n
  <2> QED
    BY <1>1, <1>2, <2>1, RecursionExists
<1>5. f = G(f)
  <2>1. ASSUME NEW i \in 1..n PROVE f[i] = 10 * f[i - 1] + s[i]
    <3>1. i \in (0..n) \ {0} /\ i - 1 \in 0..n /\ f[i - 1] \in Nat
      BY <1>1
    <3> HIDE DEF n
    <3>2. f[i] = DigitStep(s)[<<f[i - 1], i>>]
      BY <1>4, <3>1 DEF IsRecursion
    <3> QED
      BY <1>3, <3>1, <3>2
  <2>2. f[0] = 0
    BY <1>4 DEF IsRecursion
  <2> QED
    BY <1>1, <2>1, <2>2
<1>6. h = G(h)
  <2> HIDE DEF G
  <2> QED
    BY <1>5
<1>7. h[0] = 0 /\ \A i \in 1..n : h[i] = 10 * h[i - 1] + s[i]
  <2>1. G(h)[0] = 0 /\ \A i \in 1..n : G(h)[i] = 10 * h[i - 1] + s[i]
    <3> HIDE DEF h
    <3> QED
      BY <1>1
  <2> HIDE DEF h, G
  <2> QED
    BY <1>6, <2>1
<1>8. \A i \in 0..n : h[i] \in Nat
  <2> DEFINE K == {i \in Nat : i <= n => h[i] \in Nat}
  <2>1. 0 \in K
    <3> HIDE DEF h
    <3> QED
      BY <1>7
  <2>2. ASSUME NEW i \in Nat, i \in K PROVE i + 1 \in K
    <3> SUFFICES ASSUME i + 1 <= n PROVE h[i + 1] \in Nat
      OBVIOUS
    <3>1. i + 1 \in 1..n /\ (i + 1) - 1 = i /\ h[i] \in Nat /\ s[i + 1] \in Nat
      <4> HIDE DEF h
      <4> QED
        BY <1>1, <2>2
    <3> HIDE DEF h, n
    <3> QED
      BY <1>7, <3>1
  <2>3. Nat \subseteq K
    <3> HIDE DEF K
    <3> QED
      BY <2>1, <2>2, Induction
  <2> HIDE DEF h
  <2> QED
    BY <2>3
<1>9. h = [i \in 0..n |-> h[i]]
  <2>1. G(h) = [i \in 0..n |-> G(h)[i]]
    <3> HIDE DEF h
    <3> QED
      OBVIOUS
  <2> HIDE DEF h, G
  <2> QED
    BY <1>6, <2>1
<1>10. IsRecursion(h, 0, DigitStep(s), 0..n)
  <2> HIDE DEF h, n
  <2>1. ASSUME NEW i \in (0..n) \ {0} PROVE h[i] = DigitStep(s)[<<h[i - 1], i>>]
    <3>1. i \in 1..n /\ i - 1 \in 0..n
      BY <1>1
    <3> QED
      BY <1>3, <1>7, <1>8, <3>1
  <2> QED
    BY <1>7, <2>1 DEF IsRecursion
<1>11. Decimal(s) = h[Len(s)]
  BY DEF Decimal
<1>12. h \in [0..n -> Nat]
  <2> HIDE DEF h, n
  <2> QED
    BY <1>8, <1>9
<1> HIDE DEF h
<1> QED
  BY <1>10, <1>11, <1>12

\* (int) of no digits is 0.
LEMMA DecimalEmpty == Decimal(<<>>) = 0
<1>1. <<>> \in Seq(Nat) /\ Len(<<>>) = 0
  OBVIOUS
<1>2. PICK f \in [0..Len(<<>>) -> Nat] :
        IsRecursion(f, 0, DigitStep(<<>>), 0..Len(<<>>)) /\ Decimal(<<>>) = f[Len(<<>>)]
  BY <1>1, DecimalDefinition
<1> QED
  BY <1>1, <1>2 DEF IsRecursion

\* A step takes the digit at its place.
LEMMA DigitStepIs ==
  ASSUME NEW s, NEW v \in Nat, NEW i \in Nat, i \in 1..Len(s)
  PROVE  DigitStep(s)[<<v, i>>] = 10 * v + s[i]
<1>1. <<v, i>> \in Nat \X Nat
  OBVIOUS
<1>2. DigitStep(s)[<<v, i>>] = 10 * v + IF i \in 1..Len(s) THEN s[i] ELSE 0
  BY <1>1, Zenon DEF DigitStep
<1> QED
  BY <1>2, Zenon

\* (int) of one digit more.
LEMMA DecimalAppend ==
  ASSUME NEW s \in Seq(Nat), NEW d \in Nat
  PROVE  Decimal(s) \in Nat /\ Decimal(Append(s, d)) = 10 * Decimal(s) + d
<1> DEFINE t == Append(s, d)
           n == Len(s)
<1>1. n \in Nat /\ t \in Seq(Nat) /\ Len(t) = n + 1 /\ t[n + 1] = d
      /\ \A i \in 1..n : t[i] = s[i]
  OBVIOUS
<1>2. PICK f \in [0..n -> Nat] :
        IsRecursion(f, 0, DigitStep(s), 0..n) /\ Decimal(s) = f[n]
  BY DecimalDefinition
<1>3. PICK g \in [0..(n + 1) -> Nat] :
        IsRecursion(g, 0, DigitStep(t), 0..(n + 1)) /\ Decimal(t) = g[n + 1]
  <2>1. PICK g \in [0..Len(t) -> Nat] :
          IsRecursion(g, 0, DigitStep(t), 0..Len(t)) /\ Decimal(t) = g[Len(t)]
    <3> HIDE DEF t
    <3> QED
      BY <1>1, DecimalDefinition
  <2> HIDE DEF t
  <2> QED
    BY <1>1, <2>1
<1> HIDE DEF t
<1>4. \A v \in Nat, i \in 1..n : DigitStep(s)[<<v, i>>] = DigitStep(t)[<<v, i>>]
  <2> SUFFICES ASSUME NEW v \in Nat, NEW i \in 1..n
               PROVE  DigitStep(s)[<<v, i>>] = DigitStep(t)[<<v, i>>]
    OBVIOUS
  <2>1. i \in Nat /\ i \in 1..Len(s) /\ i \in 1..Len(t) /\ t[i] = s[i]
    BY <1>1
  <2>2. DigitStep(s)[<<v, i>>] = 10 * v + s[i] /\ DigitStep(t)[<<v, i>>] = 10 * v + t[i]
    BY <2>1, DigitStepIs
  <2> QED
    BY <2>1, <2>2
<1> HIDE DEF n
<1>5. IsRecursion(g, 0, DigitStep(s), 0..n)
  <2>1. ASSUME NEW i \in (0..n) \ {0} PROVE g[i] = DigitStep(s)[<<g[i - 1], i>>]
    <3>1. i \in (0..(n + 1)) \ {0} /\ i \in 1..n /\ i - 1 \in 0..(n + 1) /\ g[i - 1] \in Nat
      BY <1>1
    <3> QED
      BY <1>3, <1>4, <3>1 DEF IsRecursion
  <2> QED
    BY <1>3, <2>1 DEF IsRecursion
<1>6. f[n] = g[n]
  <2>1. n \in Nat
    BY <1>1
  <2>2. IsRecursion(f, 0, DigitStep(s), 0..n)
    BY <1>2
  <2> QED
    BY <1>5, <2>1, <2>2, RecursionUnique, Zenon
<1>7. g[n + 1] = 10 * g[n] + d
  <2>1. n + 1 \in (0..(n + 1)) \ {0} /\ (n + 1) - 1 = n /\ g[n] \in Nat /\ n + 1 \in 1..Len(t)
    BY <1>1
  <2>2. g[n + 1] = DigitStep(t)[<<g[n], n + 1>>]
    BY <1>3, <2>1 DEF IsRecursion
  <2>3. DigitStep(t)[<<g[n], n + 1>>] = 10 * g[n] + t[n + 1]
    <3>1. n + 1 \in Nat /\ g[n] \in Nat
      BY <1>1, <2>1
    <3> QED
      BY <2>1, <3>1, DigitStepIs
  <2> QED
    BY <1>1, <2>2, <2>3
<1>8. f[n] \in Nat
  BY <1>1
<1> QED
  BY <1>2, <1>3, <1>6, <1>7, <1>8 DEF t

\* A sequence that is not empty is one with an element added.
LEMMA LastAdded ==
  ASSUME NEW S, NEW u \in Seq(S), NEW k \in Nat, Len(u) = k + 1
  PROVE  \E v \in Seq(S), d \in S : u = Append(v, d) /\ Len(v) = k
<1> DEFINE v == [i \in 1..k |-> u[i]]
           d == u[k + 1]
<1>1. v \in Seq(S) /\ Len(v) = k /\ d \in S
  OBVIOUS
<1>2. u = Append(v, d)
  OBVIOUS
<1> HIDE DEF v, d
<1> QED
  BY <1>1, <1>2

\* Powers of 10 grow, and their product is one.
LEMMA TenToGrows ==
  \A j, k \in Nat : TenTo[j + k] = TenTo[j] * TenTo[k] /\ (j <= k => TenTo[j] <= TenTo[k])
    /\ k < TenTo[k]
<1>1. ASSUME NEW j \in Nat PROVE \A k \in Nat : TenTo[j + k] = TenTo[j] * TenTo[k]
  <2> DEFINE K == {k \in Nat : TenTo[j + k] = TenTo[j] * TenTo[k]}
  <2>1. 0 \in K
    BY TenToType
  <2>2. ASSUME NEW k \in Nat, k \in K PROVE k + 1 \in K
    <3>1. TenTo[j + k] = TenTo[j] * TenTo[k]
      BY <2>2
    <3>2. TenTo[j + (k + 1)] = 10 * TenTo[j + k] /\ TenTo[k + 1] = 10 * TenTo[k]
      <4>1. j + k \in Nat /\ (j + k) + 1 = j + (k + 1)
        OBVIOUS
      <4> QED
        BY <4>1, TenToType
    <3>3. \A a, b, c \in Nat : c = a * b => 10 * c = a * (10 * b)
      OBVIOUS
    <3>4. TenTo[j] \in Nat /\ TenTo[k] \in Nat /\ TenTo[j + k] \in Nat
      BY TenToType
    <3> QED
      BY <3>1, <3>2, <3>3, <3>4
  <2>3. Nat \subseteq K
    <3> HIDE DEF K
    <3> QED
      BY <2>1, <2>2, Induction
  <2> QED
    BY <2>3
<1>2. ASSUME NEW j \in Nat, NEW k \in Nat, j <= k PROVE TenTo[j] <= TenTo[k]
  <2>1. k - j \in Nat /\ j + (k - j) = k
    BY <1>2
  <2>2. TenTo[k] = TenTo[j] * TenTo[k - j]
    BY <1>1, <2>1
  <2>3. \A a, b \in Nat \ {0} : a <= a * b
    OBVIOUS
  <2>4. TenTo[j] \in Nat \ {0} /\ TenTo[k - j] \in Nat \ {0}
    BY <2>1, TenToType
  <2> QED
    BY <2>2, <2>3, <2>4
<1>3. \A k \in Nat : k < TenTo[k]
  <2> DEFINE K == {k \in Nat : k < TenTo[k]}
  <2>1. 0 \in K /\ \A k \in Nat : k \in K => k + 1 \in K
    BY TenToType
  <2>2. Nat \subseteq K
    <3> HIDE DEF K
    <3> QED
      BY <2>1, Induction
  <2> QED
    BY <2>2
<1> QED
  BY <1>1, <1>2, <1>3

\* The digits of two strings, one after the other.
LEMMA DecimalConcat ==
  ASSUME NEW s \in Seq(Nat), NEW t \in Seq(Nat)
  PROVE  Decimal(s \o t) = Decimal(s) * TenTo[Len(t)] + Decimal(t)
<1> DEFINE Good(u) == Decimal(s \o u) = Decimal(s) * TenTo[Len(u)] + Decimal(u)
           K == {k \in Nat : \A u \in Seq(Nat) : Len(u) = k => Good(u)}
<1>1. Decimal(s) \in Nat
  BY DecimalAppend, 0 \in Nat
<1>2. 0 \in K
  <2> SUFFICES ASSUME NEW u \in Seq(Nat), Len(u) = 0 PROVE Good(u)
    OBVIOUS
  <2>1. u = <<>> /\ s \o <<>> = s
    OBVIOUS
  <2> QED
    BY <1>1, <2>1, DecimalEmpty, TenToType
<1>3. ASSUME NEW k \in Nat, k \in K PROVE k + 1 \in K
  <2> SUFFICES ASSUME NEW u \in Seq(Nat), Len(u) = k + 1 PROVE Good(u)
    OBVIOUS
  <2>1. PICK v \in Seq(Nat), d \in Nat : u = Append(v, d) /\ Len(v) = k
    BY LastAdded
  <2>2. Good(v)
    BY <1>3, <2>1
  <2>3. s \o v \in Seq(Nat) /\ s \o Append(v, d) = Append(s \o v, d)
    <3>1. s \o v \in Seq(Nat) /\ <<d>> \in Seq(Nat)
      BY ConcatProperties
    <3>2. Append(v, d) = v \o <<d>> /\ Append(s \o v, d) = (s \o v) \o <<d>>
      BY <3>1, AppendIsConcat
    <3> QED
      BY <3>1, <3>2, ConcatAssociative
  <2>4. Decimal(s \o u) = 10 * Decimal(s \o v) + d /\ Decimal(u) = 10 * Decimal(v) + d
        /\ Decimal(v) \in Nat
    BY <2>1, <2>3, DecimalAppend
  <2>5. TenTo[Len(u)] = 10 * TenTo[Len(v)] /\ TenTo[Len(v)] \in Nat
    BY <2>1, TenToType
  <2>6. \A a, b, c \in Nat : 10 * (a * b + c) + d = a * (10 * b) + (10 * c + d)
    OBVIOUS
  <2>7. 10 * (Decimal(s) * TenTo[Len(v)] + Decimal(v)) + d
          = Decimal(s) * (10 * TenTo[Len(v)]) + (10 * Decimal(v) + d)
    BY <1>1, <2>4, <2>5, <2>6, Zenon
  <2> QED
    BY <2>2, <2>4, <2>5, <2>7, Zenon
<1>4. Nat \subseteq K
  <2> HIDE DEF K
  <2> QED
    BY <1>2, <1>3, Induction
<1> QED
  BY <1>4

\* The digits of a number.
AllDigits == 0..9

\* Digits are numbers.
LEMMA DigitsAreNumbers ==
  ASSUME NEW s \in Seq(AllDigits)
  PROVE  s \in Seq(Nat) /\ \A i \in 1..Len(s) : s[i] \in Nat /\ s[i] \in 0..9
<1>1. Len(s) \in Nat /\ s = [i \in 1..Len(s) |-> s[i]]
      /\ \A i \in 1..Len(s) : s[i] \in AllDigits
  OBVIOUS
<1>2. AllDigits \subseteq Nat
  BY DEF AllDigits
<1>3. s \in [1..Len(s) -> Nat]
  BY <1>1, <1>2
<1> QED
  BY <1>1, <1>2, <1>3 DEF AllDigits

\* A string of digits is less than a power of 10.
LEMMA DecimalBound ==
  ASSUME NEW s \in Seq(AllDigits)
  PROVE  Decimal(s) \in Nat /\ Decimal(s) < TenTo[Len(s)]
<1> DEFINE K == {k \in Nat : \A u \in Seq(AllDigits) : Len(u) = k =>
                               Decimal(u) \in Nat /\ Decimal(u) < TenTo[Len(u)]}
<1>1. 0 \in K
  <2>1. \A u \in Seq(AllDigits) : Len(u) = 0 => u = <<>>
    OBVIOUS
  <2>2. Decimal(<<>>) \in Nat /\ Decimal(<<>>) < TenTo[Len(<<>>)]
    <3>1. Len(<<>>) = 0 /\ 0 \in Nat
      OBVIOUS
    <3>2. TenTo[Len(<<>>)] = 1
      BY <3>1, TenToType
    <3>3. 0 < 1
      OBVIOUS
    <3> QED
      BY <3>1, <3>2, <3>3, DecimalEmpty, Zenon
  <2> QED
    BY <2>1, <2>2
<1>2. ASSUME NEW k \in Nat, k \in K PROVE k + 1 \in K
  <2> SUFFICES ASSUME NEW u \in Seq(AllDigits), Len(u) = k + 1
               PROVE  Decimal(u) \in Nat /\ Decimal(u) < TenTo[Len(u)]
    OBVIOUS
  <2>1. PICK v \in Seq(AllDigits), d \in AllDigits : u = Append(v, d) /\ Len(v) = k
    BY LastAdded
  <2>2. Decimal(v) \in Nat /\ Decimal(v) < TenTo[k]
    BY <1>2, <2>1
  <2>3. v \in Seq(Nat) /\ d \in Nat /\ d <= 9
    BY <2>1, DigitsAreNumbers DEF AllDigits
  <2>4. Decimal(u) = 10 * Decimal(v) + d
    BY <2>1, <2>3, DecimalAppend
  <2>5. TenTo[k + 1] = 10 * TenTo[k] /\ TenTo[k] \in Nat
    BY TenToType
  <2> QED
    BY <2>2, <2>3, <2>4, <2>5
<1>3. Nat \subseteq K
  <2> HIDE DEF K
  <2> QED
    BY <1>1, <1>2, Induction
<1> QED
  BY <1>3

\* A part of a string of digits is one.
LEMMA DigitsPart ==
  ASSUME NEW S, NEW s \in Seq(S), NEW i \in 0..Len(s)
  PROVE  /\ SubSeq(s, 1, i) \in Seq(S) /\ Len(SubSeq(s, 1, i)) = i
         /\ SubSeq(s, i + 1, Len(s)) \in Seq(S) /\ Len(SubSeq(s, i + 1, Len(s))) = Len(s) - i
         /\ s = SubSeq(s, 1, i) \o SubSeq(s, i + 1, Len(s))
         /\ i > 0 => SubSeq(s, 1, i) = Append(SubSeq(s, 1, i - 1), s[i]) /\ s[i] \in S
<1>1. Len(s) \in Nat
  OBVIOUS
<1>2. s = SubSeq(s, 1, i) \o SubSeq(s, i + 1, Len(s))
  <2>1. 1 \in 1..(Len(s) + 1) /\ i \in (1 - 1)..Len(s) /\ Len(s) \in i..Len(s)
    BY <1>1
  <2>2. SubSeq(s, 1, i) \o SubSeq(s, i + 1, Len(s)) = SubSeq(s, 1, Len(s))
    BY <2>1, ConcatAdjacentSubSeq
  <2> QED
    BY <2>2, SubSeqFull
<1>3. i > 0 => SubSeq(s, 1, i) = Append(SubSeq(s, 1, i - 1), s[i]) /\ s[i] \in S
  <2> SUFFICES ASSUME i > 0
               PROVE  SubSeq(s, 1, i) = Append(SubSeq(s, 1, i - 1), s[i]) /\ s[i] \in S
    OBVIOUS
  <2> QED
    BY <1>1
<1>4. /\ SubSeq(s, 1, i) \in Seq(S) /\ Len(SubSeq(s, 1, i)) = i
      /\ SubSeq(s, i + 1, Len(s)) \in Seq(S) /\ Len(SubSeq(s, i + 1, Len(s))) = Len(s) - i
  BY <1>1
<1> QED
  BY <1>2, <1>3, <1>4

\* The digits of the number that a string stands for are those of the string.
LEMMA PaddedDecimal ==
  ASSUME NEW s \in Seq(AllDigits)
  PROVE  Padded(Decimal(s), Len(s)) = s
<1> DEFINE n == Len(s)
<1>1. n \in Nat /\ s = [i \in 1..n |-> s[i]]
  OBVIOUS
<1>2. ASSUME NEW i \in 1..n PROVE (Decimal(s) \div TenTo[n - i]) % 10 = s[i]
  <2> DEFINE p == SubSeq(s, 1, i)
             o == SubSeq(s, 1, i - 1)
             t == SubSeq(s, i + 1, n)
  <2>1. i \in 0..Len(s) /\ i > 0 /\ i - 1 \in 0..Len(s)
    BY <1>1
  <2>2. p \in Seq(AllDigits) /\ t \in Seq(AllDigits) /\ Len(t) = n - i /\ s = p \o t
        /\ p = Append(o, s[i]) /\ s[i] \in AllDigits /\ o \in Seq(AllDigits)
    BY <2>1, DigitsPart
  <2> HIDE DEF p, o, t, n
  <2>3. p \in Seq(Nat) /\ t \in Seq(Nat) /\ o \in Seq(Nat) /\ s[i] \in 0..9
    BY <2>2, DigitsAreNumbers DEF AllDigits
  <2>4. Decimal(s) = Decimal(p) * TenTo[n - i] + Decimal(t)
    <3>1. Decimal(p \o t) = Decimal(p) * TenTo[Len(t)] + Decimal(t)
      BY <2>3, DecimalConcat
    <3> QED
      BY <2>2, <3>1
  <2>5. Decimal(p) = 10 * Decimal(o) + s[i] /\ Decimal(o) \in Nat /\ Decimal(p) \in Nat
    <3>1. s[i] \in Nat
      BY <2>3
    <3>2. Decimal(Append(o, s[i])) = 10 * Decimal(o) + s[i] /\ Decimal(o) \in Nat
      BY <2>3, <3>1, DecimalAppend
    <3>3. p = Append(o, s[i]) /\ Decimal(p) \in Nat
      BY <2>2, DecimalBound
    <3> QED
      BY <3>2, <3>3, Zenon
  <2>6. Decimal(t) \in Nat /\ Decimal(t) < TenTo[n - i]
    BY <2>2, DecimalBound
  <2>7. TenTo[n - i] \in Nat \ {0}
    <3>1. n - i \in Nat
      BY <1>1
    <3> QED
      BY <3>1, TenToType
  <2>8. Decimal(s) \div TenTo[n - i] = Decimal(p)
    <3>1. Decimal(t) \in 0..(TenTo[n - i] - 1) /\ Decimal(p) \in Nat
      BY <2>3, <2>5, <2>6, <2>7
    <3> QED
      BY <2>4, <2>7, <3>1, Division
  <2>9. (10 * Decimal(o) + s[i]) % 10 = s[i]
    <3>1. \A o1 \in Nat, d \in 0..9 : (10 * o1 + d) % 10 = d
      OBVIOUS
    <3> QED
      BY <2>3, <2>5, <3>1
  <2> QED
    BY <2>5, <2>8, <2>9
<1>3. Padded(Decimal(s), n) = [i \in 1..n |-> (Decimal(s) \div TenTo[n - i]) % 10]
  BY DEF Padded
<1> QED
  BY <1>1, <1>2, <1>3

\* Two divisions are one by the product.
LEMMA DivisionTwice ==
  ASSUME NEW n \in Nat, NEW a \in Nat \ {0}, NEW b \in Nat \ {0}
  PROVE  n \div (a * b) = (n \div a) \div b
<1> DEFINE m == n \div a
           q == m \div b
           r == (m % b) * a + (n % a)
<1>1. m \in Nat /\ n % a \in 0..(a - 1) /\ n = m * a + (n % a)
  BY Quotient
<1>2. q \in Nat /\ m % b \in 0..(b - 1) /\ m = q * b + (m % b)
  BY <1>1, Quotient
<1>3. \A x, y, z, u \in Nat : x = y * b + z => x * a + u = y * (a * b) + (z * a + u)
  OBVIOUS
<1>4. n = q * (a * b) + r
  <2>1. n % a \in Nat /\ m % b \in Nat
    BY <1>1, <1>2
  <2> HIDE DEF m, q
  <2> QED
    BY <1>1, <1>2, <1>3, <2>1
<1>5. r \in 0..((a * b) - 1)
  <2>1. \A z \in 0..(b - 1), u \in 0..(a - 1) : z * a + u \in 0..((a * b) - 1)
    <3> SUFFICES ASSUME NEW z \in 0..(b - 1), NEW u \in 0..(a - 1)
                 PROVE  z * a + u \in 0..((a * b) - 1)
      OBVIOUS
    <3>1. b - 1 - z \in Nat /\ (b - 1 - z) * a \in Nat
      OBVIOUS
    <3>2. (b - 1 - z) * a = a * b - a - z * a /\ z * a \in Nat /\ a * b \in Nat
      OBVIOUS
    <3> QED
      BY <3>1, <3>2
  <2> HIDE DEF m
  <2> QED
    BY <1>1, <1>2, <2>1
<1>6. a * b \in Nat \ {0}
  OBVIOUS
<1> HIDE DEF r, q
<1>7. n \div (a * b) = q
  BY <1>2, <1>4, <1>5, <1>6, Division
<1> QED
  BY <1>7 DEF q

\* A string of a number is one of digits, and stands for the number if it is long enough.
LEMMA DecimalPadded ==
  \A len \in Nat : \A n \in Nat :
    /\ Padded(n, len) \in Seq(AllDigits) /\ Len(Padded(n, len)) = len
    /\ n < TenTo[len] => Decimal(Padded(n, len)) = n
<1> DEFINE K == {k \in Nat : \A n \in Nat : n < TenTo[k] => Decimal(Padded(n, k)) = n}
<1>1. ASSUME NEW k \in Nat, NEW n \in Nat
      PROVE  /\ Padded(n, k) \in Seq(AllDigits) /\ Len(Padded(n, k)) = k
             /\ \A i \in 1..k : Padded(n, k)[i] = (n \div TenTo[k - i]) % 10
  <2>1. ASSUME NEW i \in 1..k PROVE (n \div TenTo[k - i]) % 10 \in AllDigits
    <3>1. k - i \in Nat
      OBVIOUS
    <3>2. TenTo[k - i] \in Nat \ {0}
      BY <3>1, TenToType
    <3>3. n \div TenTo[k - i] \in Nat
      BY <3>2, Quotient
    <3> QED
      BY <3>3 DEF AllDigits
  <2>2. Padded(n, k) \in [1..k -> AllDigits]
    BY <2>1 DEF Padded
  <2>3. \A i \in 1..k : Padded(n, k)[i] = (n \div TenTo[k - i]) % 10
    BY DEF Padded
  <2> QED
    BY <2>2, <2>3
<1>2. 0 \in K
  <2>1. ASSUME NEW n \in Nat, n < TenTo[0] PROVE Decimal(Padded(n, 0)) = n
    <3>1. n = 0
      BY <2>1, TenToType
    <3>2. Padded(n, 0) \in Seq(AllDigits) /\ Len(Padded(n, 0)) = 0
      BY <1>1
    <3>3. Padded(n, 0) = <<>>
      BY <3>2
    <3> QED
      BY <3>1, <3>3, DecimalEmpty
  <2> QED
    BY <2>1
<1>3. ASSUME NEW k \in Nat, k \in K PROVE k + 1 \in K
  <2> SUFFICES ASSUME NEW n \in Nat, n < TenTo[k + 1] PROVE Decimal(Padded(n, k + 1)) = n
    OBVIOUS
  <2> DEFINE m == n \div 10
             d == n % 10
             p == Padded(m, k)
             q == Padded(n, k + 1)
  <2>1. m \in Nat /\ d \in 0..9 /\ n = 10 * m + d
    OBVIOUS
  <2>2. TenTo[k + 1] = 10 * TenTo[k] /\ TenTo[k] \in Nat
    BY TenToType
  <2>3. m < TenTo[k]
    <3> HIDE DEF m, d
    <3> QED
      BY <2>1, <2>2
  <2> HIDE DEF m
  <2>4. Decimal(p) = m
    BY <1>3, <2>1, <2>3
  <2>5. p \in Seq(AllDigits) /\ Len(p) = k /\ \A i \in 1..k : p[i] = (m \div TenTo[k - i]) % 10
    BY <1>1, <2>1
  <2>6. q \in Seq(AllDigits) /\ Len(q) = k + 1
        /\ \A i \in 1..(k + 1) : q[i] = (n \div TenTo[k + 1 - i]) % 10
    <3>1. k + 1 \in Nat
      OBVIOUS
    <3> QED
      BY <1>1, <3>1
  <2>7. ASSUME NEW i \in 1..k PROVE q[i] = p[i]
    <3>1. k - i \in Nat /\ k + 1 - i = (k - i) + 1 /\ i \in 1..(k + 1)
      OBVIOUS
    <3>2. TenTo[k + 1 - i] = 10 * TenTo[k - i] /\ TenTo[k - i] \in Nat \ {0}
      BY <3>1, TenToType
    <3>3. n \div (10 * TenTo[k - i]) = m \div TenTo[k - i]
      <4>1. 10 \in Nat \ {0}
        OBVIOUS
      <4> QED
        BY <3>2, <4>1, DivisionTwice DEF m
    <3> HIDE DEF p, q
    <3>4. q[i] = (n \div TenTo[k + 1 - i]) % 10
      BY <2>6, <3>1
    <3> QED
      BY <2>5, <3>2, <3>3, <3>4
  <2>8. q[k + 1] = d
    <3>1. k + 1 \in 1..(k + 1) /\ k + 1 - (k + 1) = 0
      OBVIOUS
    <3> HIDE DEF q
    <3>2. q[k + 1] = (n \div 1) % 10
      BY <2>6, <3>1, TenToType
    <3> QED
      BY <3>2
  <2> HIDE DEF p, q, d
  <2>9. q = Append(p, d)
    <3>1. d \in AllDigits
      BY <2>1 DEF AllDigits
    <3> DEFINE r == Append(p, d)
    <3>2. r \in Seq(AllDigits) /\ Len(r) = k + 1 /\ r[k + 1] = d /\ \A i \in 1..k : r[i] = p[i]
      BY <2>5, <3>1
    <3> HIDE DEF r
    <3>3. \A i \in 1..(k + 1) : q[i] = r[i]
      <4>1. \A i \in 1..(k + 1) : i \in 1..k \/ i = k + 1
        OBVIOUS
      <4> QED
        BY <2>7, <2>8, <3>2, <4>1
    <3>4. q = r
      BY <2>6, <3>2, <3>3, SeqEqual
    <3> QED
      BY <3>4 DEF r
  <2>10. p \in Seq(Nat) /\ d \in Nat
    BY <2>1, <2>5, DigitsAreNumbers
  <2>11. Decimal(Append(p, d)) = 10 * Decimal(p) + d
    BY <2>10, DecimalAppend
  <2>12. Decimal(q) = n
    BY <2>1, <2>4, <2>9, <2>11
  <2> QED
    BY <2>12 DEF q
<1>4. Nat \subseteq K
  <2> HIDE DEF K
  <2> QED
    BY <1>2, <1>3, Induction
<1> QED
  BY <1>1, <1>4

\* The string of a number: its digits, without zeroes in front.
IsNumeral(s, n) ==
  /\ s \in Seq(AllDigits) /\ Len(s) >= 1
  /\ Decimal(s) = n
  /\ s[1] = 0 => Len(s) = 1

\* A string of digits without zeroes in front is not less than a power of 10.
LEMMA NumeralBound ==
  ASSUME NEW n, NEW s, IsNumeral(s, n)
  PROVE  /\ n \in Nat /\ Len(s) \in Nat /\ n < TenTo[Len(s)]
         /\ n = 0 \/ n >= TenTo[Len(s) - 1]
         /\ s[1] # 0 => n >= TenTo[Len(s) - 1]
<1> DEFINE t == SubSeq(s, 2, Len(s))
           p == SubSeq(s, 1, 1)
<1>1. s \in Seq(AllDigits) /\ Len(s) \in Nat /\ Len(s) >= 1 /\ Decimal(s) = n
      /\ s[1] \in 0..9 /\ (s[1] = 0 => Len(s) = 1)
  BY DigitsAreNumbers DEF IsNumeral
<1>2. n \in Nat /\ n < TenTo[Len(s)]
  BY <1>1, DecimalBound
<1>3. p \in Seq(AllDigits) /\ t \in Seq(AllDigits) /\ Len(t) = Len(s) - 1 /\ s = p \o t
  <2>1. 1 \in 0..Len(s) /\ 1 + 1 = 2
    BY <1>1
  <2> QED
    BY <1>1, <2>1, DigitsPart
<1>4. p = Append(<<>>, s[1])
  <2>1. 1 \in 1..(Len(s) + 1) /\ 1 \in 0..Len(s) /\ s[1] \in AllDigits
    BY <1>1
  <2>2. Len(p) = 1 /\ p[1] = s[1]
    BY <1>1, <2>1
  <2>3. <<s[1]>> \in Seq(AllDigits) /\ Len(<<s[1]>>) = 1 /\ <<s[1]>>[1] = s[1]
    BY <2>1
  <2> HIDE DEF p
  <2>4. p = <<s[1]>>
    BY <1>3, <2>2, <2>3, SeqEqual
  <2> QED
    BY <2>4
<1> HIDE DEF p, t
<1>5. Decimal(p) = s[1]
  <2>1. <<>> \in Seq(Nat) /\ s[1] \in Nat
    BY <1>1
  <2>2. Decimal(Append(<<>>, s[1])) = 10 * Decimal(<<>>) + s[1]
    BY <2>1, DecimalAppend
  <2>3. Decimal(Append(<<>>, s[1])) = 10 * 0 + s[1]
    BY <2>2, DecimalEmpty, Zenon
  <2> QED
    BY <1>4, <2>1, <2>3
<1>6. n = s[1] * TenTo[Len(s) - 1] + Decimal(t)
  <2>1. p \in Seq(Nat) /\ t \in Seq(Nat)
    BY <1>3, DigitsAreNumbers
  <2>2. Decimal(p \o t) = Decimal(p) * TenTo[Len(t)] + Decimal(t)
    BY <2>1, DecimalConcat
  <2> QED
    BY <1>1, <1>3, <1>5, <2>2
<1>7. Decimal(t) \in Nat
  BY <1>3, DecimalBound
<1>8. TenTo[Len(s) - 1] \in Nat \ {0}
  <2>1. Len(s) - 1 \in Nat
    BY <1>1
  <2> QED
    BY <2>1, TenToType
<1>9. ASSUME s[1] # 0 PROVE n >= TenTo[Len(s) - 1]
  <2>1. \A a \in 1..9, b, c \in Nat : a * b + c >= b
    OBVIOUS
  <2>2. s[1] \in 1..9
    BY <1>1, <1>9
  <2> QED
    BY <1>6, <1>7, <1>8, <2>1, <2>2
<1>10. ASSUME s[1] = 0 PROVE n = 0
  <2>1. Len(t) = 0
    BY <1>1, <1>3, <1>10
  <2>2. t = <<>>
    BY <1>3, <2>1
  <2>3. Decimal(t) = 0
    BY <2>2, DecimalEmpty, Zenon
  <2> QED
    BY <1>6, <1>8, <1>10, <2>3
<1> QED
  BY <1>1, <1>2, <1>9, <1>10

\* A number has one string of digits.
LEMMA NumeralUnique ==
  ASSUME NEW n, NEW s, NEW t, IsNumeral(s, n), IsNumeral(t, n)
  PROVE  s = t
<1> DEFINE a == Len(s)
           b == Len(t)
<1>1. /\ n \in Nat /\ a \in Nat /\ n < TenTo[a]
      /\ n = 0 \/ n >= TenTo[a - 1]
      /\ s[1] # 0 => n >= TenTo[a - 1]
  BY NumeralBound
<1>2. /\ b \in Nat /\ n < TenTo[b]
      /\ n = 0 \/ n >= TenTo[b - 1]
      /\ t[1] # 0 => n >= TenTo[b - 1]
  BY NumeralBound
<1>3. /\ s \in Seq(AllDigits) /\ a >= 1 /\ Decimal(s) = n /\ (s[1] = 0 => a = 1)
      /\ t \in Seq(AllDigits) /\ b >= 1 /\ Decimal(t) = n /\ (t[1] = 0 => b = 1)
  BY DEF IsNumeral
<1> HIDE DEF a, b
<1>4. a - 1 \in Nat /\ b - 1 \in Nat
  BY <1>1, <1>2, <1>3
<1>5. TenTo[a - 1] \in Nat \ {0} /\ TenTo[b - 1] \in Nat \ {0} /\ TenTo[a] \in Nat
      /\ TenTo[b] \in Nat
  BY <1>1, <1>2, <1>4, TenToType
<1>6. a = b
  <2>1. CASE n = 0
    <3>1. s[1] = 0 /\ t[1] = 0
      BY <1>1, <1>2, <1>5, <2>1
    <3> QED
      BY <1>3, <3>1
  <2>2. CASE n # 0
    <3>1. ASSUME a < b PROVE FALSE
      <4>1. a <= b - 1
        BY <1>1, <1>2, <3>1
      <4>2. TenTo[a] <= TenTo[b - 1]
        BY <1>1, <1>4, <4>1, TenToGrows
      <4> QED
        BY <1>1, <1>2, <1>5, <2>2, <4>2
    <3>2. ASSUME b < a PROVE FALSE
      <4>1. b <= a - 1
        BY <1>1, <1>2, <3>2
      <4>2. TenTo[b] <= TenTo[a - 1]
        BY <1>2, <1>4, <4>1, TenToGrows
      <4> QED
        BY <1>1, <1>2, <1>5, <2>2, <4>2
    <3> QED
      BY <1>1, <1>2, <3>1, <3>2
  <2> QED
    BY <2>1, <2>2
<1>7. Padded(n, a) = s /\ Padded(n, b) = t
  BY <1>3, PaddedDecimal DEF a, b
<1> QED
  BY <1>6, <1>7

\* (string) of a number is the string of its digits, when len is the least length for it.
LEMMA PaddedIsNumeral ==
  ASSUME NEW n \in Nat, NEW len \in Nat \ {0}, n < TenTo[len],
         \A k \in 1..(len - 1) : n >= TenTo[k]
  PROVE  IsNumeral(Padded(n, len), n)
<1> DEFINE s == Padded(n, len)
<1>1. s \in Seq(AllDigits) /\ Len(s) = len /\ Decimal(s) = n
  <2>1. len \in Nat
    OBVIOUS
  <2> QED
    BY <2>1, DecimalPadded
<1>2. ASSUME len # 1 PROVE s[1] # 0
  <2>1. len - 1 \in Nat /\ len - 1 \in 1..(len - 1) /\ (len - 1) + 1 = len /\ 1 \in 1..len
    BY <1>2
  <2> DEFINE t == TenTo[len - 1]
  <2>2. t \in Nat \ {0} /\ n >= t /\ n < 10 * t
    BY <2>1, TenToType
  <2>3. s[1] = (n \div t) % 10
    BY <2>1 DEF Padded
  <2> HIDE DEF t
  <2>4. n \div t \in Nat /\ n % t \in 0..(t - 1) /\ n = (n \div t) * t + (n % t)
    BY <2>2, Quotient
  <2>5. ASSUME n \div t >= 10 PROVE FALSE
    <3>1. \A q \in Nat : q >= 10 => q * t >= 10 * t
      BY <2>2
    <3>2. (n \div t) * t >= 10 * t
      BY <2>4, <2>5, <3>1
    <3>3. (n \div t) * t \in Nat /\ 10 * t \in Nat
      BY <2>2, <2>4
    <3> QED
      BY <2>2, <2>4, <3>2, <3>3
  <2>6. n \div t # 0
    <3>1. ASSUME n \div t = 0 PROVE FALSE
      <4>1. n = n % t
        BY <2>2, <2>4, <3>1
      <4> QED
        BY <2>2, <2>4, <4>1
    <3> QED
      BY <3>1
  <2>7. \A q \in Nat : ~ (q >= 10) /\ q # 0 => q % 10 # 0
    OBVIOUS
  <2> QED
    BY <2>3, <2>4, <2>5, <2>6, <2>7
<1> HIDE DEF s
<1>3. IsNumeral(s, n)
  BY <1>1, <1>2 DEF IsNumeral
<1> QED
  BY <1>3 DEF s

\* There is a least length for every number.
LEMMA LeastLength ==
  ASSUME NEW n \in Nat
  PROVE  \E len \in Nat \ {0} : n < TenTo[len] /\ \A k \in 1..(len - 1) : n >= TenTo[k]
<1> DEFINE S == {l \in Nat \ {0} : n < TenTo[l]}
<1>1. n + 1 \in S
  <2>1. n + 1 \in Nat /\ n < n + 1
    OBVIOUS
  <2>2. n + 1 < TenTo[n + 1] /\ TenTo[n + 1] \in Nat
    BY <2>1, TenToGrows, TenToType
  <2> QED
    BY <2>1, <2>2
<1>2. PICK l \in S : \A k \in S : l <= k
  <2>1. S \subseteq Nat /\ S # {}
    BY <1>1
  <2> HIDE DEF S
  <2> QED
    BY <2>1, HasLeast
<1>3. ASSUME NEW k \in 1..(l - 1) PROVE n >= TenTo[k]
  <2>1. k \in Nat \ {0} /\ ~ (l <= k)
    OBVIOUS
  <2>2. ~ (n < TenTo[k]) /\ TenTo[k] \in Nat
    BY <1>2, <2>1, TenToType
  <2> QED
    BY <2>2
<1> QED
  BY <1>2, <1>3

\* (string) of a group is the string of its digits.
LEMMA PlainIsNumeral ==
  ASSUME NEW n \in Nat, n < TEN_MILLION
  PROVE  IsNumeral(Plain(n), n)
<1> DEFINE P(l) == n < TenTo[l] /\ \A k \in 1..(l - 1) : n >= TenTo[k]
           len == CHOOSE l \in 1..GroupDigits : P(l)
<1>1. GroupDigits \in Nat \ {0} /\ n < TenTo[GroupDigits]
  BY GroupDigitsAssumption DEF TEN_MILLION
<1>2. PICK l \in Nat \ {0} : P(l)
  BY LeastLength
<1>3. l \in 1..GroupDigits
  <2>1. ASSUME GroupDigits < l PROVE FALSE
    <3>1. GroupDigits \in 1..(l - 1)
      BY <1>1, <2>1
    <3>2. n >= TenTo[GroupDigits] /\ TenTo[GroupDigits] \in Nat
      BY <1>1, <1>2, <3>1, TenToType
    <3> QED
      BY <1>1, <3>2
  <2> QED
    BY <1>1, <2>1
<1>4. len \in 1..GroupDigits /\ P(len)
  <2> HIDE DEF P
  <2> QED
    BY <1>2, <1>3
<1>5. Plain(n) = Padded(n, len)
  BY DEF Plain
<1>6. len \in Nat \ {0}
  <2> HIDE DEF len
  <2> QED
    BY <1>1, <1>4
<1> HIDE DEF len
<1> QED
  BY <1>4, <1>5, <1>6, PaddedIsNumeral

(***************************************************************************)
(* Phone numbers and identifiers                                           *)
(***************************************************************************)

\* The digits of two groups, one after the other, are those of the number.
LEMMA NumeralConcat ==
  ASSUME NEW n \in Nat, n >= TEN_MILLION, NEW s, IsNumeral(s, n \div TEN_MILLION)
  PROVE  IsNumeral(s \o Padded(n % TEN_MILLION, GroupDigits), n)
<1> DEFINE q == n \div TEN_MILLION
           r == n % TEN_MILLION
           t == Padded(r, GroupDigits)
<1>1. GroupDigits \in Nat \ {0} /\ TEN_MILLION = TenTo[GroupDigits]
      /\ TEN_MILLION \in Nat \ {0}
  BY GroupDigitsAssumption, TenToType DEF TEN_MILLION
<1>2. q \in Nat /\ r \in 0..(TEN_MILLION - 1) /\ n = q * TEN_MILLION + r
  BY <1>1, Quotient
<1>3. q # 0
  <2>1. ASSUME q = 0 PROVE FALSE
    <3>1. n = r
      BY <1>1, <1>2, <2>1
    <3> HIDE DEF r
    <3> QED
      BY <1>1, <1>2, <3>1
  <2> QED
    BY <2>1
<1>4. IsNumeral(s, q)
  OBVIOUS
<1> HIDE DEF q, r
<1>5. t \in Seq(AllDigits) /\ Len(t) = GroupDigits /\ Decimal(t) = r
  <2>1. GroupDigits \in Nat /\ r \in Nat /\ r < TenTo[GroupDigits]
    BY <1>1, <1>2
  <2> QED
    BY <2>1, DecimalPadded
<1> HIDE DEF t
<1>6. s \in Seq(AllDigits) /\ Len(s) >= 1 /\ Len(s) \in Nat /\ Decimal(s) = q
      /\ (s[1] = 0 => Len(s) = 1)
  BY <1>4, NumeralBound DEF IsNumeral
<1>7. s[1] # 0
  <2>1. ASSUME s[1] = 0 PROVE FALSE
    <3>1. q < TenTo[1] /\ Padded(q, 1) = s
      BY <1>4, <1>6, <2>1, NumeralBound, PaddedDecimal
    <3>2. TenTo[1] = 10 /\ TenTo[0] = 1
      <4>1. 0 \in Nat /\ 0 + 1 = 1
        OBVIOUS
      <4> QED
        BY <4>1, TenToType
    <3>3. s[1] = (q \div 1) % 10
      <4>1. 1 \in 1..1 /\ 1 - 1 = 0
        OBVIOUS
      <4> QED
        BY <3>1, <3>2, <4>1 DEF Padded
    <3>4. \A x \in Nat : x < 10 /\ (x \div 1) % 10 = 0 => x = 0
      OBVIOUS
    <3> QED
      BY <1>2, <1>3, <2>1, <3>1, <3>2, <3>3, <3>4
  <2> QED
    BY <2>1
<1>8. Decimal(s \o t) = n
  <2>1. s \in Seq(Nat) /\ t \in Seq(Nat)
    BY <1>5, <1>6, DigitsAreNumbers
  <2>2. Decimal(s \o t) = Decimal(s) * TenTo[Len(t)] + Decimal(t)
    BY <2>1, DecimalConcat
  <2>3. Decimal(s \o t) = q * TEN_MILLION + r
    BY <1>1, <1>5, <1>6, <2>2
  <2> QED
    BY <1>2, <2>3
<1>9. s \o t \in Seq(AllDigits) /\ Len(s \o t) >= 1 /\ (s \o t)[1] = s[1]
  BY <1>1, <1>5, <1>6
<1> QED
  BY <1>7, <1>8, <1>9 DEF IsNumeral, t, r

\* Every number has a string of digits.
LEMMA NumeralExists == \A n \in Nat : \E s : IsNumeral(s, n)
<1> SUFFICES ASSUME NEW n \in Nat PROVE \E s : IsNumeral(s, n)
  OBVIOUS
<1>1. PICK len \in Nat \ {0} : n < TenTo[len] /\ \A k \in 1..(len - 1) : n >= TenTo[k]
  BY LeastLength
<1>2. IsNumeral(Padded(n, len), n)
  BY <1>1, PaddedIsNumeral
<1> QED
  BY <1>2

\* numToPhone() restores the digits of the number.
LEMMA NumToPhoneIsNumeral ==
  ASSUME NEW num \in Nat
  PROVE  IsNumeral(NumToPhone(num), num)
<1> DEFINE Numeral(n) == CHOOSE s : IsNumeral(s, n)
           g == [n \in Nat |-> Numeral(n)]
           Body(n, rest) == IF n < TEN_MILLION THEN Plain(n)
                            ELSE rest \o Padded(n % TEN_MILLION, GroupDigits)
           G(f) == [n \in Nat |-> IF n < TEN_MILLION THEN Plain(n)
                                  ELSE f[n \div TEN_MILLION]
                                          \o Padded(n % TEN_MILLION, GroupDigits)]
           h == CHOOSE f : f = G(f)
<1>1. TEN_MILLION \in Nat \ {0}
  BY GroupDigitsAssumption, TenToType DEF TEN_MILLION
<1>2. \A n \in Nat : IsNumeral(Numeral(n), n)
  BY NumeralExists
<1>3. \A n \in Nat : g[n] = Numeral(n)
  OBVIOUS
<1> HIDE DEF Numeral
<1>4. ASSUME NEW n \in Nat PROVE n \div TEN_MILLION \in Nat
  BY <1>1, Quotient
<1>5. ASSUME NEW n \in Nat PROVE g[n] = Body(n, g[n \div TEN_MILLION])
  <2>1. CASE n < TEN_MILLION
    <3>1. IsNumeral(Plain(n), n)
      BY <2>1, PlainIsNumeral
    <3>2. Plain(n) = Numeral(n)
      BY <1>2, <3>1, NumeralUnique
    <3> QED
      BY <2>1, <3>2
  <2>2. CASE ~ (n < TEN_MILLION)
    <3> DEFINE s == Numeral(n \div TEN_MILLION)
               t == s \o Padded(n % TEN_MILLION, GroupDigits)
    <3>1. IsNumeral(s, n \div TEN_MILLION)
      BY <1>2, <1>4
    <3>2. n >= TEN_MILLION
      BY <1>1, <2>2
    <3>3. IsNumeral(t, n)
      <4> HIDE DEF s
      <4> QED
        BY <3>1, <3>2, NumeralConcat
    <3>4. t = Numeral(n)
      <4> HIDE DEF t
      <4> QED
        BY <1>2, <3>3, NumeralUnique
    <3>5. g[n \div TEN_MILLION] = s
      BY <1>3, <1>4
    <3>6. g[n] = Numeral(n)
      BY <1>3
    <3> HIDE DEF g
    <3> QED
      BY <2>2, <3>4, <3>5, <3>6
  <2> QED
    BY <2>1, <2>2
<1>6. g = G(g)
  <2>1. \A n \in Nat : g[n] = G(g)[n]
    <3>1. \A n \in Nat : G(g)[n] = Body(n, g[n \div TEN_MILLION])
      <4> HIDE DEF g
      <4> QED
        OBVIOUS
    <3> HIDE DEF g, G, Body
    <3> QED
      BY <1>5, <3>1
  <2>2. G(g) = [n \in Nat |-> G(g)[n]]
    <3> HIDE DEF g
    <3> QED
      OBVIOUS
  <2>3. g = [n \in Nat |-> g[n]]
    OBVIOUS
  <2> HIDE DEF g, G
  <2> QED
    BY <2>1, <2>2, <2>3, Zenon
<1>7. h = G(h)
  <2> HIDE DEF G, g
  <2> QED
    BY <1>6
<1>8. \A n \in Nat : h[n] = Body(n, h[n \div TEN_MILLION])
  <2>1. \A n \in Nat : G(h)[n] = Body(n, h[n \div TEN_MILLION])
    <3> HIDE DEF h
    <3> QED
      OBVIOUS
  <2> HIDE DEF h, G, Body
  <2> QED
    BY <1>7, <2>1
<1>9. NumToPhone(num) = h[num]
  BY DEF NumToPhone
<1> HIDE DEF h, G
<1> DEFINE Bad == {n \in Nat : ~ IsNumeral(h[n], n)}
<1>10. ASSUME Bad # {} PROVE FALSE
  <2>1. PICK n \in Bad : \A k \in Bad : n <= k
    <3>1. Bad \subseteq Nat
      OBVIOUS
    <3> HIDE DEF Bad
    <3> QED
      BY <1>10, <3>1, HasLeast
  <2>2. n \in Nat /\ ~ IsNumeral(h[n], n)
    BY <2>1
  <2>3. CASE n < TEN_MILLION
    <3>1. h[n] = Plain(n)
      BY <1>8, <2>2, <2>3
    <3> QED
      BY <2>2, <2>3, <3>1, PlainIsNumeral
  <2>4. CASE ~ (n < TEN_MILLION)
    <3> DEFINE q == n \div TEN_MILLION
    <3>1. q \in Nat /\ n % TEN_MILLION \in 0..(TEN_MILLION - 1)
          /\ n = q * TEN_MILLION + (n % TEN_MILLION)
      BY <1>1, <2>2, Quotient
    <3>2. q < n
      <4>1. GroupDigits \in Nat \ {0} /\ TEN_MILLION > 1
        <5>1. GroupDigits \in Nat \ {0}
          BY GroupDigitsAssumption
        <5>2. GroupDigits < TenTo[GroupDigits] /\ TenTo[GroupDigits] \in Nat
          BY <5>1, TenToGrows, TenToType
        <5> QED
          BY <5>1, <5>2 DEF TEN_MILLION
      <4>2. \A x, m, r \in Nat : m > 1 /\ x * m + r >= m => x < x * m + r
        OBVIOUS
      <4> HIDE DEF q
      <4> QED
        BY <1>1, <2>2, <2>4, <3>1, <4>1, <4>2
    <3>3. IsNumeral(h[q], q)
      <4>1. q \notin Bad
        <5> HIDE DEF q, Bad
        <5> QED
          BY <2>1, <2>2, <3>1, <3>2
      <4> HIDE DEF q
      <4> QED
        BY <3>1, <4>1
    <3>4. h[n] = h[q] \o Padded(n % TEN_MILLION, GroupDigits)
      BY <1>8, <2>2, <2>4
    <3>5. n >= TEN_MILLION
      BY <1>1, <2>2, <2>4
    <3>6. IsNumeral(h[q] \o Padded(n % TEN_MILLION, GroupDigits), n)
      BY <2>2, <3>3, <3>5, NumeralConcat
    <3> QED
      BY <2>2, <3>4, <3>6
  <2> QED
    BY <2>3, <2>4
<1> QED
  BY <1>9, <1>10

\* phoneToNum() adds up the groups to the number that the digits stand for.
LEMMA PhoneToNumIsDecimal ==
  ASSUME NEW str \in Seq(AllDigits)
  PROVE  PhoneToNum(str) = Decimal(str)
<1> DEFINE n == Len(str)
           g == [len \in 0..Len(str) |-> Decimal(SubSeq(str, 1, len))]
           Body(len, rest) ==
             IF len <= GroupDigits THEN Decimal(SubSeq(str, 1, len))
             ELSE Decimal(SubSeq(str, len - GroupDigits + 1, len)) + TEN_MILLION * rest
           G(f) == [len \in 0..Len(str) |->
                      IF len <= GroupDigits THEN Decimal(SubSeq(str, 1, len))
                      ELSE Decimal(SubSeq(str, len - GroupDigits + 1, len))
                             + TEN_MILLION * f[len - GroupDigits]]
           h == CHOOSE f : f = G(f)
<1>1. n \in Nat /\ GroupDigits \in Nat \ {0} /\ TEN_MILLION = TenTo[GroupDigits]
      /\ TEN_MILLION \in Nat
  <2>1. n \in Nat /\ GroupDigits \in Nat \ {0}
    BY GroupDigitsAssumption
  <2> QED
    BY <2>1, TenToType DEF TEN_MILLION
<1>2. ASSUME NEW len \in 0..n, ~ (len <= GroupDigits)
      PROVE  len - GroupDigits \in 0..n /\ Body(len, g[len - GroupDigits]) = g[len]
  <2> DEFINE k == len - GroupDigits
             u == SubSeq(str, 1, len)
             a == SubSeq(str, 1, k)
             b == SubSeq(str, k + 1, len)
  <2>1. k \in 0..n /\ 1 \in 1..(Len(str) + 1) /\ k \in (1 - 1)..Len(str) /\ len \in k..Len(str)
        /\ len - k = GroupDigits
    BY <1>1, <1>2
  <2>2. a \o b = u
    <3> HIDE DEF k
    <3> QED
      BY <2>1, ConcatAdjacentSubSeq
  <2>3. a \in Seq(AllDigits) /\ b \in Seq(AllDigits) /\ Len(b) = GroupDigits
    <3>1. b = SubSeq(str, k + 1, len) /\ k + 1 \in Nat
      BY <2>1
    <3> HIDE DEF k
    <3> QED
      BY <1>1, <2>1
  <2>4. a \in Seq(Nat) /\ b \in Seq(Nat) /\ Decimal(a) \in Nat /\ Decimal(b) \in Nat
    <3> HIDE DEF a, b
    <3> QED
      BY <2>3, DigitsAreNumbers, DecimalBound
  <2>5. g[k] = Decimal(a) /\ g[len] = Decimal(u)
    BY <2>1
  <2> HIDE DEF a, b, u, g
  <2>6. Decimal(u) = Decimal(a) * TEN_MILLION + Decimal(b)
    BY <1>1, <2>2, <2>3, <2>4, DecimalConcat
  <2>7. Body(len, g[k]) = Decimal(b) + TEN_MILLION * Decimal(a)
    BY <1>2, <2>5 DEF b, k
  <2>8. \A x, y, z \in Nat : x * y + z = z + y * x
    OBVIOUS
  <2> HIDE DEF Body
  <2> QED
    BY <1>1, <2>1, <2>4, <2>5, <2>6, <2>7, <2>8 DEF k
<1>3. \A len \in 0..n : len <= GroupDigits => \A rest : Body(len, rest) = g[len]
  OBVIOUS
<1>4. g = G(g)
  <2>1. \A len \in 0..n : g[len] = G(g)[len]
    <3>1. \A len \in 0..n : G(g)[len] = Body(len, g[len - GroupDigits])
      <4> HIDE DEF g
      <4> QED
        OBVIOUS
    <3> HIDE DEF g, G, Body, n
    <3> QED
      BY <1>2, <1>3, <3>1
  <2>2. G(g) = [len \in 0..n |-> G(g)[len]]
    <3> HIDE DEF g
    <3> QED
      OBVIOUS
  <2>3. g = [len \in 0..n |-> g[len]]
    OBVIOUS
  <2> HIDE DEF g, G
  <2> QED
    BY <2>1, <2>2, <2>3, Zenon
<1>5. h = G(h)
  <2> HIDE DEF G, g
  <2> QED
    BY <1>4
<1>6. \A len \in 0..n : h[len] = Body(len, h[len - GroupDigits])
  <2>1. \A len \in 0..n : G(h)[len] = Body(len, h[len - GroupDigits])
    <3> HIDE DEF h
    <3> QED
      OBVIOUS
  <2> HIDE DEF h, G, Body
  <2> QED
    BY <1>5, <2>1
<1>7. PhoneToNum(str) = h[n]
  BY DEF PhoneToNum
<1>8. g[n] = Decimal(str)
  <2>1. n \in 0..n /\ SubSeq(str, 1, n) = str
    BY <1>1, SubSeqFull
  <2>2. g[n] = Decimal(SubSeq(str, 1, n))
    BY <2>1
  <2> HIDE DEF g, n
  <2> QED
    BY <2>1, <2>2
<1> HIDE DEF h, G, g, Body, n
<1> DEFINE Bad == {len \in 0..n : h[len] # g[len]}
<1>9. ASSUME Bad # {} PROVE FALSE
  <2>1. PICK len \in Bad : \A k \in Bad : len <= k
    <3>1. Bad \subseteq Nat
      OBVIOUS
    <3> HIDE DEF Bad
    <3> QED
      BY <1>9, <3>1, HasLeast
  <2>2. len \in 0..n /\ h[len] # g[len]
    BY <2>1
  <2>3. CASE len <= GroupDigits
    BY <1>3, <1>6, <2>2, <2>3
  <2>4. CASE ~ (len <= GroupDigits)
    <3>1. len - GroupDigits \in 0..n /\ Body(len, g[len - GroupDigits]) = g[len]
      BY <1>2, <2>2, <2>4
    <3>2. ~ (len <= len - GroupDigits)
      BY <1>1, <2>2
    <3>3. h[len - GroupDigits] = g[len - GroupDigits]
      BY <2>1, <3>1, <3>2
    <3> QED
      BY <1>6, <2>2, <3>1, <3>3
  <2> QED
    BY <2>3, <2>4
<1>10. h[n] = g[n]
  <2>1. n \in 0..n
    BY <1>1
  <2> QED
    BY <1>9, <2>1
<1> QED
  BY <1>7, <1>8, <1>10

\* A phone number of whatever length survives its conversion to a number and back.
LEMMA PhoneKept ==
  ASSUME NEW str \in Seq(AllDigits), Len(str) >= 1, str[1] # 0
  PROVE  PhoneToNum(str) = Decimal(str) /\ NumToPhone(PhoneToNum(str)) = str
<1>1. PhoneToNum(str) = Decimal(str) /\ Decimal(str) \in Nat
  BY PhoneToNumIsDecimal, DecimalBound
<1>2. IsNumeral(str, Decimal(str))
  BY DEF IsNumeral
<1>3. IsNumeral(NumToPhone(Decimal(str)), Decimal(str))
  BY <1>1, NumToPhoneIsNumeral
<1>4. NumToPhone(Decimal(str)) = str
  BY <1>2, <1>3, NumeralUnique
<1> QED
  BY <1>1, <1>4

(***************************************************************************)
(* lib/uuid.c                                                              *)
(***************************************************************************)

\* The bytes of an identifier.
AllBytes == 0..255

\* The characters of one: the digits, and the sign between its parts.
AllChars == 0..16

\* hex::decodeString() finds the bytes that hex::format() was given.
LEMMA HexKept ==
  ASSUME NEW bytes \in Seq(AllBytes)
  PROVE  /\ HexFormat(bytes) \in Seq(AllChars) /\ Len(HexFormat(bytes)) = 2 * Len(bytes)
         /\ HexDecode(HexFormat(bytes)) = bytes
<1> DEFINE n == Len(bytes)
           c == HexFormat(bytes)
<1>1. n \in Nat /\ bytes = [i \in 1..n |-> bytes[i]] /\ \A i \in 1..n : bytes[i] \in 0..255
  <2>1. n \in Nat /\ bytes = [i \in 1..n |-> bytes[i]] /\ \A i \in 1..n : bytes[i] \in AllBytes
    OBVIOUS
  <2> QED
    BY <2>1 DEF AllBytes
<1>2. c = [i \in 1..(2 * n) |->
             IF i % 2 = 1 THEN bytes[(i + 1) \div 2] \div 16 ELSE bytes[i \div 2] % 16]
  BY DEF HexFormat
<1> HIDE DEF n, c
<1>3. ASSUME NEW i \in 1..(2 * n) PROVE c[i] \in AllChars
  <2>1. CASE i % 2 = 1
    <3>1. (i + 1) \div 2 \in 1..n
      BY <1>1, <2>1
    <3>2. bytes[(i + 1) \div 2] \in 0..255
      BY <1>1, <3>1
    <3>3. \A b \in 0..255 : b \div 16 \in 0..16
      OBVIOUS
    <3> QED
      BY <1>2, <2>1, <3>2, <3>3 DEF AllChars
  <2>2. CASE i % 2 # 1
    <3>1. i \div 2 \in 1..n
      BY <1>1, <2>2
    <3>2. bytes[i \div 2] \in 0..255
      BY <1>1, <3>1
    <3>3. \A b \in 0..255 : b % 16 \in 0..16
      OBVIOUS
    <3> QED
      BY <1>2, <2>2, <3>2, <3>3 DEF AllChars
  <2> QED
    BY <2>1, <2>2
<1>4. c \in Seq(AllChars) /\ Len(c) = 2 * n
  <2>1. c \in [1..(2 * n) -> AllChars]
    BY <1>2, <1>3
  <2>2. 2 * n \in Nat
    BY <1>1
  <2> QED
    BY <2>1, <2>2
<1>5. ASSUME NEW i \in 1..n PROVE 16 * c[2 * i - 1] + c[2 * i] = bytes[i]
  <2>1. 2 * i - 1 \in 1..(2 * n) /\ (2 * i - 1) % 2 = 1 /\ ((2 * i - 1) + 1) \div 2 = i
        /\ 2 * i \in 1..(2 * n) /\ (2 * i) % 2 # 1 /\ (2 * i) \div 2 = i
    <3>1. 2 * i - 1 \in 1..(2 * n) /\ 2 * i \in 1..(2 * n) /\ (2 * i - 1) + 1 = 2 * i
      BY <1>1
    <3>2. \A k \in Nat : (2 * k) % 2 # 1 /\ (2 * k) \div 2 = k
      OBVIOUS
    <3>3. \A k \in Nat : (2 * (k + 1) - 1) % 2 = 1
      OBVIOUS
    <3>4. i \in Nat /\ i - 1 \in Nat /\ (i - 1) + 1 = i
      BY <1>1
    <3>5. (2 * i - 1) % 2 = 1
      BY <3>3, <3>4
    <3> QED
      BY <3>1, <3>2, <3>4, <3>5
  <2>2. c[2 * i - 1] = bytes[i] \div 16 /\ c[2 * i] = bytes[i] % 16
    BY <1>2, <2>1
  <2>3. \A b \in 0..255 : 16 * (b \div 16) + (b % 16) = b
    OBVIOUS
  <2> QED
    BY <1>1, <2>2, <2>3
<1>6. HexDecode(c) = [i \in 1..n |-> 16 * c[2 * i - 1] + c[2 * i]]
  <2>1. (2 * n) \div 2 = n
    BY <1>1
  <2>2. HexDecode(c) = [i \in 1..(Len(c) \div 2) |-> 16 * c[2 * i - 1] + c[2 * i]]
    BY DEF HexDecode
  <2> QED
    BY <1>4, <2>1, <2>2
<1>7. HexDecode(c) = bytes
  BY <1>1, <1>5, <1>6
<1> QED
  BY <1>4, <1>7 DEF c, n

\* A function on 1..n is a sequence.
LEMMA FunctionIsSequence ==
  ASSUME NEW S, NEW n \in Nat, NEW u \in [1..n -> S]
  PROVE  u \in Seq(S) /\ Len(u) = n
<1>1. u \in Seq(S)
  BY SeqDef
<1>2. Len(u) = n
  BY <1>1, LenProperties
<1> QED
  BY <1>1, <1>2

\* A string of k characters to which others are added, from place m to place n.
IsAdded(w, x, y, k, m, n) ==
  /\ w \in Seq(AllChars) /\ Len(w) = n
  /\ SubSeq(w, m, n) = y /\ w[m] = y[1]
  /\ \A i, j \in 1..k : SubSeq(w, i, j) = SubSeq(x, i, j)
  /\ \A i \in 1..k : w[i] = x[i]

\* What is added to a string is found at its end, and what was there stays.
LEMMA AddedPart ==
  ASSUME NEW x \in Seq(AllChars), NEW y \in Seq(AllChars), NEW k \in Nat, NEW m, NEW n,
         Len(x) = k, Len(y) >= 1, m = k + 1, n = k + Len(y)
  PROVE  IsAdded(x \o y, x, y, k, m, n)
<1>1. SubSeq(x \o y, m, n) = y
  <2>1. m \in (Len(x) + 1)..(Len(x) + Len(y)) /\ n \in (Len(x) + 1)..(Len(x) + Len(y))
        /\ m - Len(x) = 1 /\ n - Len(x) = Len(y)
    OBVIOUS
  <2>2. SubSeq(x \o y, m, n) = SubSeq(y, m - Len(x), n - Len(x))
    <3>1. \A i, j \in (Len(x) + 1)..(Len(x) + Len(y)) :
            SubSeq(x \o y, i, j) = SubSeq(y, i - Len(x), j - Len(x))
      BY SubSeqOfConcat2, Zenon
    <3> QED
      BY <2>1, <3>1, Zenon
  <2>3. SubSeq(y, 1, Len(y)) = y
    BY SubSeqFull
  <2> QED
    BY <2>1, <2>2, <2>3
<1>2. \A i, j \in 1..k : SubSeq(x \o y, i, j) = SubSeq(x, i, j)
  <2>1. \A i, j \in 1..Len(x) : SubSeq(x \o y, i, j) = SubSeq(x, i, j)
    BY SubSeqOfConcat1
  <2> QED
    BY <2>1
<1>3. x \o y \in Seq(AllChars) /\ Len(x \o y) = n
      /\ (x \o y)[m] = y[1] /\ \A i \in 1..k : (x \o y)[i] = x[i]
  OBVIOUS
<1> QED
  BY <1>1, <1>2, <1>3 DEF IsAdded

\* A part of a UUID in hexadecimal digits.
LEMMA HexPart ==
  ASSUME NEW id \in Seq(AllBytes), Len(id) = 16, NEW m \in 1..16, NEW n \in m..16
  PROVE  LET part == HexFormat(SubSeq(id, m, n)) IN
         part \in Seq(AllChars) /\ Len(part) = 2 * (n - m + 1)
         /\ HexDecode(part) = SubSeq(id, m, n)
<1>1. SubSeq(id, m, n) \in Seq(AllBytes) /\ Len(SubSeq(id, m, n)) = n - m + 1
  <2>1. m \in Int /\ n \in Int /\ m <= n
    OBVIOUS
  <2>2. \A i \in 1..Len(id) : id[i] \in AllBytes
    BY ElementOfSeq, Zenon
  <2>3. \A i \in m..n : i \in 1..16
    OBVIOUS
  <2>4. \A i \in m..n : id[i] \in AllBytes
    BY <2>2, <2>3
  <2>5. /\ SubSeq(id, m, n) \in Seq(AllBytes)
        /\ Len(SubSeq(id, m, n)) = IF m <= n THEN n - m + 1 ELSE 0
    BY <2>1, <2>4, SubSeqProperties
  <2> QED
    BY <2>1, <2>5
<1> QED
  BY <1>1, HexKept

\* decode() accepts what encode() makes of 16 bytes, and finds the same bytes.
LEMMA UuidIsKept ==
  ASSUME NEW id \in Seq(AllBytes), Len(id) = 16
  PROVE  IsUuid(Encode(id)) /\ Decode(Encode(id)) = id
<1> DEFINE a == HexFormat(SubSeq(id, 1, 4))
           b == HexFormat(SubSeq(id, 5, 6))
           c == HexFormat(SubSeq(id, 7, 8))
           e == HexFormat(SubSeq(id, 9, 10))
           f == HexFormat(SubSeq(id, 11, 16))
           d == <<Dash>>
           w1 == a \o d
           w2 == w1 \o b
           w3 == w2 \o d
           w4 == w3 \o c
           w5 == w4 \o d
           w6 == w5 \o e
           w7 == w6 \o d
           w8 == w7 \o f
<1>1. Encode(id) = w8
  BY DEF Encode
<1>2. /\ a \in Seq(AllChars) /\ Len(a) = 8 /\ HexDecode(a) = SubSeq(id, 1, 4)
      /\ b \in Seq(AllChars) /\ Len(b) = 4 /\ HexDecode(b) = SubSeq(id, 5, 6)
      /\ c \in Seq(AllChars) /\ Len(c) = 4 /\ HexDecode(c) = SubSeq(id, 7, 8)
      /\ e \in Seq(AllChars) /\ Len(e) = 4 /\ HexDecode(e) = SubSeq(id, 9, 10)
      /\ f \in Seq(AllChars) /\ Len(f) = 12 /\ HexDecode(f) = SubSeq(id, 11, 16)
  <2>1. ASSUME NEW m \in 1..16, NEW n \in m..16
        PROVE  LET part == HexFormat(SubSeq(id, m, n)) IN
               part \in Seq(AllChars) /\ Len(part) = 2 * (n - m + 1)
               /\ HexDecode(part) = SubSeq(id, m, n)
    BY HexPart
  <2>2. a \in Seq(AllChars) /\ Len(a) = 8 /\ HexDecode(a) = SubSeq(id, 1, 4)
    BY <2>1
  <2>3. b \in Seq(AllChars) /\ Len(b) = 4 /\ HexDecode(b) = SubSeq(id, 5, 6)
    BY <2>1
  <2>4. c \in Seq(AllChars) /\ Len(c) = 4 /\ HexDecode(c) = SubSeq(id, 7, 8)
    BY <2>1
  <2>5. e \in Seq(AllChars) /\ Len(e) = 4 /\ HexDecode(e) = SubSeq(id, 9, 10)
    BY <2>1
  <2>6. f \in Seq(AllChars) /\ Len(f) = 12 /\ HexDecode(f) = SubSeq(id, 11, 16)
    BY <2>1
  <2> QED
    BY <2>2, <2>3, <2>4, <2>5, <2>6
<1>3. d \in Seq(AllChars) /\ Len(d) = 1 /\ d[1] = Dash
  BY DEF AllChars, Dash
<1> HIDE DEF a, b, c, d, e, f
<1>4. w1 \in Seq(AllChars) /\ Len(w1) = 9 /\ SubSeq(w1, 1, 8) = a /\ w1[9] = Dash
  <2>1. a \in Seq(AllChars) /\ d \in Seq(AllChars) /\ Len(a) = 8 /\ Len(d) = 1
    BY <1>2, <1>3
  <2>2. IsAdded(w1, a, d, 8, 9, 9)
    <3>1. 8 \in Nat /\ 1 >= 1 /\ 9 = 8 + 1 /\ 9 = 8 + 1
      OBVIOUS
    <3> QED
      BY <2>1, <3>1, AddedPart
  <2>3. 1 \in 1..8 /\ 8 \in 1..8
    OBVIOUS
  <2>4. SubSeq(a, 1, 8) = a
    BY <2>1, SubSeqFull
  <2> HIDE DEF w1
  <2> QED
    BY <1>3, <2>4, <2>2, <2>3, Zenon DEF IsAdded
<1> HIDE DEF w1
<1>5. w2 \in Seq(AllChars) /\ Len(w2) = 13 /\ SubSeq(w2, 1, 8) = a /\ w2[9] = Dash
      /\ SubSeq(w2, 10, 13) = b
  <2>1. w1 \in Seq(AllChars) /\ b \in Seq(AllChars) /\ Len(w1) = 9 /\ Len(b) = 4
    BY <1>2, <1>3, <1>4
  <2>2. IsAdded(w2, w1, b, 9, 10, 13)
    <3>1. 9 \in Nat /\ 4 >= 1 /\ 10 = 9 + 1 /\ 13 = 9 + 4
      OBVIOUS
    <3> QED
      BY <2>1, <3>1, AddedPart
  <2>3. 1 \in 1..9 /\ 8 \in 1..9 /\ 9 \in 1..9
    OBVIOUS
  <2> HIDE DEF w2
  <2> QED
    BY <1>3, <1>4, <2>2, <2>3, Zenon DEF IsAdded
<1> HIDE DEF w2
<1>6. w3 \in Seq(AllChars) /\ Len(w3) = 14 /\ SubSeq(w3, 1, 8) = a /\ w3[9] = Dash
      /\ SubSeq(w3, 10, 13) = b /\ w3[14] = Dash
  <2>1. w2 \in Seq(AllChars) /\ d \in Seq(AllChars) /\ Len(w2) = 13 /\ Len(d) = 1
    BY <1>2, <1>3, <1>5
  <2>2. IsAdded(w3, w2, d, 13, 14, 14)
    <3>1. 13 \in Nat /\ 1 >= 1 /\ 14 = 13 + 1 /\ 14 = 13 + 1
      OBVIOUS
    <3> QED
      BY <2>1, <3>1, AddedPart
  <2>3. 1 \in 1..13 /\ 8 \in 1..13 /\ 9 \in 1..13 /\ 10 \in 1..13 /\ 13 \in 1..13
    OBVIOUS
  <2> HIDE DEF w3
  <2> QED
    BY <1>3, <1>5, <2>2, <2>3, Zenon DEF IsAdded
<1> HIDE DEF w3
<1>7. w4 \in Seq(AllChars) /\ Len(w4) = 18 /\ SubSeq(w4, 1, 8) = a /\ w4[9] = Dash
      /\ SubSeq(w4, 10, 13) = b /\ w4[14] = Dash /\ SubSeq(w4, 15, 18) = c
  <2>1. w3 \in Seq(AllChars) /\ c \in Seq(AllChars) /\ Len(w3) = 14 /\ Len(c) = 4
    BY <1>2, <1>3, <1>6
  <2>2. IsAdded(w4, w3, c, 14, 15, 18)
    <3>1. 14 \in Nat /\ 4 >= 1 /\ 15 = 14 + 1 /\ 18 = 14 + 4
      OBVIOUS
    <3> QED
      BY <2>1, <3>1, AddedPart
  <2>3. 1 \in 1..14 /\ 8 \in 1..14 /\ 9 \in 1..14 /\ 10 \in 1..14 /\ 13 \in 1..14
        /\ 14 \in 1..14
    OBVIOUS
  <2> HIDE DEF w4
  <2> QED
    BY <1>3, <1>6, <2>2, <2>3, Zenon DEF IsAdded
<1> HIDE DEF w4
<1>8. w5 \in Seq(AllChars) /\ Len(w5) = 19 /\ SubSeq(w5, 1, 8) = a /\ w5[9] = Dash
      /\ SubSeq(w5, 10, 13) = b /\ w5[14] = Dash /\ SubSeq(w5, 15, 18) = c
      /\ w5[19] = Dash
  <2>1. w4 \in Seq(AllChars) /\ d \in Seq(AllChars) /\ Len(w4) = 18 /\ Len(d) = 1
    BY <1>2, <1>3, <1>7
  <2>2. IsAdded(w5, w4, d, 18, 19, 19)
    <3>1. 18 \in Nat /\ 1 >= 1 /\ 19 = 18 + 1 /\ 19 = 18 + 1
      OBVIOUS
    <3> QED
      BY <2>1, <3>1, AddedPart
  <2>3. 1 \in 1..18 /\ 8 \in 1..18 /\ 9 \in 1..18 /\ 10 \in 1..18 /\ 13 \in 1..18
        /\ 14 \in 1..18 /\ 15 \in 1..18 /\ 18 \in 1..18
    OBVIOUS
  <2> HIDE DEF w5
  <2> QED
    BY <1>3, <1>7, <2>2, <2>3, Zenon DEF IsAdded
<1> HIDE DEF w5
<1>9. w6 \in Seq(AllChars) /\ Len(w6) = 23 /\ SubSeq(w6, 1, 8) = a /\ w6[9] = Dash
      /\ SubSeq(w6, 10, 13) = b /\ w6[14] = Dash /\ SubSeq(w6, 15, 18) = c
      /\ w6[19] = Dash /\ SubSeq(w6, 20, 23) = e
  <2>1. w5 \in Seq(AllChars) /\ e \in Seq(AllChars) /\ Len(w5) = 19 /\ Len(e) = 4
    BY <1>2, <1>3, <1>8
  <2>2. IsAdded(w6, w5, e, 19, 20, 23)
    <3>1. 19 \in Nat /\ 4 >= 1 /\ 20 = 19 + 1 /\ 23 = 19 + 4
      OBVIOUS
    <3> QED
      BY <2>1, <3>1, AddedPart
  <2>3. 1 \in 1..19 /\ 8 \in 1..19 /\ 9 \in 1..19 /\ 10 \in 1..19 /\ 13 \in 1..19
        /\ 14 \in 1..19 /\ 15 \in 1..19 /\ 18 \in 1..19 /\ 19 \in 1..19
    OBVIOUS
  <2> HIDE DEF w6
  <2> QED
    BY <1>3, <1>8, <2>2, <2>3, Zenon DEF IsAdded
<1> HIDE DEF w6
<1>10. w7 \in Seq(AllChars) /\ Len(w7) = 24 /\ SubSeq(w7, 1, 8) = a /\ w7[9] = Dash
       /\ SubSeq(w7, 10, 13) = b /\ w7[14] = Dash /\ SubSeq(w7, 15, 18) = c
       /\ w7[19] = Dash /\ SubSeq(w7, 20, 23) = e /\ w7[24] = Dash
  <2>1. w6 \in Seq(AllChars) /\ d \in Seq(AllChars) /\ Len(w6) = 23 /\ Len(d) = 1
    BY <1>2, <1>3, <1>9
  <2>2. IsAdded(w7, w6, d, 23, 24, 24)
    <3>1. 23 \in Nat /\ 1 >= 1 /\ 24 = 23 + 1 /\ 24 = 23 + 1
      OBVIOUS
    <3> QED
      BY <2>1, <3>1, AddedPart
  <2>3. 1 \in 1..23 /\ 8 \in 1..23 /\ 9 \in 1..23 /\ 10 \in 1..23 /\ 13 \in 1..23
        /\ 14 \in 1..23 /\ 15 \in 1..23 /\ 18 \in 1..23 /\ 19 \in 1..23
        /\ 20 \in 1..23 /\ 23 \in 1..23
    OBVIOUS
  <2> HIDE DEF w7
  <2> QED
    BY <1>3, <1>9, <2>2, <2>3, Zenon DEF IsAdded
<1> HIDE DEF w7
<1>11. w8 \in Seq(AllChars) /\ Len(w8) = 36 /\ SubSeq(w8, 1, 8) = a /\ w8[9] = Dash
       /\ SubSeq(w8, 10, 13) = b /\ w8[14] = Dash /\ SubSeq(w8, 15, 18) = c
       /\ w8[19] = Dash /\ SubSeq(w8, 20, 23) = e /\ w8[24] = Dash
       /\ SubSeq(w8, 25, 36) = f
  <2>1. w7 \in Seq(AllChars) /\ f \in Seq(AllChars) /\ Len(w7) = 24 /\ Len(f) = 12
    BY <1>2, <1>3, <1>10
  <2>2. IsAdded(w8, w7, f, 24, 25, 36)
    <3>1. 24 \in Nat /\ 12 >= 1 /\ 25 = 24 + 1 /\ 36 = 24 + 12
      OBVIOUS
    <3> QED
      BY <2>1, <3>1, AddedPart
  <2>3. 1 \in 1..24 /\ 8 \in 1..24 /\ 9 \in 1..24 /\ 10 \in 1..24 /\ 13 \in 1..24
        /\ 14 \in 1..24 /\ 15 \in 1..24 /\ 18 \in 1..24 /\ 19 \in 1..24
        /\ 20 \in 1..24 /\ 23 \in 1..24 /\ 24 \in 1..24
    OBVIOUS
  <2> HIDE DEF w8
  <2> QED
    BY <1>3, <1>10, <2>2, <2>3, Zenon DEF IsAdded
<1> HIDE DEF w8
<1>12. IsUuid(w8)
  BY <1>11 DEF IsUuid
<1>13. Decode(w8) = SubSeq(id, 1, 4) \o SubSeq(id, 5, 6) \o SubSeq(id, 7, 8)
                      \o SubSeq(id, 9, 10) \o SubSeq(id, 11, 16)
  BY <1>2, <1>11, Zenon DEF Decode
<1>14. SubSeq(id, 1, 4) \o SubSeq(id, 5, 6) \o SubSeq(id, 7, 8)
         \o SubSeq(id, 9, 10) \o SubSeq(id, 11, 16) = id
  <2>1. ASSUME NEW k \in 1..16, NEW n \in k..16
        PROVE  SubSeq(id, 1, k) \o SubSeq(id, k + 1, n) = SubSeq(id, 1, n)
    <3>1. 1 \in 1..(Len(id) + 1) /\ k \in (1 - 1)..Len(id) /\ n \in k..Len(id)
      OBVIOUS
    <3> QED
      BY <3>1, ConcatAdjacentSubSeq
  <2>2. SubSeq(id, 1, 4) \o SubSeq(id, 5, 6) = SubSeq(id, 1, 6)
    BY <2>1
  <2>3. SubSeq(id, 1, 6) \o SubSeq(id, 7, 8) = SubSeq(id, 1, 8)
    BY <2>1
  <2>4. SubSeq(id, 1, 8) \o SubSeq(id, 9, 10) = SubSeq(id, 1, 10)
    BY <2>1
  <2>5. SubSeq(id, 1, 10) \o SubSeq(id, 11, 16) = SubSeq(id, 1, 16)
    BY <2>1
  <2>6. SubSeq(id, 1, 16) = id
    BY SubSeqFull
  <2> QED
    BY <2>2, <2>3, <2>4, <2>5, <2>6, Zenon
<1> QED
  BY <1>1, <1>12, <1>13, <1>14

\* generate() makes 16 bytes.
LEMMA GenerateType ==
  ASSUME NEW random \in [1..16 -> AllBytes]
  PROVE  Generate(random) \in [1..16 -> AllBytes]
<1>1. \A b \in AllBytes : 64 + (b % 16) \in AllBytes /\ 128 + (b % 64) \in AllBytes
  BY DEF AllBytes
<1> QED
  BY <1>1 DEF Generate

\* The digits that were dialled, and the bytes of the UUID.
IdentifierTypes ==
  /\ phoneNumber \in Seq(AllDigits)
  /\ phoneNumber # <<>> => phoneNumber[1] # 0
  /\ uuid \in [1..16 -> AllBytes]

\* They are digits and bytes at the start.
LEMMA IdentifierInit == Init => IdentifierTypes
<1>1. [i \in 1..16 |-> 0] \in [1..16 -> AllBytes]
  BY DEF AllBytes
<1>2. NilUuid \in [1..16 -> AllBytes]
  BY <1>1, GenerateType DEF NilUuid
<1> QED
  BY <1>2 DEF Init, IdentifierTypes

\* They stay digits and bytes.
LEMMA IdentifierNext == IdentifierTypes /\ [Next]_vars => IdentifierTypes'
<1> SUFFICES ASSUME IdentifierTypes, [Next]_vars PROVE IdentifierTypes'
  OBVIOUS
<1> USE DEF IdentifierTypes
<1>1. ASSUME NEW d \in Digits, Dial(d) PROVE IdentifierTypes'
  <2>1. d \in AllDigits
    BY DigitsAssumption DEF AllDigits
  <2>2. phoneNumber' = Append(phoneNumber, d) /\ uuid' = uuid /\ (phoneNumber = <<>> => d # 0)
    BY <1>1 DEF Dial
  <2>3. phoneNumber' \in Seq(AllDigits)
    BY <2>1, <2>2
  <2>4. phoneNumber'[1] # 0
    <3>1. CASE phoneNumber = <<>>
      BY <2>2, <3>1
    <3>2. CASE phoneNumber # <<>>
      <4>1. Append(phoneNumber, d)[1] = phoneNumber[1]
        BY <2>1, <3>2
      <4> QED
        BY <2>2, <3>2, <4>1
    <3> QED
      BY <3>1, <3>2
  <2> QED
    BY <2>2, <2>3, <2>4
<1>2. ASSUME NEW i \in 1..16, NEW j \in 1..16, NEW b \in Bytes, NewUuid(i, j, b)
      PROVE  IdentifierTypes'
  <2> DEFINE random == [k \in 1..16 |-> IF k \in {i, j} THEN b ELSE 0]
  <2>1. random \in [1..16 -> AllBytes]
    BY BytesAssumption DEF AllBytes
  <2>2. phoneNumber' = phoneNumber /\ uuid' = Generate(random)
    BY <1>2 DEF NewUuid
  <2> HIDE DEF random
  <2>3. uuid' \in [1..16 -> AllBytes]
    BY <2>1, <2>2, GenerateType
  <2> QED
    BY <2>2, <2>3
<1>3. ASSUME UNCHANGED vars PROVE IdentifierTypes'
  BY <1>3 DEF vars
<1> QED
  BY <1>1, <1>2, <1>3 DEF Next

\* lib/phone.c and lib/uuid.c: a phone number is the same number and the same digits
\* after phoneToNum() and numToPhone(), however long it is and however many digits are
\* in a group, and decode() finds the bytes of which encode() made a UUID.
THEOREM IdentifiersAreKept == Spec => []IdentifiersKept
<1>1. IdentifierTypes => IdentifiersKept
  <2> SUFFICES ASSUME IdentifierTypes PROVE IdentifiersKept
    OBVIOUS
  <2>1. PhoneNumberKept
    <3> SUFFICES ASSUME phoneNumber # <<>>
                 PROVE  /\ PhoneToNum(phoneNumber) = Decimal(phoneNumber)
                        /\ NumToPhone(PhoneToNum(phoneNumber)) = phoneNumber
      BY DEF PhoneNumberKept
    <3>1. phoneNumber \in Seq(AllDigits) /\ Len(phoneNumber) >= 1 /\ phoneNumber[1] # 0
      BY DEF IdentifierTypes
    <3> QED
      BY <3>1, PhoneKept
  <2>2. UuidKept
    <3>1. uuid \in [1..16 -> AllBytes] /\ 16 \in Nat
      BY DEF IdentifierTypes
    <3>2. uuid \in Seq(AllBytes) /\ Len(uuid) = 16
      BY <3>1, FunctionIsSequence
    <3> QED
      BY <3>2, UuidIsKept DEF UuidKept
  <2> QED
    BY <2>1, <2>2 DEF IdentifiersKept
<1> QED
  BY <1>1, IdentifierInit, IdentifierNext, PTL DEF Spec

(***************************************************************************)
(* The registry of REST calls                                              *)
(***************************************************************************)

\* The routes, the names that are in one, and these with what is filled in for parameters
\* and queries.
RouteSet == {Routes[i] : i \in DOMAIN Routes}
NamesOf(r) == {r.host, r.method, r.query} \cup {r.path[i] : i \in DOMAIN r.path}
Names == Values \cup Queries \cup {"{}", ""} \cup UNION {NamesOf(r) : r \in RouteSet}

\* A segment is a pair of names.
Word == Names \X Names

\* Where the walk of lookup() is, a node and the parameters so far, and where it starts.
Places == [node : Seq(Word), args : Seq(Word), found : BOOLEAN]
AtRoot == [node |-> <<>>, args |-> <<>>, found |-> TRUE]

\* A step of lookup() leads to a place.
LEMMA StepType ==
  ASSUME NEW at \in Places, NEW segment \in Word
  PROVE  Step(at, segment) \in Places
<1>1. Param \in Word
  <2>1. "{}" \in Names /\ "" \in Names
    BY DEF Names
  <2> QED
    BY <2>1 DEF Param, Segment, Word
<1>2. at.node \in Seq(Word) /\ at.args \in Seq(Word) /\ at.found \in BOOLEAN
      /\ Append(at.node, segment) \in Seq(Word) /\ Append(at.node, Param) \in Seq(Word)
      /\ Append(at.args, segment) \in Seq(Word)
  BY <1>1 DEF Places
<1>3. [at EXCEPT !.node = Append(@, segment)] \in Places
  BY <1>2 DEF Places
<1>4. [node |-> Append(at.node, Param), args |-> Append(at.args, segment), found |-> at.found]
        \in Places
  BY <1>2 DEF Places
<1>5. [at EXCEPT !.found = FALSE] \in Places
  BY <1>2 DEF Places
<1> QED
  BY <1>3, <1>4, <1>5, Zenon DEF Step

\* What each step of the walk of lookup() does.
IsWalk(w, s) ==
  /\ w[0] = AtRoot
  /\ \A i \in 1..Len(s) :
       w[i] = IF w[i - 1].found THEN Step(w[i - 1], s[i]) ELSE w[i - 1]

\* What lookup() returns after a walk.
FoundAt(at, s) ==
  IF at.found /\ at.node \in DOMAIN calls
  THEN [segments |-> s, function |-> calls[at.node], args |-> at.args]
  ELSE [NoHandle EXCEPT !.segments = s]

\* lookup() walks through the whole path.
LEMMA LookupWalks ==
  ASSUME NEW s \in Seq(Word)
  PROVE  \E w : IsWalk(w, s) /\ Lookup(s) = FoundAt(w[Len(s)], s)
<1> DEFINE n == Len(s)
           F(v, i) == IF v.found THEN Step(v, s[i]) ELSE v
           step == [p \in Places \X Nat |-> IF p[2] \in 1..n THEN F(p[1], p[2]) ELSE p[1]]
           G(w) == [i \in 0..Len(s) |->
                      IF i = 0 THEN [node |-> <<>>, args |-> <<>>, found |-> TRUE]
                      ELSE IF w[i - 1].found THEN Step(w[i - 1], s[i]) ELSE w[i - 1]]
           h == CHOOSE w : w = G(w)
<1>1. n \in Nat /\ \A i \in 1..n : s[i] \in Word
  OBVIOUS
<1>2. \A v \in Places, i \in 1..n : F(v, i) \in Places
  BY <1>1, StepType
<1> HIDE DEF F
<1>3. step \in [Places \X Nat -> Places]
  BY <1>2
<1>4. \A v \in Places, i \in 1..n : step[<<v, i>>] = F(v, i)
  BY <1>1
<1>5. AtRoot \in Places
  BY DEF AtRoot, Places
<1>6. PICK f \in [0..n -> Places] : IsRecursion(f, AtRoot, step, 0..n)
  <2> HIDE DEF step, n
  <2> QED
    BY <1>1, <1>3, <1>5, RecursionExists
<1>7. ASSUME NEW i \in 1..n PROVE f[i] = F(f[i - 1], i)
  <2>1. i \in (0..n) \ {0} /\ i - 1 \in 0..n
    BY <1>1
  <2> HIDE DEF step, n
  <2>2. f[i - 1] \in Places
    BY <2>1
  <2> QED
    BY <1>4, <1>6, <2>1, <2>2 DEF IsRecursion
<1>8. f = G(f)
  <2>1. f[0] = AtRoot
    BY <1>6 DEF IsRecursion
  <2>2. \A i \in 0..n : f[i] = G(f)[i]
    <3>1. G(f)[0] = AtRoot
      BY <1>1 DEF AtRoot
    <3>2. \A i \in 1..n : G(f)[i] = F(f[i - 1], i)
      BY <1>1 DEF F
    <3>3. \A i \in 0..n : i = 0 \/ i \in 1..n
      BY <1>1
    <3> HIDE DEF G, n
    <3> QED
      BY <1>7, <2>1, <3>1, <3>2, <3>3
  <2>3. f = [i \in 0..n |-> f[i]] /\ G(f) = [i \in 0..n |-> G(f)[i]]
    OBVIOUS
  <2> HIDE DEF G, n
  <2> QED
    BY <2>2, <2>3, Zenon
<1>9. h = G(h)
  <2> HIDE DEF G
  <2> QED
    BY <1>8
<1>10. IsWalk(h, s)
  <2>1. G(h)[0] = AtRoot /\ \A i \in 1..n : G(h)[i] = F(h[i - 1], i)
    <3> HIDE DEF h
    <3> QED
      BY <1>1 DEF AtRoot, F
  <2> HIDE DEF h, G
  <2>2. h[0] = AtRoot /\ \A i \in 1..n : h[i] = F(h[i - 1], i)
    BY <1>9, <2>1, Zenon
  <2> QED
    BY <2>2, Zenon DEF IsWalk, F
<1>11. Lookup(s) = FoundAt(h[Len(s)], s)
  BY Zenon DEF Lookup, FoundAt
<1> HIDE DEF h
<1> QED
  BY <1>10, <1>11

\* A sequence is a function on 1..n.
LEMMA SeqIsFunction ==
  ASSUME NEW S, NEW u \in Seq(S)
  PROVE  Len(u) \in Nat /\ DOMAIN u = 1..Len(u) /\ u \in [1..Len(u) -> S]
         /\ \A i \in 1..Len(u) : u[i] \in S
<1>1. Len(u) \in Nat /\ u \in [1..Len(u) -> S]
  BY LenProperties
<1> QED
  BY <1>1

\* A route and what its segments are made of.
LEMMA RouteTypes ==
  ASSUME NEW r \in RouteSet
  PROVE  r.host \in Names /\ r.method \in Names /\ r.query \in Names /\ r.path \in Seq(Names)
<1>1. r \in [host : STRING, method : STRING, path : Seq(STRING), query : STRING,
             function : STRING]
  <2>1. PICK i \in DOMAIN Routes : r = Routes[i]
    BY DEF RouteSet
  <2>2. i \in 1..Len(Routes)
    BY RoutesAssumption, LenProperties
  <2> QED
    BY RoutesAssumption, <2>1, <2>2, ElementOfSeq
<1>2. r.path \in Seq(STRING)
  BY <1>1
<1>3. Len(r.path) \in Nat /\ DOMAIN r.path = 1..Len(r.path)
      /\ r.path = [i \in 1..Len(r.path) |-> r.path[i]]
  BY <1>2, SeqIsFunction
<1>4. \A i \in DOMAIN r.path : r.path[i] \in Names
  <2>1. \A i \in DOMAIN r.path : r.path[i] \in NamesOf(r)
    BY DEF NamesOf
  <2>2. NamesOf(r) \subseteq Names
    BY DEF Names
  <2> QED
    BY <2>1, <2>2
<1>5. r.path \in [1..Len(r.path) -> Names]
  BY <1>3, <1>4
<1>6. r.path \in Seq(Names)
  BY <1>3, <1>5, FunctionIsSequence
<1>7. r.host \in Names /\ r.method \in Names /\ r.query \in Names
  <2>1. r.host \in NamesOf(r) /\ r.method \in NamesOf(r) /\ r.query \in NamesOf(r)
    BY DEF NamesOf
  <2>2. NamesOf(r) \subseteq Names
    BY DEF Names
  <2> QED
    BY <2>1, <2>2
<1> QED
  BY <1>6, <1>7

\* Segments of a request are words.
LEMMA SegmentsType ==
  ASSUME NEW host \in Names, NEW method \in Names, NEW path \in Seq(Names), NEW query \in Names
  PROVE  Segments(host, method, path, query) \in Seq(Word)
         /\ Len(Segments(host, method, path, query)) = Len(path) + 2
<1> DEFINE a == <<Segment(host, ""), Segment(method, "")>>
           b == [i \in DOMAIN path |-> Segment(path[i], IF i = Len(path) THEN query ELSE "")]
<1>1. "" \in Names
  BY DEF Names
<1>2. \A x, y \in Names : Segment(x, y) \in Word
  BY DEF Segment, Word
<1>3. a \in Seq(Word) /\ Len(a) = 2
  <2> DEFINE x == Segment(host, "")
             y == Segment(method, "")
  <2>1. x \in Word /\ y \in Word
    BY <1>1, <1>2
  <2> HIDE DEF x, y
  <2>2. <<x, y>> \in Seq(Word) /\ Len(<<x, y>>) = 2
    BY <2>1
  <2> QED
    BY <2>2 DEF x, y
<1>4. b \in Seq(Word) /\ Len(b) = Len(path)
  <2>1. DOMAIN path = 1..Len(path) /\ Len(path) \in Nat
        /\ \A i \in 1..Len(path) : path[i] \in Names
    BY SeqIsFunction
  <2>2. \A i \in 1..Len(path) : Segment(path[i], IF i = Len(path) THEN query ELSE "") \in Word
    BY <1>1, <1>2, <2>1
  <2>3. b \in [1..Len(path) -> Word]
    BY <2>1, <2>2
  <2> HIDE DEF b
  <2> QED
    BY <2>1, <2>3, FunctionIsSequence
<1>5. Segments(host, method, path, query) = a \o b
  BY DEF Segments
<1> HIDE DEF a, b
<1>6. Len(path) \in Nat
  BY LenProperties
<1>7. a \o b \in Seq(Word) /\ Len(a \o b) = Len(a) + Len(b)
  BY <1>3, <1>4, ConcatProperties
<1> QED
  BY <1>3, <1>4, <1>5, <1>6, <1>7

\* Segments of a route are words.
LEMMA RouteSegmentsType ==
  ASSUME NEW r \in RouteSet
  PROVE  RouteSegments(r) \in Seq(Word) /\ Len(RouteSegments(r)) >= 2
<1>1. r.host \in Names /\ r.method \in Names /\ r.query \in Names /\ r.path \in Seq(Names)
  BY RouteTypes
<1>2. RouteSegments(r) \in Seq(Word) /\ Len(RouteSegments(r)) = Len(r.path) + 2
  BY <1>1, SegmentsType DEF RouteSegments
<1>3. Len(r.path) \in Nat
  BY <1>1, LenProperties
<1> QED
  BY <1>2, <1>3

\* Paths of requests are sequences of names.
LEMMA PathsType ==
  ASSUME NEW path \in Seq(Names)
  PROVE  Paths(path) \subseteq Seq(Names)
<1>1. ASSUME NEW p \in Seq(Names) PROVE Filled(p) \subseteq Seq(Names)
  <2> SUFFICES ASSUME NEW f \in [{i \in DOMAIN p : p[i] = "{}"} -> Values]
               PROVE  [i \in DOMAIN p |-> IF p[i] = "{}" THEN f[i] ELSE p[i]] \in Seq(Names)
    BY DEF Filled
  <2> DEFINE g == [i \in DOMAIN p |-> IF p[i] = "{}" THEN f[i] ELSE p[i]]
  <2>1. DOMAIN p = 1..Len(p) /\ Len(p) \in Nat /\ \A i \in 1..Len(p) : p[i] \in Names
    BY SeqIsFunction
  <2>2. Values \subseteq Names
    BY DEF Names
  <2>3. \A i \in 1..Len(p) : (IF p[i] = "{}" THEN f[i] ELSE p[i]) \in Names
    BY <2>1, <2>2
  <2>4. g \in [1..Len(p) -> Names]
    BY <2>1, <2>3
  <2> HIDE DEF g
  <2>5. g \in Seq(Names)
    BY <2>1, <2>4, FunctionIsSequence
  <2> QED
    BY <2>5 DEF g
<1>2. \A p \in Seq(Names) : Append(p, "") \in Seq(Names)
  <2>1. "" \in Names
    BY DEF Names
  <2> QED
    BY <2>1, AppendProperties
<1>3. Len(path) > 1 => SubSeq(path, 1, Len(path) - 1) \in Seq(Names)
  OBVIOUS
<1> QED
  BY <1>1, <1>2, <1>3 DEF Paths

(***************************************************************************)
(* Counting parameters                                                     *)
(***************************************************************************)

\* One segment more is one parameter more, or none.
LEMMA ParamsStep ==
  ASSUME NEW s, NEW i \in Nat
  PROVE  /\ ParamsIn(s, 0) = 0
         /\ ParamsIn(s, i) \in Nat
         /\ ParamsIn(s, i + 1) = ParamsIn(s, i) + IF s[i + 1] = Param THEN 1 ELSE 0
<1> DEFINE P(k) == {j \in 1..k : s[j] = Param}
<1>1. IsFiniteSet(P(i)) /\ Cardinality(P(i)) \in Nat
  <2>1. IsFiniteSet(1..i)
    BY FS_Interval
  <2>2. IsFiniteSet(P(i))
    BY <2>1, FS_Subset
  <2> QED
    BY <2>2, FS_CardinalityType
<1>2. ParamsIn(s, 0) = 0
  <2>1. P(0) = {}
    OBVIOUS
  <2> QED
    BY <2>1, FS_EmptySet DEF ParamsIn
<1>3. CASE s[i + 1] = Param
  <2>1. P(i + 1) = P(i) \cup {i + 1} /\ i + 1 \notin P(i)
    BY <1>3
  <2>2. Cardinality(P(i) \cup {i + 1}) = Cardinality(P(i)) + 1
    BY <1>1, <2>1, FS_AddElement
  <2> QED
    BY <1>1, <1>2, <1>3, <2>1, <2>2 DEF ParamsIn
<1>4. CASE s[i + 1] # Param
  <2>1. P(i + 1) = P(i)
    BY <1>4
  <2>2. ParamsIn(s, i + 1) = ParamsIn(s, i) /\ ParamsIn(s, i) \in Nat
    BY <1>1, <2>1 DEF ParamsIn
  <2> QED
    BY <1>2, <1>4, <2>2
<1> QED
  BY <1>3, <1>4

\* Every number up to that of the parameters is that of one of them.
LEMMA ParamsAll ==
  ASSUME NEW s
  PROVE  \A n \in Nat : \A k \in 1..ParamsIn(s, n) :
           \E i \in 1..n : s[i] = Param /\ ParamsIn(s, i) = k
<1> DEFINE N == {n \in Nat : \A k \in 1..ParamsIn(s, n) :
                               \E i \in 1..n : s[i] = Param /\ ParamsIn(s, i) = k}
<1>1. 0 \in N
  BY ParamsStep
<1>2. ASSUME NEW n \in Nat, n \in N PROVE n + 1 \in N
  <2> SUFFICES ASSUME NEW k \in 1..ParamsIn(s, n + 1)
               PROVE  \E i \in 1..(n + 1) : s[i] = Param /\ ParamsIn(s, i) = k
    OBVIOUS
  <2>1. ParamsIn(s, n) \in Nat
        /\ ParamsIn(s, n + 1) = ParamsIn(s, n) + IF s[n + 1] = Param THEN 1 ELSE 0
    BY ParamsStep
  <2>2. CASE k <= ParamsIn(s, n)
    <3>1. PICK i \in 1..n : s[i] = Param /\ ParamsIn(s, i) = k
      BY <1>2, <2>1, <2>2
    <3> QED
      BY <3>1
  <2>3. CASE ~ (k <= ParamsIn(s, n))
    <3>1. s[n + 1] = Param /\ ParamsIn(s, n + 1) = k
      BY <2>1, <2>3
    <3> QED
      BY <3>1
  <2> QED
    BY <2>2, <2>3
<1>3. Nat \subseteq N
  <2> HIDE DEF N
  <2> QED
    BY <1>1, <1>2, Induction
<1> QED
  BY <1>3

\* A parameter is counted from its place on.
LEMMA ParamsGrow ==
  ASSUME NEW s, NEW i \in Nat, NEW j \in 1..i
  PROVE  ParamsIn(s, j) <= ParamsIn(s, i) /\ (s[j] = Param => ParamsIn(s, j) >= 1)
<1> DEFINE P(k) == {l \in 1..k : s[l] = Param}
<1>1. IsFiniteSet(P(i)) /\ P(j) \subseteq P(i)
  <2>1. IsFiniteSet(1..i)
    BY FS_Interval
  <2>2. IsFiniteSet(P(i))
    BY <2>1, FS_Subset
  <2> QED
    BY <2>2
<1>2. Cardinality(P(j)) <= Cardinality(P(i))
  <2> HIDE DEF P
  <2> QED
    BY <1>1, FS_Subset
<1>3. s[j] = Param => ParamsIn(s, j) >= 1
  <2> SUFFICES ASSUME s[j] = Param PROVE ParamsIn(s, j) >= 1
    OBVIOUS
  <2>1. j - 1 \in Nat /\ (j - 1) + 1 = j
    OBVIOUS
  <2>2. ParamsIn(s, j - 1) \in Nat /\ ParamsIn(s, j) = ParamsIn(s, j - 1) + 1
    BY <2>1, ParamsStep
  <2> QED
    BY <2>2
<1> QED
  BY <1>2, <1>3 DEF ParamsIn

\* Segments that are the same have the same parameters.
LEMMA ParamsSame ==
  ASSUME NEW s, NEW t, NEW i \in Nat, \A j \in 1..i : s[j] = t[j]
  PROVE  ParamsIn(s, i) = ParamsIn(t, i)
<1>1. {j \in 1..i : s[j] = Param} = {j \in 1..i : t[j] = Param}
  OBVIOUS
<1> QED
  BY <1>1 DEF ParamsIn

(***************************************************************************)
(* The walk of lookup()                                                    *)
(***************************************************************************)

\* The parameters of a place are those of the segments that took it there.
IsArgs(args, node, s, i) ==
  /\ Len(args) = ParamsIn(node, i)
  /\ \A j \in 1..i : node[j] = Param => args[ParamsIn(node, j)] = s[j]

\* A place after i segments of a path.
IsAfter(at, s, i) ==
  /\ at.node \in Seq(Word) /\ Len(at.node) = i
  /\ at.args \in Seq(Word)
  /\ \A j \in 1..i : at.node[j] \in {Param, s[j]}
  /\ IsArgs(at.args, at.node, s, i)

\* One segment more, and its parameter if it is one.
LEMMA ArgsStep ==
  ASSUME NEW i \in Nat, NEW s, NEW node \in Seq(Word), Len(node) = i,
         NEW args \in Seq(Word), IsArgs(args, node, s, i),
         NEW x \in Word, NEW new \in Seq(Word),
         x # Param => new = args,
         x = Param => new = Append(args, s[i + 1]) /\ s[i + 1] \in Word
  PROVE  IsArgs(new, Append(node, x), s, i + 1)
<1> DEFINE t == Append(node, x)
<1>1. t[i + 1] = x /\ \A j \in 1..i : t[j] = node[j]
  BY AppendProperties
<1> HIDE DEF t
<1>2. \A j \in 0..i : ParamsIn(t, j) = ParamsIn(node, j)
  <2> SUFFICES ASSUME NEW j \in 0..i PROVE ParamsIn(t, j) = ParamsIn(node, j)
    OBVIOUS
  <2>1. j \in Nat /\ \A l \in 1..j : t[l] = node[l]
    BY <1>1
  <2> QED
    BY <2>1, ParamsSame
<1>3. ParamsIn(node, i) \in Nat /\ ParamsIn(t, i) = ParamsIn(node, i)
      /\ ParamsIn(t, i + 1) = ParamsIn(t, i) + IF x = Param THEN 1 ELSE 0
  <2>1. ParamsIn(node, i) \in Nat
    BY ParamsStep
  <2>2. ParamsIn(t, i) = ParamsIn(node, i)
    BY <1>2
  <2>3. ParamsIn(t, i + 1) = ParamsIn(t, i) + IF t[i + 1] = Param THEN 1 ELSE 0
    BY ParamsStep
  <2> QED
    BY <1>1, <2>1, <2>2, <2>3
<1>4. Len(args) = ParamsIn(node, i)
      /\ \A j \in 1..i : node[j] = Param => args[ParamsIn(node, j)] = s[j]
  BY DEF IsArgs
<1>5. ASSUME NEW j \in 1..i, t[j] = Param
      PROVE  new[ParamsIn(t, j)] = s[j]
  <2>1. node[j] = Param /\ ParamsIn(t, j) = ParamsIn(node, j)
    BY <1>1, <1>2, <1>5
  <2>2. ParamsIn(node, j) <= ParamsIn(node, i) /\ ParamsIn(node, j) >= 1
    BY <2>1, ParamsGrow
  <2>3. ParamsIn(node, j) \in 1..Len(args)
    <3>1. j \in Nat
      OBVIOUS
    <3>2. ParamsIn(node, j) \in Nat
      BY <3>1, ParamsStep
    <3> QED
      BY <1>3, <1>4, <2>2, <3>2
  <2>4. new[ParamsIn(node, j)] = args[ParamsIn(node, j)]
    <3>1. CASE x = Param
      BY <2>3, <3>1, AppendProperties
    <3>2. CASE x # Param
      BY <3>2
    <3> QED
      BY <3>1, <3>2
  <2> QED
    BY <1>4, <2>1, <2>4
<1>6. ASSUME x = Param
      PROVE  Len(new) = ParamsIn(t, i + 1) /\ new[ParamsIn(t, i + 1)] = s[i + 1]
  <2>1. new = Append(args, s[i + 1]) /\ s[i + 1] \in Word
    BY <1>6
  <2>2. Len(new) = Len(args) + 1 /\ new[Len(args) + 1] = s[i + 1]
    BY <2>1, AppendProperties
  <2> QED
    BY <1>3, <1>4, <1>6, <2>2
<1>7. ASSUME x # Param PROVE Len(new) = ParamsIn(t, i + 1)
  BY <1>3, <1>4, <1>7
<1>8. \A j \in 1..(i + 1) : j \in 1..i \/ j = i + 1
  OBVIOUS
<1>9. IsArgs(new, t, s, i + 1)
  BY <1>1, <1>5, <1>6, <1>7, <1>8 DEF IsArgs
<1> QED
  BY <1>9 DEF t

\* A step that finds a node takes its parameter.
LEMMA StepAfter ==
  ASSUME NEW s \in Seq(Word), NEW i \in Nat, i + 1 <= Len(s), s[i + 1] # Param,
         NEW at \in Places, IsAfter(at, s, i), at.found, Step(at, s[i + 1]).found
  PROVE  IsAfter(Step(at, s[i + 1]), s, i + 1)
         /\ Step(at, s[i + 1]).node \in nodes
<1> DEFINE seg == s[i + 1]
           new == Step(at, seg)
<1>1. seg \in Word /\ Param \in Word /\ i + 1 \in 1..Len(s)
  <2>1. "{}" \in Names /\ "" \in Names
    BY DEF Names
  <2>2. i + 1 \in 1..Len(s)
    BY LenProperties
  <2> QED
    BY <2>1, <2>2, ElementOfSeq DEF Param, Segment, Word
<1>2. /\ at.node \in Seq(Word) /\ Len(at.node) = i /\ at.args \in Seq(Word)
      /\ \A j \in 1..i : at.node[j] \in {Param, s[j]}
      /\ IsArgs(at.args, at.node, s, i)
  BY DEF IsAfter
<1>3. ASSUME NEW x \in Word, x \in {Param, seg}
      PROVE  /\ Append(at.node, x) \in Seq(Word) /\ Len(Append(at.node, x)) = i + 1
             /\ \A j \in 1..(i + 1) : Append(at.node, x)[j] \in {Param, s[j]}
  <2> DEFINE node == Append(at.node, x)
  <2>1. node \in Seq(Word) /\ Len(node) = i + 1 /\ node[i + 1] = x
        /\ \A j \in 1..i : node[j] = at.node[j]
    BY <1>2, AppendProperties
  <2>2. \A j \in 1..(i + 1) : j \in 1..i \/ j = i + 1
    OBVIOUS
  <2> HIDE DEF node
  <2>3. \A j \in 1..(i + 1) : node[j] \in {Param, s[j]}
    BY <1>2, <1>3, <2>1, <2>2
  <2> QED
    BY <2>1, <2>3 DEF node
<1>4. CASE Append(at.node, seg) \in nodes
  <2> DEFINE node == Append(at.node, seg)
  <2>1. new = [at EXCEPT !.node = node]
    BY <1>4, Zenon DEF Step
  <2>2. new.node = node /\ new.args = at.args
    BY <2>1 DEF Places
  <2>3. IsArgs(at.args, node, s, i + 1)
    BY <1>1, <1>2, ArgsStep
  <2>4. node \in Seq(Word) /\ Len(node) = i + 1
        /\ \A j \in 1..(i + 1) : node[j] \in {Param, s[j]}
    BY <1>1, <1>3
  <2> HIDE DEF node, new
  <2>5. IsAfter(new, s, i + 1)
    BY <1>2, <2>2, <2>3, <2>4 DEF IsAfter
  <2>6. new.node \in nodes
    BY <1>4, <2>2 DEF node
  <2> QED
    BY <2>5, <2>6 DEF new
<1>5. CASE Append(at.node, Param) \in nodes /\ Append(at.node, seg) \notin nodes
  <2> DEFINE node == Append(at.node, Param)
             args == Append(at.args, seg)
  <2>1. new = [node |-> node, args |-> args, found |-> at.found]
    BY <1>5, Zenon DEF Step
  <2>2. new.node = node /\ new.args = args /\ args \in Seq(Word)
    BY <1>1, <1>2, <2>1, AppendProperties
  <2>3. IsArgs(args, node, s, i + 1)
    <3>1. args = Append(at.args, s[i + 1]) /\ args \in Seq(Word) /\ s[i + 1] \in Word
      BY <1>1, <2>2
    <3> HIDE DEF args
    <3> QED
      BY <1>1, <1>2, <3>1, ArgsStep
  <2>4. node \in Seq(Word) /\ Len(node) = i + 1
        /\ \A j \in 1..(i + 1) : node[j] \in {Param, s[j]}
    BY <1>1, <1>3
  <2> HIDE DEF node, args, new
  <2>5. IsAfter(new, s, i + 1)
    BY <2>2, <2>3, <2>4 DEF IsAfter
  <2>6. new.node \in nodes
    BY <1>5, <2>2 DEF node
  <2> QED
    BY <2>5, <2>6 DEF new
<1>6. CASE Append(at.node, Param) \notin nodes /\ Append(at.node, seg) \notin nodes
  <2>1. new = [at EXCEPT !.found = FALSE]
    BY <1>6, Zenon DEF Step
  <2>2. ~ new.found
    BY <2>1 DEF Places
  <2> QED
    BY <2>2
<1> QED
  BY <1>4, <1>5, <1>6

\* The walk of lookup() through a path without parameters of its own: as long as it has
\* found a node, it is at one, and has its parameters.
LEMMA WalkAfter ==
  ASSUME NEW s \in Seq(Word), \A i \in 1..Len(s) : s[i] # Param,
         NEW w, IsWalk(w, s), <<>> \in nodes
  PROVE  \A i \in 0..Len(s) : /\ w[i] \in Places
                              /\ w[i].found => IsAfter(w[i], s, i) /\ w[i].node \in nodes
<1> DEFINE n == Len(s)
           Ok(i) == /\ w[i] \in Places
                    /\ w[i].found => IsAfter(w[i], s, i) /\ w[i].node \in nodes
           N == {i \in Nat : i <= n => Ok(i)}
<1>0. n \in Nat /\ \A i \in 1..n : s[i] \in Word
  BY SeqIsFunction
<1>1. 0 \in N
  <2>1. w[0] = AtRoot
    BY DEF IsWalk
  <2>2. AtRoot \in Places /\ IsAfter(AtRoot, s, 0) /\ AtRoot.node \in nodes
    <3>1. ParamsIn(<<>>, 0) = 0
      BY ParamsStep
    <3>2. AtRoot \in Places /\ AtRoot.node = <<>> /\ AtRoot.args = <<>>
      BY DEF AtRoot, Places
    <3>3. <<>> \in Seq(Word) /\ Len(<<>>) = 0
      OBVIOUS
    <3>4. IsArgs(<<>>, <<>>, s, 0)
      BY <3>1, <3>3 DEF IsArgs
    <3> QED
      BY <3>2, <3>3, <3>4 DEF IsAfter
  <2> HIDE DEF n
  <2> QED
    BY <2>1, <2>2
<1>2. ASSUME NEW i \in Nat, i \in N PROVE i + 1 \in N
  <2> SUFFICES ASSUME i + 1 <= n PROVE Ok(i + 1)
    OBVIOUS
  <2>1. i + 1 \in 1..n /\ i <= n /\ (i + 1) - 1 = i
    BY <1>0
  <2>2. w[i + 1] = IF w[i].found THEN Step(w[i], s[i + 1]) ELSE w[i]
    BY <2>1 DEF IsWalk
  <2>3. Ok(i)
    BY <1>2, <2>1
  <2>4. CASE w[i].found
    <3>1. w[i + 1] = Step(w[i], s[i + 1]) /\ w[i] \in Places /\ IsAfter(w[i], s, i)
      BY <2>2, <2>3, <2>4
    <3>2. w[i + 1] \in Places
      BY <1>0, <2>1, <3>1, StepType
    <3>3. w[i + 1].found => IsAfter(w[i + 1], s, i + 1) /\ w[i + 1].node \in nodes
      BY <2>1, <2>4, <3>1, StepAfter
    <3> QED
      BY <3>2, <3>3
  <2>5. CASE ~ w[i].found
    BY <2>2, <2>3, <2>5
  <2> QED
    BY <2>4, <2>5
<1>3. Nat \subseteq N
  <2> HIDE DEF N
  <2> QED
    BY <1>1, <1>2, Induction
<1> QED
  BY <1>0, <1>3

\* At the node of a route, the arguments are the segments that stand for its parameters.
LEMMA ArgsAreThose ==
  ASSUME NEW r, NEW s \in Seq(Word), NEW at, at.node = RouteSegments(r),
         IsAfter(at, s, Len(s))
  PROVE  at.args = ArgsOf(r, s)
<1> DEFINE t == RouteSegments(r)
           n == Len(s)
           args == at.args
           C(k) == CHOOSE i \in DOMAIN t : t[i] = Param /\ ParamsIn(t, i) = k
<1>1. /\ n \in Nat /\ t \in Seq(Word) /\ Len(t) = n /\ DOMAIN t = 1..n
      /\ args \in Seq(Word) /\ IsArgs(args, t, s, n)
  <2>1. n \in Nat
    BY SeqIsFunction
  <2>2. at.node \in Seq(Word) /\ Len(at.node) = n /\ at.args \in Seq(Word)
        /\ IsArgs(at.args, at.node, s, n)
    BY DEF IsAfter
  <2>3. DOMAIN at.node = 1..Len(at.node)
    BY <2>2, SeqIsFunction
  <2> QED
    BY <2>1, <2>2, <2>3
<1> HIDE DEF t, n, args, C
<1>2. Len(args) = ParamsIn(t, n) /\ \A j \in 1..n : t[j] = Param => args[ParamsIn(t, j)] = s[j]
  BY <1>1 DEF IsArgs
<1>3. ASSUME NEW k \in 1..Len(args) PROVE args[k] = s[C(k)]
  <2>1. \E i \in 1..n : t[i] = Param /\ ParamsIn(t, i) = k
    BY <1>1, <1>2, ParamsAll
  <2>2. C(k) \in 1..n /\ t[C(k)] = Param /\ ParamsIn(t, C(k)) = k
    BY <1>1, <2>1 DEF C
  <2> QED
    BY <1>2, <2>2
<1>4. args = [k \in 1..Len(args) |-> args[k]]
  BY <1>1, SeqIsFunction
<1>5. args = [k \in 1..ParamsIn(t, n) |-> s[C(k)]]
  <2>1. [k \in 1..Len(args) |-> args[k]] = [k \in 1..Len(args) |-> s[C(k)]]
    BY <1>3
  <2> QED
    BY <1>2, <1>4, <2>1, Zenon
<1>6. ArgsOf(r, s) = [k \in 1..ParamsIn(t, Len(t)) |-> s[C(k)]]
  BY Zenon DEF ArgsOf, t, C
<1> QED
  BY <1>1, <1>5, <1>6, Zenon DEF args

(***************************************************************************)
(* What is registered                                                      *)
(***************************************************************************)

\* The tree of register(): every prefix of a route is a node, and nothing else; the
\* functions are those of the routes, at their nodes.
ApiTree ==
  /\ registered \in 0..Len(Routes)
  /\ nodes = {<<>>} \cup UNION {Prefixes(RouteSegments(r)) : r \in RegisteredRoutes}
  /\ DOMAIN calls = {RouteSegments(r) : r \in RegisteredRoutes}
  /\ \A r \in RegisteredRoutes : calls[RouteSegments(r)] = r.function

\* What was registered is a route.
LEMMA RegisteredAreRoutes ==
  ASSUME registered \in 0..Len(Routes)
  PROVE  RegisteredRoutes \subseteq RouteSet
<1>1. DOMAIN Routes = 1..Len(Routes) /\ Len(Routes) \in Nat
  BY RoutesAssumption, SeqIsFunction
<1> QED
  BY <1>1 DEF RegisteredRoutes, RouteSet

\* A request was found a function.
IsHandled(h) == h.function # ""

\* A request for a path without parameters of its own is handled by no function but that of
\* a route that the path matches, with the parameters in their places.
LEMMA FoundRoute ==
  ASSUME ApiTree, NEW s \in Seq(Word), \A i \in 1..Len(s) : s[i] # Param,
         NEW h, h = Lookup(s), IsHandled(h)
  PROVE  \E r \in RegisteredRoutes :
           r.function = h.function /\ Matches(r, s) /\ h.args = ArgsOf(r, s)
<1>1. PICK w : IsWalk(w, s) /\ h = FoundAt(w[Len(s)], s)
  BY LookupWalks
<1>2. Len(s) \in Nat /\ Len(s) \in 0..Len(s)
  <2>1. Len(s) \in Nat
    BY SeqIsFunction
  <2> QED
    BY <2>1
<1> DEFINE n == Len(s)
           at == w[n]
<1>3. at \in Places /\ (at.found => IsAfter(at, s, n))
  BY <1>1, <1>2, WalkAfter DEF ApiTree
<1>4. h = FoundAt(at, s)
  BY <1>1
<1> HIDE DEF at, n
<1>5. at.found /\ at.node \in DOMAIN calls
  <2>1. CASE ~ (at.found /\ at.node \in DOMAIN calls)
    <3>1. h = [NoHandle EXCEPT !.segments = s]
      BY <1>4, <2>1, Zenon DEF FoundAt
    <3>2. h.function = ""
      BY <3>1 DEF NoHandle
    <3> QED
      BY <3>2 DEF IsHandled
  <2> QED
    BY <2>1
<1>6. h = [segments |-> s, function |-> calls[at.node], args |-> at.args]
  BY <1>4, <1>5, Zenon DEF FoundAt
<1>7. PICK r \in RegisteredRoutes : at.node = RouteSegments(r)
  BY <1>5 DEF ApiTree
<1>8. r.function = h.function
  <2>1. h.function = calls[at.node]
    BY <1>6
  <2>2. calls[RouteSegments(r)] = r.function
    BY DEF ApiTree
  <2> QED
    BY <1>7, <2>1, <2>2, Zenon
<1>9. Matches(r, s)
  <2>1. /\ RouteSegments(r) \in Seq(Word) /\ Len(RouteSegments(r)) = n
        /\ \A j \in 1..n : RouteSegments(r)[j] \in {Param, s[j]}
    BY <1>3, <1>5, <1>7 DEF IsAfter
  <2>2. DOMAIN RouteSegments(r) = 1..n
    BY <2>1, SeqIsFunction
  <2> QED
    BY <2>1, <2>2 DEF Matches, n
<1>10. h.args = ArgsOf(r, s)
  <2>1. h.args = at.args
    BY <1>6
  <2>2. at.args = ArgsOf(r, s)
    BY <1>3, <1>5, <1>7, ArgsAreThose DEF n
  <2> QED
    BY <2>1, <2>2, Zenon
<1> QED
  BY <1>8, <1>9, <1>10

\* Prefixes of a sequence.
LEMMA PrefixStep ==
  ASSUME NEW t \in Seq(Word), NEW i \in Nat, i + 1 <= Len(t)
  PROVE  Append(SubSeq(t, 1, i), t[i + 1]) = SubSeq(t, 1, i + 1)
<1> DEFINE a == SubSeq(t, 1, i)
           b == SubSeq(t, 1, i + 1)
           c == Append(a, t[i + 1])
<1>1. Len(t) \in Nat /\ \A j \in 1..Len(t) : t[j] \in Word
  BY SeqIsFunction
<1>2. i + 1 \in 1..Len(t) /\ t[i + 1] \in Word
  BY <1>1
<1>3. a \in Seq(Word) /\ Len(a) = i /\ \A j \in 1..i : a[j] = t[j]
  BY <1>1, SubSeqProperties
<1>4. b \in Seq(Word) /\ Len(b) = i + 1 /\ \A j \in 1..(i + 1) : b[j] = t[j]
  BY <1>1, SubSeqProperties
<1>5. c \in Seq(Word) /\ Len(c) = i + 1 /\ c[i + 1] = t[i + 1] /\ \A j \in 1..i : c[j] = a[j]
  BY <1>2, <1>3, AppendProperties
<1> HIDE DEF a, b, c
<1>6. \A j \in 1..(i + 1) : c[j] = b[j]
  <2>1. \A j \in 1..(i + 1) : j \in 1..i \/ j = i + 1
    OBVIOUS
  <2> QED
    BY <1>3, <1>4, <1>5, <2>1
<1>7. c = b
  BY <1>4, <1>5, <1>6, SeqEqual
<1> QED
  BY <1>7 DEF a, b, c

\* A request for the path of a route, with parameters that are not names at their place,
\* is handled by the function of that route, with those parameters.
LEMMA RouteFound ==
  ASSUME ApiTree, NEW s \in Seq(Word), \A i \in 1..Len(s) : s[i] # Param,
         NEW r \in RegisteredRoutes, Matches(r, s),
         \A i \in 1..Len(s) : RouteSegments(r)[i] = Param => s[i] \notin Siblings(r, i)
  PROVE  Lookup(s).function = r.function /\ Lookup(s).args = ArgsOf(r, s)
<1>1. PICK w : IsWalk(w, s) /\ Lookup(s) = FoundAt(w[Len(s)], s)
  BY LookupWalks
<1> DEFINE n == Len(s)
           t == RouteSegments(r)
           Ok(i) == w[i].found /\ w[i].node = SubSeq(t, 1, i)
           N == {i \in Nat : i <= n => Ok(i)}
<1>2. n \in Nat /\ \A i \in 1..n : s[i] \in Word
  BY SeqIsFunction
<1>3. t \in Seq(Word)
  BY RegisteredAreRoutes, RouteSegmentsType DEF ApiTree
<1>4. Len(t) = n /\ DOMAIN t = 1..n /\ \A i \in 1..n : t[i] \in {Param, s[i]}
  <2>1. DOMAIN t = 1..Len(t)
    BY <1>3, SeqIsFunction
  <2> QED
    BY <2>1 DEF Matches
<1>5. \A i \in 0..n : SubSeq(t, 1, i) \in nodes
  <2>1. Prefixes(t) \subseteq nodes
    BY DEF ApiTree
  <2> HIDE DEF t, n
  <2> QED
    BY <1>4, <2>1 DEF Prefixes
<1>6. \A i \in 0..n : w[i] \in Places /\ (w[i].found => IsAfter(w[i], s, i))
  BY <1>1, WalkAfter DEF ApiTree
<1>7. \A i \in 1..n : t[i] = Param => s[i] \notin Siblings(r, i)
  OBVIOUS
<1> HIDE DEF n
<1>8. 0 \in N
  <2>1. w[0] = AtRoot
    BY <1>1 DEF IsWalk
  <2>2. AtRoot.found /\ AtRoot.node = <<>>
    BY DEF AtRoot
  <2>3. SubSeq(t, 1, 0) = <<>>
    <3> HIDE DEF t
    <3> QED
      BY <1>3, SubSeqEmpty
  <2> QED
    BY <2>1, <2>2, <2>3
<1>9. ASSUME NEW i \in Nat, i \in N PROVE i + 1 \in N
  <2> SUFFICES ASSUME i + 1 <= n PROVE Ok(i + 1)
    OBVIOUS
  <2> DEFINE seg == s[i + 1]
             at == w[i]
  <2>1. i + 1 \in 1..n /\ i <= n /\ i \in 0..n /\ i + 1 \in 0..n /\ (i + 1) - 1 = i
    BY <1>2
  <2>2. at.found /\ at.node = SubSeq(t, 1, i) /\ at \in Places
    BY <1>6, <1>9, <2>1
  <2>3. w[i + 1] = Step(at, seg)
    <3>1. w[i + 1] = IF w[i].found THEN Step(w[i], s[i + 1]) ELSE w[i]
      BY <1>1, <2>1 DEF IsWalk, n
    <3> QED
      BY <2>2, <3>1
  <2>4. seg \in Word /\ seg # Param
    BY <1>2, <2>1 DEF n
  <2>5. Append(at.node, t[i + 1]) = SubSeq(t, 1, i + 1)
    BY <1>3, <1>4, <2>2, PrefixStep
  <2>6. SubSeq(t, 1, i + 1) \in nodes
    BY <1>5, <2>1
  <2>7. t[i + 1] \in {Param, seg}
    BY <1>4, <2>1
  <2>8. CASE t[i + 1] = seg
    <3>1. Append(at.node, seg) \in nodes
      BY <2>5, <2>6, <2>8
    <3>2. Step(at, seg) = [at EXCEPT !.node = Append(@, seg)]
      BY <3>1, Zenon DEF Step
    <3> HIDE DEF at, seg, t
    <3>3. Step(at, seg).node = Append(at.node, seg) /\ Step(at, seg).found = at.found
      BY <2>2, <3>2 DEF Places
    <3>4. w[i + 1].found /\ w[i + 1].node = SubSeq(t, 1, i + 1)
      BY <2>2, <2>3, <2>5, <2>8, <3>3
    <3> QED
      BY <3>4 DEF t
  <2>9. CASE t[i + 1] = Param
    <3>1. Append(at.node, Param) \in nodes
      BY <2>5, <2>6, <2>9
    <3>2. Append(at.node, seg) \notin nodes
      <4> DEFINE m == Append(at.node, seg)
      <4> SUFFICES ASSUME m \in nodes PROVE FALSE
        OBVIOUS
      <4>1. IsAfter(at, s, i)
        BY <1>6, <2>1, <2>2
      <4>2. at.node \in Seq(Word) /\ Len(at.node) = i
        BY <4>1 DEF IsAfter
      <4>3. m \in Seq(Word) /\ Len(m) = i + 1 /\ m[i + 1] = seg
            /\ SubSeq(m, 1, i) = at.node
        <5>1. m \in Seq(Word) /\ Len(m) = i + 1 /\ m[i + 1] = seg
              /\ \A j \in 1..i : m[j] = at.node[j]
          BY <2>4, <4>2, AppendProperties
        <5> HIDE DEF m, at
        <5>2. SubSeq(m, 1, i) \in Seq(Word) /\ Len(SubSeq(m, 1, i)) = i
              /\ \A j \in 1..i : SubSeq(m, 1, i)[j] = m[j]
          BY <5>1, SubSeqProperties
        <5>3. SubSeq(m, 1, i) = at.node
          BY <4>2, <5>1, <5>2, SeqEqual
        <5> QED
          BY <5>1, <5>3
      <4>4. SubSeq(m, 1, (i + 1) - 1) = SubSeq(t, 1, (i + 1) - 1)
        BY <2>1, <2>2, <4>3
      <4> HIDE DEF m, at, seg
      <4>5. m[i + 1] \in Siblings(r, i + 1)
        BY <2>4, <4>3, <4>4 DEF Siblings
      <4> QED
        BY <1>7, <2>1, <2>9, <4>3, <4>5 DEF seg
    <3>3. Step(at, seg)
            = [node |-> Append(at.node, Param), args |-> Append(at.args, seg),
               found |-> at.found]
      BY <3>1, <3>2, Zenon DEF Step
    <3> HIDE DEF at, seg, t
    <3>4. Step(at, seg).node = Append(at.node, Param) /\ Step(at, seg).found = at.found
      BY <3>3
    <3>5. w[i + 1].found /\ w[i + 1].node = SubSeq(t, 1, i + 1)
      BY <2>2, <2>3, <2>5, <2>9, <3>4
    <3> QED
      BY <3>5 DEF t
  <2> QED
    BY <2>7, <2>8, <2>9
<1>10. Nat \subseteq N
  <2> HIDE DEF N
  <2> QED
    BY <1>8, <1>9, Induction
<1> DEFINE at == w[n]
<1>11. at.found /\ at.node = t
  <2>1. at.found /\ at.node = SubSeq(t, 1, n)
    BY <1>2, <1>10
  <2>2. SubSeq(t, 1, Len(t)) = t
    <3> HIDE DEF t
    <3> QED
      BY <1>3, SubSeqFull
  <2> QED
    BY <1>4, <2>1, <2>2
<1>12. t \in DOMAIN calls /\ calls[t] = r.function
  BY DEF ApiTree
<1>13. IsAfter(at, s, n)
  BY <1>2, <1>6, <1>11
<1>14. at.args = ArgsOf(r, s)
  BY <1>11, <1>13, ArgsAreThose DEF n
<1>15. Lookup(s) = FoundAt(at, s)
  BY <1>1 DEF n
<1> HIDE DEF at, t
<1>16. Lookup(s) = [segments |-> s, function |-> calls[at.node], args |-> at.args]
  BY <1>11, <1>12, <1>15, Zenon DEF FoundAt
<1> QED
  BY <1>11, <1>12, <1>14, <1>16

\* lookup() keeps the path it was asked for.
LEMMA LookupKeepsPath ==
  ASSUME NEW s \in Seq(Word)
  PROVE  Lookup(s).segments = s
<1>1. PICK w : Lookup(s) = FoundAt(w[Len(s)], s)
  BY LookupWalks
<1> DEFINE at == w[Len(s)]
<1> HIDE DEF at
<1>2. CASE at.found /\ at.node \in DOMAIN calls
  <2>1. Lookup(s) = [segments |-> s, function |-> calls[at.node], args |-> at.args]
    BY <1>1, <1>2, Zenon DEF FoundAt, at
  <2> QED
    BY <2>1
<1>3. CASE ~ (at.found /\ at.node \in DOMAIN calls)
  <2>1. Lookup(s) = [NoHandle EXCEPT !.segments = s]
    BY <1>1, <1>3, Zenon DEF FoundAt, at
  <2> QED
    BY <2>1 DEF NoHandle
<1> QED
  BY <1>2, <1>3

\* A registration adds the prefixes of its path and its function, of which there is one only.
LEMMA RegisterTree ==
  ASSUME ApiTree, Register
  PROVE  ApiTree'
<1> DEFINE r == Routes[registered']
           t == RouteSegments(r)
           All == RegisteredRoutes
<1>1. Len(Routes) \in Nat /\ registered \in 0..Len(Routes) /\ registered' = registered + 1
      /\ registered' \in 1..Len(Routes)
  <2>1. Len(Routes) \in Nat
    BY RoutesAssumption, SeqIsFunction
  <2> QED
    BY <2>1 DEF ApiTree, Register
<1>2. All' = All \cup {r}
  <2>1. 1..registered' = 1..registered \cup {registered'}
    BY <1>1
  <2> QED
    BY <2>1 DEF RegisteredRoutes
<1>3. nodes' = nodes \cup Prefixes(t)
      /\ calls' = [n \in DOMAIN calls \cup {t} |-> IF n = t THEN r.function ELSE calls[n]]
  BY DEF Register
<1>4. All \subseteq RouteSet /\ r \in RouteSet
  <2>1. DOMAIN Routes = 1..Len(Routes)
    BY RoutesAssumption, SeqIsFunction
  <2> QED
    BY <1>1, <2>1, RegisteredAreRoutes DEF RouteSet
<1>5. \A q \in RouteSet : RouteSegments(q) = t => q.function = r.function
  BY <1>4, RoutesAssumption DEF RouteSet
<1> HIDE DEF r, t, All
<1>6. DOMAIN calls = {RouteSegments(q) : q \in All}
      /\ \A q \in All : calls[RouteSegments(q)] = q.function
  BY DEF ApiTree, All
<1>7. DOMAIN calls' = DOMAIN calls \cup {t} /\ calls'[t] = r.function
      /\ \A u \in DOMAIN calls : u # t => calls'[u] = calls[u]
  BY <1>3
<1>8. DOMAIN calls' = {RouteSegments(q) : q \in All'}
  BY <1>2, <1>6, <1>7 DEF t
<1>9. nodes' = {<<>>} \cup UNION {Prefixes(RouteSegments(q)) : q \in All'}
  <2> DEFINE U(A) == UNION {Prefixes(RouteSegments(q)) : q \in A}
  <2>1. U(All \cup {r}) = U(All) \cup Prefixes(t)
    BY DEF t
  <2>2. nodes = {<<>>} \cup U(All)
    BY Zenon DEF ApiTree, All
  <2> HIDE DEF U
  <2>3. nodes' = {<<>>} \cup U(All')
    BY <1>2, <1>3, <2>1, <2>2
  <2> QED
    BY <2>3 DEF U
<1>10. ASSUME NEW q \in All' PROVE calls'[RouteSegments(q)] = q.function
  <2>1. CASE RouteSegments(q) = t
    BY <1>2, <1>4, <1>5, <1>7, <2>1
  <2>2. CASE RouteSegments(q) # t
    <3>1. q \in All
      BY <1>2, <2>2 DEF t
    <3> QED
      BY <1>6, <1>7, <2>2, <3>1
  <2> QED
    BY <2>1, <2>2
<1>11. registered' \in 0..Len(Routes)
  BY <1>1
<1> QED
  BY <1>8, <1>9, <1>10, <1>11 DEF ApiTree, All

\* A route does not match the path of no request.
LEMMA RoutesAreLong ==
  ASSUME NEW r \in RouteSet
  PROVE  ~ Matches(r, NoHandle.segments)
<1>1. Len(RouteSegments(r)) >= 2 /\ Len(RouteSegments(r)) \in Nat
  BY RouteSegmentsType, SeqIsFunction
<1>2. Len(NoHandle.segments) = 0
  BY DEF NoHandle
<1> QED
  BY <1>1, <1>2 DEF Matches

\* A request is looked up in the tree as it is.
LEMMA LookupOfTree ==
  ASSUME ApiTree, NEW s \in Seq(Word), handle' = Lookup(s),
         UNCHANGED <<registered, nodes, calls>>
  PROVE  LookupIsExact'
<1>1. handle'.segments = s
  BY LookupKeepsPath
<1>2. DOMAIN s = 1..Len(s)
  BY SeqIsFunction
<1>3. RegisteredRoutes' = RegisteredRoutes /\ \A r, i : Siblings(r, i)' = Siblings(r, i)
  BY DEF RegisteredRoutes, Siblings
<1>4. SUFFICES ASSUME \A i \in 1..Len(s) : s[i] # Param
               PROVE  RouteIsFound' /\ FoundIsRegistered'
  BY <1>1, <1>2 DEF LookupIsExact
<1>5. RouteIsFound'
  <2> SUFFICES ASSUME NEW r \in RegisteredRoutes, Matches(r, s),
                      \A i \in DOMAIN s :
                        RouteSegments(r)[i] = Param => s[i] \notin Siblings(r, i)
               PROVE  handle'.function = r.function /\ handle'.args = ArgsOf(r, s)
    BY <1>1, <1>3 DEF RouteIsFound
  <2> QED
    BY <1>2, <1>4, RouteFound
<1>6. FoundIsRegistered'
  <2> SUFFICES ASSUME IsHandled(handle')
               PROVE  \E r \in RegisteredRoutes :
                        r.function = handle'.function /\ Matches(r, s)
                        /\ handle'.args = ArgsOf(r, s)
    BY <1>1, <1>3, Zenon DEF FoundIsRegistered, IsHandled
  <2> QED
    BY <1>4, FoundRoute
<1> QED
  BY <1>5, <1>6

\* A request is a sequence of words.
LEMMA RequestsAreWords ==
  ASSUME NEW i \in DOMAIN Routes, NEW path \in Paths(Routes[i].path),
         NEW query \in Queries \cup {Routes[i].query}
  PROVE  Segments(Routes[i].host, Routes[i].method, path, query) \in Seq(Word)
<1> DEFINE r == Routes[i]
<1>1. r \in RouteSet
  BY DEF RouteSet
<1>2. r.host \in Names /\ r.method \in Names /\ r.query \in Names /\ r.path \in Seq(Names)
  BY <1>1, RouteTypes
<1>3. path \in Seq(Names)
  BY <1>2, PathsType
<1>4. query \in Names
  BY <1>2 DEF Names
<1> QED
  BY <1>2, <1>3, <1>4, SegmentsType

\* Nothing is registered at first, and nothing was asked.
LEMMA ApiStart ==
  ASSUME ApiInit
  PROVE  ApiTree /\ LookupIsExact
<1>1. RegisteredRoutes = {}
  BY DEF ApiInit, RegisteredRoutes
<1>2. Len(Routes) \in Nat
  BY RoutesAssumption, SeqIsFunction
<1>3. DOMAIN calls = {}
  BY DEF ApiInit
<1>4. ApiTree
  BY <1>1, <1>2, <1>3 DEF ApiInit, ApiTree
<1>5. handle.function = ""
  BY DEF ApiInit, NoHandle
<1> QED
  BY <1>1, <1>4, <1>5 DEF LookupIsExact, RouteIsFound, FoundIsRegistered

\* Registrations and requests.
LEMMA ApiStep ==
  ASSUME ApiTree, LookupIsExact, [ApiNext]_apiVars
  PROVE  ApiTree' /\ LookupIsExact'
<1>1. CASE Register
  <2>1. ApiTree'
    BY <1>1, RegisterTree
  <2>2. handle' = NoHandle
    BY <1>1 DEF Register
  <2>3. RegisteredRoutes' \subseteq RouteSet
    <3>1. registered' \in 0..Len(Routes)
      BY <2>1 DEF ApiTree
    <3>2. DOMAIN Routes = 1..Len(Routes) /\ Len(Routes) \in Nat
      BY RoutesAssumption, SeqIsFunction
    <3> QED
      BY <3>1, <3>2 DEF RegisteredRoutes, RouteSet
  <2>4. handle'.function = ""
    BY <2>2 DEF NoHandle
  <2>5. RouteIsFound'
    BY <2>2, <2>3, RoutesAreLong DEF RouteIsFound
  <2>6. FoundIsRegistered'
    BY <2>4 DEF FoundIsRegistered
  <2> QED
    BY <2>1, <2>5, <2>6 DEF LookupIsExact
<1>2. ASSUME NEW i \in DOMAIN Routes, NEW path \in Paths(Routes[i].path),
             NEW query \in Queries \cup {Routes[i].query}, Request(Routes[i], path, query)
      PROVE  ApiTree' /\ LookupIsExact'
  <2> DEFINE s == Segments(Routes[i].host, Routes[i].method, path, query)
  <2>1. s \in Seq(Word)
    BY RequestsAreWords
  <2>2. UNCHANGED <<registered, nodes, calls>> /\ handle' = Lookup(s)
    BY <1>2, Zenon DEF Request
  <2> HIDE DEF s
  <2>3. LookupIsExact'
    BY <2>1, <2>2, LookupOfTree
  <2>4. ApiTree'
    BY <2>2 DEF ApiTree, RegisteredRoutes
  <2> QED
    BY <2>3, <2>4
<1>3. CASE UNCHANGED apiVars
  <2>1. UNCHANGED <<registered, nodes, calls, handle>>
    BY <1>3 DEF apiVars
  <2>2. ApiTree'
    BY <2>1 DEF ApiTree, RegisteredRoutes
  <2>3. LookupIsExact'
    BY <2>1 DEF LookupIsExact, RouteIsFound, FoundIsRegistered, RegisteredRoutes, Siblings
  <2> QED
    BY <2>2, <2>3
<1> QED
  BY <1>1, <1>2, <1>3 DEF ApiNext

\* A request is handled by the function of the route that its path is that of, with its
\* parameters, whatever was registered before and after, and by no other.
THEOREM LookupsAreExact == ApiSpec => []LookupIsExact
<1>1. ApiInit => ApiTree /\ LookupIsExact
  BY ApiStart
<1>2. ApiTree /\ LookupIsExact /\ [ApiNext]_apiVars => ApiTree' /\ LookupIsExact'
  BY ApiStep
<1> QED
  BY <1>1, <1>2, PTL DEF ApiSpec
(***************************************************************************)
(* Protocol buffers: lengths                                               *)
(***************************************************************************)

\* Halving a length.
LEMMA HalvesLoop ==
  ASSUME NEW len \in Nat
  PROVE  /\ Halves(len)[0] = len
         /\ \A i \in Nat \ {0} : Halves(len)[i] = Halves(len)[i - 1] \div 2
<1> DEFINE S == Nat
           a == len
           n == 0
           Body(v, i) == v \div 2
           G(f) == [i \in Nat |-> IF i = 0 THEN len ELSE f[i - 1] \div 2]
           h == CHOOSE f : f = G(f)
           step == [x \in S \X Nat |-> IF x[2] \in Nat \ {0} THEN Body(x[1], x[2]) ELSE a]
<1>0. Halves(len) = h
  BY DEF Halves
<1>1. n \in Nat
  OBVIOUS
<1>2. a \in S
  OBVIOUS
<1>3. ASSUME NEW v \in S, NEW i \in Nat \ {0} PROVE Body(v, i) \in S
  OBVIOUS
<1>b. \A f : G(f) = [i \in Nat |-> IF i = 0 THEN a ELSE Body(f[i - 1], i)]
  OBVIOUS
<1> HIDE DEF S, a, n, Body, G
<1>2a. step \in [S \X Nat -> S]
  <2>1. \A x \in S \X Nat : (IF x[2] \in Nat \ {0} THEN Body(x[1], x[2]) ELSE a) \in S
    BY <1>2, <1>3
  <2> QED
    BY <2>1
<1>3a. \A v \in S, i \in Nat \ {0} : step[<<v, i>>] = Body(v, i)
  BY <1>1
<1> HIDE DEF step
<1>4. PICK f \in [Nat -> S] : IsRecursion(f, a, step, Nat)
  BY <1>2, <1>2a, RecursionOnNat
<1>5. f = G(f)
  <2>1. ASSUME NEW i \in Nat \ {0} PROVE f[i] = Body(f[i - 1], i)
    <3>1. i \in (Nat) \ {0} /\ i - 1 \in Nat /\ f[i - 1] \in S
      BY <1>1
    <3>2. f[i] = step[<<f[i - 1], i>>]
      BY <1>4, <3>1 DEF IsRecursion
    <3> QED
      BY <1>3a, <3>1, <3>2
  <2>2. f[0] = a
    BY <1>4 DEF IsRecursion
  <2> DEFINE g == [i \in Nat |-> IF i = 0 THEN a ELSE Body(f[i - 1], i)]
  <2>3. f = g
    BY <1>1, <2>1, <2>2
  <2> HIDE DEF g
  <2>4. g = G(f)
    BY <1>b DEF g
  <2> QED
    BY <2>3, <2>4
<1>6. h = G(h)
  BY <1>5
<1> HIDE DEF h
<1>7. G(h)[0] = a /\ \A i \in Nat \ {0} : G(h)[i] = Body(h[i - 1], i)
  BY <1>1, <1>b
<1>8. h[0] = a /\ \A i \in Nat \ {0} : h[i] = Body(h[i - 1], i)
  BY <1>6, <1>7
<1> QED
  BY <1>0, <1>8 DEF a, Body

\* A length that is not longer is not longer when it is halved.
LEMMA HalvesGrow ==
  ASSUME NEW m \in Nat, NEW n \in Nat, m <= n
  PROVE  \A b \in Nat : Halves(m)[b] \in Nat /\ Halves(n)[b] \in Nat /\ Halves(m)[b] <= Halves(n)[b]
<1> DEFINE f == Halves(m)
           g == Halves(n)
           B == {b \in Nat : f[b] \in Nat /\ g[b] \in Nat /\ f[b] <= g[b]}
<1>1. f[0] = m /\ g[0] = n
      /\ \A i \in Nat \ {0} : f[i] = f[i - 1] \div 2 /\ g[i] = g[i - 1] \div 2
  BY HalvesLoop
<1> HIDE DEF f, g
<1>2. 0 \in B
  BY <1>1
<1>3. ASSUME NEW b \in Nat, b \in B PROVE b + 1 \in B
  <2>1. b + 1 \in Nat \ {0} /\ (b + 1) - 1 = b
    OBVIOUS
  <2>2. f[b + 1] = f[b] \div 2 /\ g[b + 1] = g[b] \div 2
    BY <1>1, <2>1
  <2>3. \A x, y \in Nat : x <= y => x \div 2 \in Nat /\ y \div 2 \in Nat /\ x \div 2 <= y \div 2
    OBVIOUS
  <2> QED
    BY <1>3, <2>2, <2>3
<1>4. Nat \subseteq B
  <2> HIDE DEF B
  <2> QED
    BY <1>2, <1>3, Induction
<1> QED
  BY <1>4 DEF f, g


\* The places of the bits of an integer, from the highest to the lowest.
Top(bits) ==
  LET top[i \in Nat] ==
        IF i = 0 THEN 0 ELSE 2 * top[i - 1] + IF IntBits - i \in bits THEN 1 ELSE 0
  IN top

\* One bit more.
LEMMA TopLoop ==
  ASSUME NEW bits
  PROVE  /\ Top(bits)[0] = 0
         /\ \A i \in Nat \ {0} : Top(bits)[i] = 2 * Top(bits)[i - 1] + IF IntBits - i \in bits THEN 1 ELSE 0
<1> DEFINE S == Nat
           a == 0
           n == 0
           Body(v, i) == 2 * v + IF IntBits - i \in bits THEN 1 ELSE 0
           G(f) == [i \in Nat |-> IF i = 0 THEN 0 ELSE 2 * f[i - 1] + IF IntBits - i \in bits THEN 1 ELSE 0]
           h == CHOOSE f : f = G(f)
           step == [x \in S \X Nat |-> IF x[2] \in Nat \ {0} THEN Body(x[1], x[2]) ELSE a]
<1>0. Top(bits) = h
  BY DEF Top
<1>1. n \in Nat
  OBVIOUS
<1>2. a \in S
  OBVIOUS
<1>3. ASSUME NEW v \in S, NEW i \in Nat \ {0} PROVE Body(v, i) \in S
  OBVIOUS
<1>b. \A f : G(f) = [i \in Nat |-> IF i = 0 THEN a ELSE Body(f[i - 1], i)]
  OBVIOUS
<1> HIDE DEF S, a, n, Body, G
<1>2a. step \in [S \X Nat -> S]
  <2>1. \A x \in S \X Nat : (IF x[2] \in Nat \ {0} THEN Body(x[1], x[2]) ELSE a) \in S
    BY <1>2, <1>3
  <2> QED
    BY <2>1
<1>3a. \A v \in S, i \in Nat \ {0} : step[<<v, i>>] = Body(v, i)
  BY <1>1
<1> HIDE DEF step
<1>4. PICK f \in [Nat -> S] : IsRecursion(f, a, step, Nat)
  BY <1>2, <1>2a, RecursionOnNat
<1>5. f = G(f)
  <2>1. ASSUME NEW i \in Nat \ {0} PROVE f[i] = Body(f[i - 1], i)
    <3>1. i \in (Nat) \ {0} /\ i - 1 \in Nat /\ f[i - 1] \in S
      BY <1>1
    <3>2. f[i] = step[<<f[i - 1], i>>]
      BY <1>4, <3>1 DEF IsRecursion
    <3> QED
      BY <1>3a, <3>1, <3>2
  <2>2. f[0] = a
    BY <1>4 DEF IsRecursion
  <2> DEFINE g == [i \in Nat |-> IF i = 0 THEN a ELSE Body(f[i - 1], i)]
  <2>3. f = g
    BY <1>1, <2>1, <2>2
  <2> HIDE DEF g
  <2>4. g = G(f)
    BY <1>b DEF g
  <2> QED
    BY <2>3, <2>4
<1>6. h = G(h)
  BY <1>5
<1> HIDE DEF h
<1>7. G(h)[0] = a /\ \A i \in Nat \ {0} : G(h)[i] = Body(h[i - 1], i)
  BY <1>1, <1>b
<1>8. h[0] = a /\ \A i \in Nat \ {0} : h[i] = Body(h[i - 1], i)
  BY <1>6, <1>7
<1> QED
  BY <1>0, <1>8 DEF a, Body

\* An integer as a length is a number.
LEMMA NumberType == ASSUME NEW bits PROVE Number(bits) \in Nat
<1> DEFINE f == Top(bits)
           B == {b \in Nat : f[b] \in Nat}
<1>1. f[0] = 0 /\ \A i \in Nat \ {0} : f[i] = 2 * f[i - 1] + IF IntBits - i \in bits THEN 1 ELSE 0
  BY TopLoop
<1> HIDE DEF f
<1>2. 0 \in B
  BY <1>1
<1>3. ASSUME NEW b \in Nat, b \in B PROVE b + 1 \in B
  <2>1. b + 1 \in Nat \ {0} /\ (b + 1) - 1 = b
    OBVIOUS
  <2>2. f[b + 1] = 2 * f[b] + IF IntBits - (b + 1) \in bits THEN 1 ELSE 0
    BY <1>1, <2>1
  <2> QED
    BY <1>3, <2>2
<1>4. Nat \subseteq B
  <2> HIDE DEF B
  <2> QED
    BY <1>2, <1>3, Induction
<1>5. Number(bits) = f[IntBits]
  BY DEF Number, f, Top
<1> QED
  BY <1>4, <1>5, IntBitsAssumption

\* A length that fits in an integer is that of its bits.
LEMMA NumberOfBits ==
  ASSUME NEW n \in Nat, FitsInt(n)
  PROVE  Number(BitsOf(n)) = n /\ BitsOf(n) \in SUBSET (0..(IntBits - 1))
<1> DEFINE f == Top(BitsOf(n))
           g == Halves(n)
           B == {b \in Nat : b <= IntBits => f[b] = g[IntBits - b]}
<1>0. IntBits \in Nat /\ IntBits >= 1
  BY IntBitsAssumption
<1>1. f[0] = 0
      /\ \A i \in Nat \ {0} : f[i] = 2 * f[i - 1] + IF IntBits - i \in BitsOf(n) THEN 1 ELSE 0
  BY TopLoop
<1>2. g[0] = n /\ \A i \in Nat \ {0} : g[i] = g[i - 1] \div 2
  BY HalvesLoop
<1>3. \A b \in Nat : g[b] \in Nat
  BY HalvesGrow
<1>4. \A b \in 0..(IntBits - 1) : b \in BitsOf(n) <=> g[b] % 2 = 1
  BY DEF BitsOf
<1> HIDE DEF f
<1>5. 0 \in B
  <2>1. g[IntBits - 1] = 0
    BY DEF FitsInt
  <2> HIDE DEF g
  <2>2. g[IntBits] = g[IntBits - 1] \div 2
    BY <1>0, <1>2
  <2>3. g[IntBits] = 0
    BY <2>1, <2>2
  <2> QED
    BY <1>0, <1>1, <2>3
<1> HIDE DEF g
<1>6. ASSUME NEW b \in Nat, b \in B PROVE b + 1 \in B
  <2> SUFFICES ASSUME b + 1 <= IntBits PROVE f[b + 1] = g[IntBits - (b + 1)]
    OBVIOUS
  <2> DEFINE c == IntBits - (b + 1)
  <2>1. b + 1 \in Nat \ {0} /\ (b + 1) - 1 = b /\ c \in 0..(IntBits - 1) /\ c + 1 = IntBits - b
        /\ c + 1 \in Nat \ {0} /\ (c + 1) - 1 = c /\ c \in Nat
    BY <1>0
  <2>2. f[b] = g[c + 1]
    <3>1. b <= IntBits /\ IntBits - b = c + 1
      BY <1>0, <2>1
    <3>2. f[b] = g[IntBits - b]
      BY <1>6, <3>1
    <3> QED
      BY <3>1, <3>2
  <2>3. f[b + 1] = 2 * f[b] + IF c \in BitsOf(n) THEN 1 ELSE 0
    BY <1>1, <2>1
  <2> HIDE DEF c
  <2>4. g[c + 1] = g[c] \div 2
    BY <1>2, <2>1
  <2>5. g[c] \in Nat
    BY <1>3, <2>1
  <2>6. \A x \in Nat : x = 2 * (x \div 2) + (IF x % 2 = 1 THEN 1 ELSE 0)
    OBVIOUS
  <2>7. c \in BitsOf(n) <=> g[c] % 2 = 1
    BY <1>4, <2>1
  <2>8. f[b + 1] = g[c]
    BY <2>2, <2>3, <2>4, <2>5, <2>6, <2>7
  <2> QED
    BY <2>8 DEF c
<1>7. Nat \subseteq B
  <2> HIDE DEF B
  <2> QED
    BY <1>5, <1>6, Induction
<1>8. f[IntBits] = g[0]
  BY <1>0, <1>7
<1>9. Number(BitsOf(n)) = f[IntBits]
  BY DEF Number, f, Top
<1>10. BitsOf(n) \in SUBSET (0..(IntBits - 1))
  BY DEF BitsOf
<1> QED
  BY <1>2, <1>8, <1>9, <1>10

(***************************************************************************)
(* Protocol buffers: the parser in a string                                *)
(***************************************************************************)

\* Strings that are parts of S up to its end, none of them empty: the i-th ends at b[i].
IsCover(strings, S, b) ==
  /\ b \in [0..Len(strings) -> 0..Len(S)]
  /\ b[Len(strings)] = Len(S)
  /\ \A i \in 1..Len(strings) :
       /\ b[i - 1] < b[i] /\ Len(strings[i]) = b[i] - b[i - 1]
       /\ \A j \in 1..Len(strings[i]) : strings[i][j] = S[b[i - 1] + j]

\* The strings that a parser has are those of S, and it is at place k of S.
IsViewOf(p, S, k, b) ==
  /\ IsCover(p.rest, S, b)
  /\ Len(p.buf) <= b[0] /\ k = b[0] - Len(p.buf) + p.offset
  /\ \A j \in 1..Len(p.buf) : p.buf[j] = S[b[0] - Len(p.buf) + j]
IsView(p, S, k) == p \in Parser /\ \E b : IsViewOf(p, S, k, b)

\* The parts of a parser.
LEMMA ParserParts ==
  ASSUME NEW p \in Parser
  PROVE  /\ p.rest \in Seq(Text) /\ p.buf \in Text /\ p.offset \in Nat
         /\ Len(p.buf) \in Nat /\ Len(p.rest) \in Nat /\ p.offset <= Len(p.buf)
         /\ p = [rest |-> p.rest, buf |-> p.buf, offset |-> p.offset]
         /\ Left(p) = Len(p.buf) - p.offset /\ Left(p) \in Nat
<1>1. p \in [rest : Seq(Text), buf : Text, offset : Nat] /\ p.offset <= Len(p.buf)
  BY DEF Parser
<1>2. p.rest \in Seq(Text) /\ p.buf \in Seq(Byte) /\ p.offset \in Nat
      /\ p = [rest |-> p.rest, buf |-> p.buf, offset |-> p.offset]
  BY <1>1 DEF Text
<1>3. Len(p.buf) \in Nat /\ Len(p.rest) \in Nat
  BY <1>2, LenProperties
<1> QED
  BY <1>1, <1>2, <1>3 DEF Text, Left

\* A parser made of its parts.
LEMMA ParserMade ==
  ASSUME NEW rest \in Seq(Text), NEW buf \in Text, NEW offset \in Nat, offset <= Len(buf)
  PROVE  [rest |-> rest, buf |-> buf, offset |-> offset] \in Parser
BY DEF Parser

\* The next string of a parser.
LEMMA NextParser ==
  ASSUME NEW p \in Parser, p.rest # <<>>
  PROVE  /\ NextString(p) \in Parser
         /\ NextString(p).rest = Tail(p.rest) /\ NextString(p).offset = 0
         /\ NextString(p).buf = p.rest[1]
         /\ Len(NextString(p).rest) = Len(p.rest) - 1 /\ Len(p.rest) >= 1
<1>1. p.rest \in Seq(Text) /\ Len(p.rest) \in Nat
  BY ParserParts
<1>2. /\ Head(p.rest) \in Text /\ Tail(p.rest) \in Seq(Text) /\ Len(Tail(p.rest)) = Len(p.rest) - 1
  BY <1>1, HeadTailProperties
<1>3. Len(p.rest) # 0 /\ Head(p.rest) = p.rest[1]
  BY <1>1
<1>4. Len(Head(p.rest)) \in Nat
  BY <1>2, LenProperties DEF Text
<1>5. NextString(p) = [rest |-> Tail(p.rest), buf |-> Head(p.rest), offset |-> 0]
  BY DEF NextString
<1>6. NextString(p) \in Parser
  <2>1. 0 \in Nat /\ 0 <= Len(Head(p.rest))
    BY <1>4
  <2>2. [rest |-> Tail(p.rest), buf |-> Head(p.rest), offset |-> 0] \in Parser
    BY <1>2, <2>1, ParserMade, Zenon
  <2> QED
    BY <1>5, <2>2, Zenon
<1> QED
  BY <1>1, <1>2, <1>3, <1>5, <1>6

\* A parser that goes on in its string.
LEMMA OnParser ==
  ASSUME NEW p \in Parser, NEW n \in Nat, n <= Left(p)
  PROVE  /\ [p EXCEPT !.offset = @ + n] \in Parser
         /\ [p EXCEPT !.offset = @ + n].rest = p.rest
         /\ [p EXCEPT !.offset = @ + n].buf = p.buf
         /\ [p EXCEPT !.offset = @ + n].offset = p.offset + n
<1> DEFINE q == [p EXCEPT !.offset = @ + n]
<1>1. /\ p.rest \in Seq(Text) /\ p.buf \in Text /\ p.offset \in Nat /\ Len(p.buf) \in Nat
      /\ p = [rest |-> p.rest, buf |-> p.buf, offset |-> p.offset]
      /\ Left(p) = Len(p.buf) - p.offset
  BY ParserParts
<1>2. q = [rest |-> p.rest, buf |-> p.buf, offset |-> p.offset + n]
  BY <1>1
<1>3. p.offset + n \in Nat /\ p.offset + n <= Len(p.buf)
  BY <1>1
<1>4. q \in Parser
  BY <1>1, <1>2, <1>3, ParserMade
<1> QED
  BY <1>2, <1>4

\* Where the string ends that a parser is in.
LEMMA ViewLeft ==
  ASSUME NEW S \in Text, NEW k, NEW p, IsView(p, S, k)
  PROVE  /\ k \in 0..Len(S) /\ p \in Parser /\ k + Left(p) <= Len(S)
         /\ p.rest = <<>> => k + Left(p) = Len(S)
         /\ p.rest # <<>> => k + Left(p) < Len(S)
<1>1. PICK b : IsViewOf(p, S, k, b)
  BY DEF IsView
<1>2. p \in Parser /\ Len(S) \in Nat
  BY LenProperties DEF IsView, Text
<1>3. /\ p.rest \in Seq(Text) /\ p.offset \in Nat /\ Len(p.buf) \in Nat /\ Len(p.rest) \in Nat
      /\ p.offset <= Len(p.buf) /\ Left(p) = Len(p.buf) - p.offset
  BY <1>2, ParserParts
<1>4. b \in [0..Len(p.rest) -> 0..Len(S)] /\ b[Len(p.rest)] = Len(S)
      /\ Len(p.buf) <= b[0] /\ k = b[0] - Len(p.buf) + p.offset
  BY <1>1 DEF IsViewOf, IsCover
<1>5. b[0] \in 0..Len(S) /\ k + Left(p) = b[0] /\ k \in 0..Len(S)
  BY <1>2, <1>3, <1>4
<1>6. p.rest = <<>> => b[0] = Len(S)
  BY <1>4
<1>7. ASSUME p.rest # <<>> PROVE b[0] < Len(S)
  <2>1. 1 \in 1..Len(p.rest)
    BY <1>3, <1>7
  <2>2. b[1 - 1] < b[1] /\ b[1] \in 0..Len(S)
    BY <1>1, <1>4, <2>1 DEF IsViewOf, IsCover
  <2> QED
    BY <1>2, <1>5, <2>2
<1> QED
  BY <1>2, <1>5, <1>6, <1>7

\* A parser that leaves the rest of its string is at the beginning of the next one.
LEMMA ViewNext ==
  ASSUME NEW S \in Text, NEW k, NEW p, IsView(p, S, k), p.rest # <<>>
  PROVE  IsView(NextString(p), S, k + Left(p)) /\ Left(NextString(p)) > 0
<1>1. PICK b : IsViewOf(p, S, k, b)
  BY DEF IsView
<1>2. p \in Parser /\ Len(S) \in Nat
  BY LenProperties DEF IsView, Text
<1>3. /\ p.rest \in Seq(Text) /\ p.offset \in Nat /\ Len(p.buf) \in Nat /\ Len(p.rest) \in Nat
      /\ Left(p) = Len(p.buf) - p.offset
  BY <1>2, ParserParts
<1> DEFINE q == NextString(p)
           n == Len(p.rest)
           c == [i \in 0..(n - 1) |-> b[i + 1]]
<1>4. q \in Parser /\ q.rest = Tail(p.rest) /\ q.offset = 0 /\ q.buf = p.rest[1]
      /\ Len(q.rest) = n - 1 /\ n >= 1
  BY <1>2, NextParser
<1>5. b \in [0..n -> 0..Len(S)] /\ b[n] = Len(S) /\ k = b[0] - Len(p.buf) + p.offset
  BY <1>1 DEF IsViewOf, IsCover
<1>6. \A i \in 1..n :
        /\ b[i - 1] < b[i] /\ Len(p.rest[i]) = b[i] - b[i - 1]
        /\ \A j \in 1..Len(p.rest[i]) : p.rest[i][j] = S[b[i - 1] + j]
  BY <1>1 DEF IsViewOf, IsCover
<1>7. \A i \in 1..(n - 1) : q.rest[i] = p.rest[i + 1]
  BY <1>3, <1>4
<1> HIDE DEF q, n
<1>8. c \in [0..(n - 1) -> 0..Len(S)] /\ c[n - 1] = Len(S) /\ c[0] = b[1]
      /\ \A i \in 0..(n - 1) : c[i] = b[i + 1]
  <2>1. n - 1 \in Nat /\ \A i \in 0..(n - 1) : i + 1 \in 0..n
    BY <1>3, <1>4 DEF n
  <2>2. (n - 1) + 1 = n
    BY <1>3 DEF n
  <2> QED
    BY <1>5, <2>1, <2>2
<1> HIDE DEF c
<1>9. IsCover(q.rest, S, c)
  <2>1. ASSUME NEW i \in 1..(n - 1)
        PROVE  /\ c[i - 1] < c[i] /\ Len(q.rest[i]) = c[i] - c[i - 1]
               /\ \A j \in 1..Len(q.rest[i]) : q.rest[i][j] = S[c[i - 1] + j]
    <3>1. i + 1 \in 1..n /\ (i + 1) - 1 = i /\ i \in 0..(n - 1) /\ i - 1 \in 0..(n - 1)
          /\ (i - 1) + 1 = i
      BY <1>3, <1>4 DEF n
    <3>2. c[i - 1] = b[i] /\ c[i] = b[i + 1] /\ q.rest[i] = p.rest[i + 1]
      BY <1>7, <1>8, <3>1
    <3>3. /\ b[i] < b[i + 1] /\ Len(p.rest[i + 1]) = b[i + 1] - b[i]
          /\ \A j \in 1..Len(p.rest[i + 1]) : p.rest[i + 1][j] = S[b[i] + j]
      BY <1>6, <3>1
    <3> QED
      BY <3>2, <3>3
  <2> QED
    BY <1>4, <1>8, <2>1 DEF IsCover
<1>10. 1 \in 1..n /\ 1 - 1 = 0 /\ b[0] \in 0..Len(S) /\ b[1] \in 0..Len(S)
  BY <1>3, <1>4, <1>5 DEF n
<1>11. b[0] < b[1] /\ Len(q.buf) = b[1] - b[0] /\ \A j \in 1..Len(q.buf) : q.buf[j] = S[b[0] + j]
  BY <1>4, <1>6, <1>10
<1>12. c[0] - Len(q.buf) = b[0] /\ k + Left(p) = b[0]
  BY <1>2, <1>3, <1>5, <1>8, <1>10, <1>11
<1>13. Len(q.buf) <= c[0] /\ k + Left(p) = c[0] - Len(q.buf) + q.offset
       /\ \A j \in 1..Len(q.buf) : q.buf[j] = S[c[0] - Len(q.buf) + j]
  BY <1>2, <1>4, <1>8, <1>10, <1>11, <1>12
<1>14. IsView(q, S, k + Left(p))
  BY <1>4, <1>9, <1>13 DEF IsView, IsViewOf
<1>15. Left(q) > 0
  BY <1>4, <1>10, <1>11 DEF Left
<1> QED
  BY <1>14, <1>15 DEF q

\* A parser that goes on in its string is further on in S.
LEMMA ViewOn ==
  ASSUME NEW S \in Text, NEW k, NEW p, IsView(p, S, k), NEW n \in Nat, n <= Left(p)
  PROVE  IsView([p EXCEPT !.offset = @ + n], S, k + n)
<1>1. PICK b : IsViewOf(p, S, k, b)
  BY DEF IsView
<1>2. p \in Parser /\ Len(S) \in Nat
  BY LenProperties DEF IsView, Text
<1>3. /\ p.rest \in Seq(Text) /\ p.offset \in Nat /\ Len(p.buf) \in Nat /\ Len(p.rest) \in Nat
      /\ Left(p) = Len(p.buf) - p.offset /\ p.buf \in Seq(Byte) /\ p.offset <= Len(p.buf)
  BY <1>2, ParserParts DEF Text
<1> DEFINE q == [p EXCEPT !.offset = @ + n]
<1>4. q \in Parser /\ q.rest = p.rest /\ q.buf = p.buf /\ q.offset = p.offset + n
  BY <1>2, OnParser
<1>5. /\ b \in [0..Len(p.rest) -> 0..Len(S)]
      /\ Len(p.buf) <= b[0] /\ k = b[0] - Len(p.buf) + p.offset
      /\ \A j \in 1..Len(p.buf) : p.buf[j] = S[b[0] - Len(p.buf) + j]
  BY <1>1 DEF IsViewOf, IsCover
<1> HIDE DEF q
<1>6. b[0] \in Nat
  BY <1>2, <1>3, <1>5
<1>7. IsView(q, S, k + n)
  <2>1. k + n = b[0] - Len(q.buf) + q.offset
    BY <1>3, <1>4, <1>5, <1>6
  <2>2. IsViewOf(q, S, k + n, b)
    BY <1>1, <1>4, <1>5, <2>1 DEF IsViewOf
  <2> QED
    BY <1>4, <2>2 DEF IsView
<1> QED
  BY <1>7 DEF q

\* A parser takes bytes of S from its string.
LEMMA ViewTake ==
  ASSUME NEW S \in Text, NEW k, NEW p, IsView(p, S, k), NEW n \in Nat, n <= Left(p)
  PROVE  /\ Take(p, n) \in Text /\ Len(Take(p, n)) = n
         /\ \A j \in 1..n : Take(p, n)[j] = S[k + j]
<1>1. PICK b : IsViewOf(p, S, k, b)
  BY DEF IsView
<1>2. p \in Parser /\ Len(S) \in Nat
  BY LenProperties DEF IsView, Text
<1>3. /\ p.rest \in Seq(Text) /\ p.offset \in Nat /\ Len(p.buf) \in Nat /\ Len(p.rest) \in Nat
      /\ Left(p) = Len(p.buf) - p.offset /\ p.buf \in Seq(Byte) /\ p.offset <= Len(p.buf)
  BY <1>2, ParserParts DEF Text
<1>5. /\ b \in [0..Len(p.rest) -> 0..Len(S)]
      /\ Len(p.buf) <= b[0] /\ k = b[0] - Len(p.buf) + p.offset
      /\ \A j \in 1..Len(p.buf) : p.buf[j] = S[b[0] - Len(p.buf) + j]
  BY <1>1 DEF IsViewOf, IsCover
<1>6. b[0] \in Nat
  BY <1>2, <1>3, <1>5
<1>8. \A i \in 1..Len(p.buf) : p.buf[i] \in Byte
  BY <1>3, ElementOfSeq
<1>9. /\ Take(p, n) \in Seq(Byte)
      /\ Len(Take(p, n)) = IF p.offset + 1 <= p.offset + n THEN (p.offset + n) - (p.offset + 1) + 1 ELSE 0
      /\ \A j \in 1..((p.offset + n) - (p.offset + 1) + 1) :
           Take(p, n)[j] = p.buf[(p.offset + 1) + j - 1]
  <2>1. p.offset + 1 \in Int /\ p.offset + n \in Int
        /\ \A i \in (p.offset + 1)..(p.offset + n) : i \in 1..Len(p.buf)
    BY <1>3
  <2>2. \A i \in (p.offset + 1)..(p.offset + n) : p.buf[i] \in Byte
    BY <1>8, <2>1
  <2> QED
    BY <2>1, <2>2, SubSeqProperties DEF Take
<1>10. Len(Take(p, n)) = n
  BY <1>3, <1>9
<1>11. ASSUME NEW j \in 1..n PROVE Take(p, n)[j] = S[k + j]
  <2>1. j \in 1..((p.offset + n) - (p.offset + 1) + 1) /\ (p.offset + 1) + j - 1 = p.offset + j
        /\ p.offset + j \in 1..Len(p.buf)
    BY <1>3
  <2>2. Take(p, n)[j] = p.buf[p.offset + j]
    BY <1>9, <2>1
  <2>3. b[0] - Len(p.buf) + (p.offset + j) = k + j
    BY <1>3, <1>5, <1>6
  <2> QED
    BY <1>5, <2>1, <2>2, <2>3
<1> QED
  BY <1>9, <1>10, <1>11 DEF Text

\* parseByte() takes the next byte of S.
LEMMA ViewByte ==
  ASSUME NEW S \in Text, NEW k, NEW p, IsView(p, S, k), k < Len(S)
  PROVE  /\ ParseByte(p).value = S[k + 1] /\ IsView(ParseByte(p).p, S, k + 1)
<1> DEFINE q == Refill(p)
<1>1. k \in 0..Len(S) /\ p \in Parser /\ Len(S) \in Nat
      /\ (p.rest = <<>> => k + Left(p) = Len(S)) /\ Left(p) \in Nat
      /\ Left(p) = Len(p.buf) - p.offset /\ Len(p.buf) \in Nat /\ p.offset \in Nat
  BY ViewLeft, ParserParts, LenProperties DEF Text
<1>2. IsView(q, S, k) /\ Left(q) > 0
  <2>1. CASE AtEnd(p) /\ p.rest # <<>>
    <3>1. q = NextString(p) /\ Left(p) = 0
      BY <1>1, <2>1 DEF Refill, AtEnd
    <3>2. k + Left(p) = k
      BY <1>1, <3>1
    <3> QED
      BY <2>1, <3>1, <3>2, ViewNext
  <2>2. CASE ~ (AtEnd(p) /\ p.rest # <<>>)
    <3>1. q = p
      BY <2>2 DEF Refill
    <3>2. Left(p) > 0
      BY <1>1, <2>2 DEF AtEnd
    <3> QED
      BY <3>1, <3>2
  <2> QED
    BY <2>1, <2>2
<1>3. q \in Parser /\ Left(q) = Len(q.buf) - q.offset /\ Len(q.buf) \in Nat /\ q.offset \in Nat
      /\ q.buf \in Seq(Byte)
  BY <1>2, ParserParts DEF IsView, Text
<1>4. ~ AtEnd(q)
  BY <1>2, <1>3 DEF AtEnd
<1>5. ParseByte(p) = Result(q.buf[q.offset + 1], [q EXCEPT !.offset = @ + 1])
  BY <1>4 DEF ParseByte
<1> HIDE DEF q
<1>6. ParseByte(p).value = q.buf[q.offset + 1] /\ ParseByte(p).p = [q EXCEPT !.offset = @ + 1]
  BY <1>5 DEF Result
<1>7. 1 <= Left(q) /\ 1 \in Nat
  BY <1>2, <1>3
<1>8. IsView([q EXCEPT !.offset = @ + 1], S, k + 1) /\ Take(q, 1)[1] = S[k + 1]
  <2>1. Take(q, 1)[1] = S[k + 1]
    BY <1>2, <1>7, ViewTake
  <2>2. IsView([q EXCEPT !.offset = @ + 1], S, k + 1)
    BY <1>2, <1>7, ViewOn, Zenon
  <2> QED
    BY <2>1, <2>2
<1>9. Take(q, 1)[1] = q.buf[q.offset + 1]
  BY <1>3, <1>7 DEF Take
<1> QED
  BY <1>6, <1>8, <1>9

\* parseByte() returns -1 at the end of S.
LEMMA ViewEnd ==
  ASSUME NEW S \in Text, NEW k, NEW p, IsView(p, S, k), k = Len(S)
  PROVE  ParseByte(p).value = MinusOne
<1>1. k \in 0..Len(S) /\ p \in Parser /\ Len(S) \in Nat
      /\ k + Left(p) <= Len(S) /\ (p.rest # <<>> => k + Left(p) < Len(S)) /\ Left(p) \in Nat
      /\ Left(p) = Len(p.buf) - p.offset /\ Len(p.buf) \in Nat /\ p.offset \in Nat
  BY ViewLeft, ParserParts, LenProperties DEF Text
<1>2. p.rest = <<>> /\ AtEnd(p)
  BY <1>1 DEF AtEnd
<1>3. Refill(p) = p
  BY <1>2 DEF Refill
<1>4. ParseByte(p) = Result(MinusOne, p)
  BY <1>2, <1>3 DEF ParseByte
<1> QED
  BY <1>4 DEF Result

\* parseDone() tells whether the parser is at the end of S.
LEMMA ViewDone ==
  ASSUME NEW S \in Text, NEW k, NEW p, IsView(p, S, k)
  PROVE  ParseDone(p) <=> k = Len(S)
<1>1. k \in 0..Len(S) /\ p \in Parser /\ Len(S) \in Nat /\ k + Left(p) <= Len(S)
      /\ (p.rest # <<>> => k + Left(p) < Len(S)) /\ (p.rest = <<>> => k + Left(p) = Len(S))
      /\ Left(p) = Len(p.buf) - p.offset /\ Len(p.buf) \in Nat /\ p.offset \in Nat /\ Left(p) \in Nat
  BY ViewLeft, ParserParts, LenProperties DEF Text
<1> QED
  BY <1>1 DEF ParseDone, AtEnd

\* parseByte() for any parser.
LEMMA ByteType ==
  ASSUME NEW p \in Parser
  PROVE  /\ ParseByte(p).p \in Parser /\ ParseByte(p).value \in Byte \cup {MinusOne}
<1> DEFINE q == Refill(p)
<1>1. q \in Parser
  BY NextParser DEF Refill
<1>2. q.buf \in Seq(Byte) /\ q.offset \in Nat /\ Len(q.buf) \in Nat
      /\ Left(q) = Len(q.buf) - q.offset
  BY <1>1, ParserParts DEF Text
<1>3. CASE AtEnd(q)
  <2>1. ParseByte(p) = Result(MinusOne, q)
    BY <1>3 DEF ParseByte
  <2> QED
    BY <1>1, <2>1 DEF Result
<1>4. CASE ~ AtEnd(q)
  <2>1. ParseByte(p) = Result(q.buf[q.offset + 1], [q EXCEPT !.offset = @ + 1])
    BY <1>4 DEF ParseByte
  <2> HIDE DEF q
  <2>2. q.offset + 1 \in 1..Len(q.buf) /\ 1 <= Left(q) /\ 1 \in Nat
    BY <1>2, <1>4 DEF AtEnd
  <2>3. q.buf[q.offset + 1] \in Byte
    BY <1>2, <2>2, ElementOfSeq
  <2>4. [q EXCEPT !.offset = @ + 1] \in Parser
    BY <1>1, <2>2, OnParser
  <2> QED
    BY <2>1, <2>3, <2>4 DEF Result
<1> QED
  BY <1>3, <1>4

(***************************************************************************)
(* Protocol buffers: integers                                              *)
(***************************************************************************)

\* What is found at a place of S.
IsAt(S, k, t) ==
  /\ t \in Text /\ k \in Nat /\ k + Len(t) <= Len(S)
  /\ \A i \in 1..Len(t) : S[k + i] = t[i]

\* Seven bits, moved to their place.
LEMMA ShiftBack ==
  ASSUME NEW size \in {32, 64}, NEW bits \in SUBSET (0..(size - 1)), NEW d \in Nat
  PROVE  ShiftLeft(ShiftRight(bits, d) \cap 0..6, d, size) = bits \cap d..(d + 6)
<1>1. ASSUME NEW b \in ShiftLeft(ShiftRight(bits, d) \cap 0..6, d, size)
      PROVE  b \in bits \cap d..(d + 6)
  <2>1. b \in 0..(size - 1) /\ b - d \in 0..6 /\ b - d \in ShiftRight(bits, d)
    BY DEF ShiftLeft
  <2>2. (b - d) + d \in bits /\ (b - d) + d = b
    BY <2>1 DEF ShiftRight
  <2> QED
    BY <2>1, <2>2
<1>2. ASSUME NEW b \in bits \cap d..(d + 6)
      PROVE  b \in ShiftLeft(ShiftRight(bits, d) \cap 0..6, d, size)
  <2>1. b \in 0..(size - 1) /\ b - d \in 0..6 /\ b - d \in 0..63 /\ (b - d) + d = b
    OBVIOUS
  <2>2. b - d \in ShiftRight(bits, d)
    BY <2>1 DEF ShiftRight
  <2> QED
    BY <2>1, <2>2 DEF ShiftLeft
<1> QED
  BY <1>1, <1>2

\* The bytes of a number.
LEMMA GroupsType ==
  ASSUME NEW bits, NEW n \in Nat, ShiftRight(bits, 7 * n) \subseteq 0..6
  PROVE  /\ Groups(bits, n) \in Text /\ Len(Groups(bits, n)) = n + 1
         /\ \A i \in 0..(n - 1) :
              Groups(bits, n)[i + 1] = {7} \cup (ShiftRight(bits, 7 * i) \cap 0..6)
         /\ Groups(bits, n)[n + 1] = ShiftRight(bits, 7 * n)
<1> DEFINE e(i) == LET rest == ShiftRight(bits, 7 * (i - 1)) IN
                   IF i <= n THEN {7} \cup (rest \cap 0..6) ELSE rest
           g == [i \in 1..(n + 1) |-> e(i)]
<1>1. ASSUME NEW i \in 1..(n + 1) PROVE e(i) \in Byte
  <2>1. CASE i <= n
    BY <2>1 DEF Byte
  <2>2. CASE ~ (i <= n)
    <3>1. i - 1 = n
      BY <2>2
    <3>2. e(i) = ShiftRight(bits, 7 * n)
      BY <2>2, <3>1
    <3> QED
      BY <3>2 DEF Byte
  <2> QED
    BY <2>1, <2>2
<1>2. g = Groups(bits, n)
  BY DEF Groups
<1>3. \A i \in 0..(n - 1) : i + 1 \in 1..(n + 1) /\ i + 1 <= n /\ (i + 1) - 1 = i
  OBVIOUS
<1>4. \A i \in 0..(n - 1) : g[i + 1] = {7} \cup (ShiftRight(bits, 7 * i) \cap 0..6)
  BY <1>3
<1>5. n + 1 \in 1..(n + 1) /\ ~ (n + 1 <= n) /\ (n + 1) - 1 = n
  OBVIOUS
<1>6. g[n + 1] = ShiftRight(bits, 7 * n)
  BY <1>5
<1> HIDE DEF e
<1>7. g \in [1..(n + 1) -> Byte] /\ n + 1 \in Nat
  BY <1>1
<1> HIDE DEF g
<1>8. g \in Seq(Byte) /\ Len(g) = n + 1
  BY <1>7, FunctionIsSequence
<1> QED
  BY <1>2, <1>4, <1>6, <1>8 DEF Text

\* What the loop of parseInt() keeps.
GroupState == [more : BOOLEAN, value : SUBSET Int, p : Parser]

\* One pass keeps its type.
LEMMA GroupStepType ==
  ASSUME NEW s \in GroupState, NEW i \in Int, NEW size \in Int
  PROVE  GroupStep(s, i, size) \in GroupState
<1> DEFINE c == ParseByte(s.p)
<1>1. s.p \in Parser /\ s.value \in SUBSET Int
  BY DEF GroupState
<1>2. c.p \in Parser
  BY <1>1, ByteType
<1> HIDE DEF c
<1> DEFINE w == s.value \cup ShiftLeft(c.value \cap 0..6, 7 * (i - 1), size)
           more == 7 \in c.value
<1>3. w \in SUBSET Int /\ more \in BOOLEAN
  BY <1>1 DEF ShiftLeft
<1> HIDE DEF w, more
<1>4. [more |-> more, value |-> w, p |-> c.p] \in GroupState
  BY <1>2, <1>3 DEF GroupState
<1> QED
  BY <1>4 DEF GroupStep, c, w, more

\* The passes through the loop of parseInt().
LEMMA GroupPasses ==
  ASSUME NEW p \in Parser, NEW size \in Int
  PROVE  /\ GroupLoop(p, size)[0] = [more |-> TRUE, value |-> {}, p |-> p]
         /\ \A i \in 1..MaxGroups : GroupLoop(p, size)[i] = GroupStep(GroupLoop(p, size)[i - 1], i, size)
<1> DEFINE S == GroupState
           a == [more |-> TRUE, value |-> {}, p |-> p]
           n == MaxGroups
           Body(v, i) == GroupStep(v, i, size)
           G(f) == [i \in 0..MaxGroups |-> IF i = 0 THEN [more |-> TRUE, value |-> {}, p |-> p] ELSE GroupStep(f[i - 1], i, size)]
           h == CHOOSE f : f = G(f)
           step == [x \in S \X Nat |-> IF x[2] \in 1..MaxGroups THEN Body(x[1], x[2]) ELSE a]
<1>0. GroupLoop(p, size) = h
  BY DEF GroupLoop
<1>1. n \in Nat
  BY DEF MaxGroups
<1>2. a \in S
  BY DEF GroupState
<1>3. ASSUME NEW v \in S, NEW i \in 1..MaxGroups PROVE Body(v, i) \in S
  BY GroupStepType
<1>b. \A f : G(f) = [i \in 0..MaxGroups |-> IF i = 0 THEN a ELSE Body(f[i - 1], i)]
  OBVIOUS
<1> HIDE DEF S, a, n, Body, G
<1>2a. step \in [S \X Nat -> S]
  <2>1. \A x \in S \X Nat : (IF x[2] \in 1..MaxGroups THEN Body(x[1], x[2]) ELSE a) \in S
    BY <1>2, <1>3
  <2> QED
    BY <2>1
<1>3a. \A v \in S, i \in 1..MaxGroups : step[<<v, i>>] = Body(v, i)
  BY <1>1
<1> HIDE DEF step
<1>4. PICK f \in [0..n -> S] : IsRecursion(f, a, step, 0..n)
  BY <1>1, <1>2, <1>2a, RecursionExists
<1>5. f = G(f)
  <2>1. ASSUME NEW i \in 1..MaxGroups PROVE f[i] = Body(f[i - 1], i)
    <3>1. i \in (0..n) \ {0} /\ i - 1 \in 0..n /\ f[i - 1] \in S
      BY <1>1 DEF n
    <3>2. f[i] = step[<<f[i - 1], i>>]
      BY <1>4, <3>1 DEF IsRecursion
    <3> QED
      BY <1>3a, <3>1, <3>2
  <2>2. f[0] = a
    BY <1>4 DEF IsRecursion
  <2> DEFINE g == [i \in 0..MaxGroups |-> IF i = 0 THEN a ELSE Body(f[i - 1], i)]
  <2>3. f = g
    BY <1>1, <2>1, <2>2 DEF n
  <2> HIDE DEF g
  <2>4. g = G(f)
    BY <1>b DEF g
  <2> QED
    BY <2>3, <2>4
<1>6. h = G(h)
  BY <1>5
<1> HIDE DEF h
<1>7. G(h)[0] = a /\ \A i \in 1..MaxGroups : G(h)[i] = Body(h[i - 1], i)
  BY <1>1, <1>b DEF n
<1>8. h[0] = a /\ \A i \in 1..MaxGroups : h[i] = Body(h[i - 1], i)
  BY <1>6, <1>7
<1> QED
  BY <1>0, <1>8 DEF a, Body

\* parseInt() and parseAsn() for any parser.
LEMMA GroupsParser ==
  ASSUME NEW p \in Parser, NEW size \in Int
  PROVE  ParseGroups(p, size).ok =>
           ParseGroups(p, size).p \in Parser /\ ParseGroups(p, size).ok = TRUE
<1> DEFINE f == GroupLoop(p, size)
           I == {i \in Nat : i <= MaxGroups => f[i] \in GroupState}
<1>1. f[0] = [more |-> TRUE, value |-> {}, p |-> p]
      /\ \A i \in 1..MaxGroups : f[i] = GroupStep(f[i - 1], i, size)
  BY GroupPasses
<1> HIDE DEF f
<1>1a. [more |-> TRUE, value |-> {}, p |-> p] \in GroupState
  BY DEF GroupState
<1>2. 0 \in I
  <2>1. f[0] \in GroupState
    BY <1>1, <1>1a, Zenon
  <2> QED
    BY <2>1
<1>3. ASSUME NEW i \in Nat, i \in I PROVE i + 1 \in I
  <2> SUFFICES ASSUME i + 1 <= MaxGroups PROVE f[i + 1] \in GroupState
    OBVIOUS
  <2>1. i + 1 \in 1..MaxGroups /\ (i + 1) - 1 = i /\ f[i] \in GroupState
    BY <1>3 DEF MaxGroups
  <2>2. f[i + 1] = GroupStep(f[i], i + 1, size)
    BY <1>1, <2>1
  <2> QED
    BY <2>1, <2>2, GroupStepType
<1>4. Nat \subseteq I
  <2> HIDE DEF I
  <2> QED
    BY <1>2, <1>3, Induction
<1>5. f[MaxGroups] \in GroupState
  BY <1>4 DEF MaxGroups
<1>6. f[MaxGroups].p \in Parser
  BY <1>5 DEF GroupState
<1> QED
  BY <1>6 DEF ParseGroups, Grouped, f, Result, Error

\* parseInt() and parseAsn() find the bits of a number, and end after its bytes.
LEMMA GroupsParsed ==
  ASSUME NEW S \in Text, NEW k, NEW p, IsView(p, S, k), NEW size \in {32, 64},
         NEW bits \in SUBSET (0..(size - 1)), NEW n \in 0..9, ShiftRight(bits, 7 * n) \subseteq 0..6,
         IsAt(S, k, Groups(bits, n))
  PROVE  /\ ParseGroups(p, size).ok /\ ParseGroups(p, size).value = bits
         /\ IsView(ParseGroups(p, size).p, S, k + (n + 1))
<1> DEFINE f == GroupLoop(p, size)
           g == Groups(bits, n)
           Good(i) == /\ f[i].more = TRUE /\ f[i].value = bits \cap 0..(7 * i - 1)
                      /\ IsView(f[i].p, S, k + i)
           I == {i \in Nat : i <= n => Good(i)}
           J == {i \in Nat : n + 1 + i <= MaxGroups => f[n + 1 + i] = f[n + 1]}
<1>0. p \in Parser /\ size \in Int /\ n \in Nat
  BY DEF IsView
<1>1. f[0] = [more |-> TRUE, value |-> {}, p |-> p]
      /\ \A i \in 1..MaxGroups : f[i] = GroupStep(f[i - 1], i, size)
  BY <1>0, GroupPasses
<1>2. /\ g \in Text /\ Len(g) = n + 1
      /\ \A i \in 0..(n - 1) : g[i + 1] = {7} \cup (ShiftRight(bits, 7 * i) \cap 0..6)
      /\ g[n + 1] = ShiftRight(bits, 7 * n)
  BY <1>0, GroupsType
<1>3. k \in Nat /\ k + (n + 1) <= Len(S) /\ \A i \in 1..(n + 1) : S[k + i] = g[i]
  BY <1>2 DEF IsAt
<1>3a. Len(S) \in Nat
  BY LenProperties DEF Text
<1> HIDE DEF f, g
<1>4. ASSUME NEW i \in 0..n, Good(i)
      PROVE  /\ f[i + 1].more = (7 \in g[i + 1])
             /\ f[i + 1].value = f[i].value \cup ShiftLeft(g[i + 1] \cap 0..6, 7 * i, size)
             /\ IsView(f[i + 1].p, S, k + (i + 1))
  <2> DEFINE c == ParseByte(f[i].p)
  <2>1. i + 1 \in 1..MaxGroups /\ (i + 1) - 1 = i /\ i + 1 \in 1..(n + 1)
        /\ k + i < Len(S) /\ (k + i) + 1 = k + (i + 1)
    BY <1>3, <1>3a DEF MaxGroups
  <2>2. c.value = S[(k + i) + 1] /\ IsView(c.p, S, (k + i) + 1)
    <3>1. IsView(f[i].p, S, k + i)
      BY <1>4
    <3> QED
      BY <2>1, <3>1, ViewByte
  <2>3. c.value = g[i + 1] /\ IsView(c.p, S, k + (i + 1))
    BY <1>3, <2>1, <2>2
  <2>4. f[i + 1] = GroupStep(f[i], i + 1, size)
    BY <1>1, <2>1
  <2>5. f[i + 1] = [more |-> 7 \in c.value,
                    value |-> f[i].value \cup ShiftLeft(c.value \cap 0..6, 7 * i, size),
                    p |-> c.p]
    <3>1. f[i].more
      BY <1>4
    <3> QED
      BY <2>1, <2>4, <3>1 DEF GroupStep
  <2> HIDE DEF c, Good
  <2> DEFINE more == 7 \in c.value
             value == f[i].value \cup ShiftLeft(c.value \cap 0..6, 7 * i, size)
  <2>6. f[i + 1] = [more |-> more, value |-> value, p |-> c.p]
    BY <2>5
  <2> HIDE DEF more, value
  <2>7. f[i + 1].more = more /\ f[i + 1].value = value /\ f[i + 1].p = c.p
    BY <2>6
  <2>8. more = (7 \in g[i + 1])
        /\ value = f[i].value \cup ShiftLeft(g[i + 1] \cap 0..6, 7 * i, size)
    BY <2>3 DEF more, value
  <2> QED
    BY <2>3, <2>7, <2>8, Zenon
<1>5. 0 \in I
  <2>1. f[0].more = TRUE /\ f[0].value = {} /\ f[0].p = p
    BY <1>1
  <2>2. bits \cap 0..(7 * 0 - 1) = {} /\ k + 0 = k
    BY <1>3
  <2> QED
    BY <2>1, <2>2
<1>6a. ASSUME NEW i \in Nat, i + 1 <= n, Good(i) PROVE Good(i + 1)
  <2>1. Good(i) /\ i \in 0..n /\ i \in 0..(n - 1)
    BY <1>6a
  <2>2. g[i + 1] = {7} \cup (ShiftRight(bits, 7 * i) \cap 0..6)
    BY <1>2, <2>1
  <2>3. g[i + 1] \cap 0..6 = ShiftRight(bits, 7 * i) \cap 0..6 /\ 7 \in g[i + 1]
    BY <2>2
  <2>4. f[i + 1].value = f[i].value \cup (bits \cap (7 * i)..(7 * i + 6))
    <3>1. 7 * i \in Nat
      OBVIOUS
    <3>2. ShiftLeft(ShiftRight(bits, 7 * i) \cap 0..6, 7 * i, size) = bits \cap (7 * i)..(7 * i + 6)
      BY <3>1, ShiftBack
    <3>3. f[i + 1].value = f[i].value \cup ShiftLeft(g[i + 1] \cap 0..6, 7 * i, size)
      BY <1>4, <2>1
    <3> QED
      BY <2>3, <3>2, <3>3
  <2>5. f[i + 1].value = bits \cap 0..(7 * (i + 1) - 1)
    <3>1. f[i].value = bits \cap 0..(7 * i - 1)
      BY <2>1
    <3>2. \A b \in 0..(size - 1) :
            (b \in 0..(7 * i - 1) \/ b \in (7 * i)..(7 * i + 6)) <=> b \in 0..(7 * (i + 1) - 1)
      OBVIOUS
    <3> QED
      BY <2>4, <3>1, <3>2
  <2>6. f[i + 1].more = TRUE
    BY <1>4, <2>1, <2>3, Zenon
  <2>7. IsView(f[i + 1].p, S, k + (i + 1))
    BY <1>4, <2>1
  <2> QED
    BY <2>5, <2>6, <2>7
<1>6. ASSUME NEW i \in Nat, i \in I PROVE i + 1 \in I
  <2> HIDE DEF Good
  <2>1. i + 1 <= n => i <= n
    OBVIOUS
  <2>2. i + 1 <= n => Good(i + 1)
    BY <1>6, <1>6a, <2>1
  <2> QED
    BY <2>2
<1>7. Nat \subseteq I
  <2> HIDE DEF I
  <2> QED
    BY <1>5, <1>6, Induction
<1>8. f[n + 1].value = bits /\ ~ f[n + 1].more /\ IsView(f[n + 1].p, S, k + (n + 1))
  <2>1. Good(n) /\ n \in 0..n
    BY <1>0, <1>7
  <2>2. g[n + 1] \cap 0..6 = ShiftRight(bits, 7 * n) \cap 0..6 /\ 7 \notin g[n + 1]
    BY <1>2
  <2>3. 7 * n \in Nat
    BY <1>0
  <2>4. f[n + 1].value = f[n].value \cup (bits \cap (7 * n)..(7 * n + 6))
    <3>1. ShiftLeft(ShiftRight(bits, 7 * n) \cap 0..6, 7 * n, size) = bits \cap (7 * n)..(7 * n + 6)
      BY <2>3, ShiftBack
    <3>2. f[n + 1].value = f[n].value \cup ShiftLeft(g[n + 1] \cap 0..6, 7 * n, size)
      BY <1>4, <2>1
    <3> QED
      BY <2>2, <3>1, <3>2
  <2>5. \A b \in bits : b \in 0..(7 * n - 1) \/ b \in (7 * n)..(7 * n + 6)
    <3>1. ASSUME NEW b \in bits, b > 7 * n + 6 PROVE FALSE
      <4>1. b - 7 * n \in 0..63 /\ (b - 7 * n) + 7 * n = b /\ b - 7 * n \notin 0..6
        BY <2>3, <3>1
      <4>2. b - 7 * n \in ShiftRight(bits, 7 * n)
        BY <4>1 DEF ShiftRight
      <4> QED
        BY <4>1, <4>2
    <3> QED
      BY <2>3, <3>1
  <2>6. f[n].value = bits \cap 0..(7 * n - 1)
    BY <2>1
  <2>7. f[n + 1].value = bits
    BY <2>4, <2>5, <2>6
  <2> QED
    BY <1>4, <2>1, <2>2, <2>7
<1>9. 0 \in J
  BY <1>0
<1>10. ASSUME NEW i \in Nat, i \in J PROVE i + 1 \in J
  <2> SUFFICES ASSUME n + 1 + (i + 1) <= MaxGroups PROVE f[n + 1 + (i + 1)] = f[n + 1]
    OBVIOUS
  <2> DEFINE j == n + 1 + (i + 1)
  <2>1. j \in 1..MaxGroups /\ j - 1 = n + 1 + i /\ n + 1 + i <= MaxGroups
    BY <1>0 DEF MaxGroups
  <2>2. f[n + 1 + i] = f[n + 1]
    BY <1>10, <2>1
  <2> HIDE DEF j
  <2>3. f[j] = GroupStep(f[n + 1], j, size)
    BY <1>1, <2>1, <2>2
  <2>4. f[j] = f[n + 1]
    BY <1>8, <2>3 DEF GroupStep
  <2> QED
    BY <2>4 DEF j
<1>11. Nat \subseteq J
  <2> HIDE DEF J
  <2> QED
    BY <1>9, <1>10, Induction
<1>12. f[MaxGroups] = f[n + 1]
  <2>1. 9 - n \in Nat /\ n + 1 + (9 - n) = MaxGroups
    BY <1>0 DEF MaxGroups
  <2>2. 9 - n \in J
    BY <1>11, <2>1
  <2>3. f[n + 1 + (9 - n)] = f[n + 1]
    BY <2>1, <2>2
  <2> QED
    BY <2>1, <2>3
<1>13. ParseGroups(p, size) = Result(f[n + 1].value, f[n + 1].p)
  BY <1>8, <1>12 DEF ParseGroups, Grouped, f
<1> QED
  BY <1>8, <1>13 DEF Result

\* The least number of a set.
LEMMA FirstIs ==
  ASSUME NEW S, S \subseteq Nat, S # {}
  PROVE  First(S) \in S /\ \A m \in S : First(S) <= m
<1>1. \E n \in S : \A m \in S : n <= m
  BY HasLeast
<1> QED
  BY <1>1 DEF First

\* An integer of 64 bits has not more than 10 groups.
LEMMA LastGroup ==
  ASSUME NEW bits \in SUBSET (0..63)
  PROVE  ShiftRight(bits, 7 * 9) \subseteq 0..0
BY DEF ShiftRight

\* protoInt() makes groups of all bits.
LEMMA IntGroups ==
  ASSUME NEW bits \in SUBSET (0..(IntBits - 1))
  PROVE  \E n \in 0..9 : ProtoInt(bits) = Groups(bits, n) /\ ShiftRight(bits, 7 * n) \subseteq 0..6
<1> DEFINE N == {n \in 0..9 : ShiftRight(bits, 7 * n) \subseteq 0..6}
<1>1. 9 \in N
  <2>1. bits \in SUBSET (0..63)
    BY IntBitsAssumption
  <2>2. ShiftRight(bits, 7 * 9) \subseteq 0..0
    BY <2>1, LastGroup
  <2> QED
    BY <2>2
<1>2. First(N) \in N
  <2>1. N \subseteq 0..9 /\ 0..9 \subseteq Nat
    OBVIOUS
  <2> HIDE DEF N
  <2>2. N \subseteq Nat /\ N # {}
    BY <1>1, <2>1
  <2> QED
    BY <2>2, FirstIs
<1>3. ProtoInt(bits) = Groups(bits, First(N))
  BY DEF ProtoInt
<1> QED
  BY <1>2, <1>3

\* protoAsn() makes groups of all bits of 8 bytes.
LEMMA AsnGroups ==
  ASSUME NEW bits \in SUBSET (0..63)
  PROVE  \E n \in 0..9 : ProtoAsn(bits, 8) = Groups(bits, n) /\ ShiftRight(bits, 7 * n) \subseteq 0..6
<1> DEFINE N == {n \in 1..9 : AsnLength(ShiftRight(bits, 7 * n)) = 1}
           L(x) == {len \in 1..9 : x \subseteq 0..(8 * len - 2)}
<1>0. \A x : AsnLength(x) = First(L(x))
  BY DEF AsnLength
<1>1. ASSUME NEW x \in SUBSET (0..63) PROVE AsnLength(x) = 1 <=> x \subseteq 0..6
  <2>1. 9 \in L(x) /\ L(x) \subseteq Nat
    <3>1. 0..63 \subseteq 0..(8 * 9 - 2)
      OBVIOUS
    <3> QED
      BY <3>1
  <2>2. First(L(x)) \in L(x) /\ \A m \in L(x) : First(L(x)) <= m
    <3> HIDE DEF L
    <3> QED
      BY <2>1, FirstIs
  <2>3. 1 \in L(x) <=> x \subseteq 0..6
    <3>1. 8 * 1 - 2 = 6
      OBVIOUS
    <3> QED
      BY <3>1
  <2>4. 1 \in L(x) => First(L(x)) = 1
    BY <2>2
  <2> HIDE DEF L
  <2> QED
    BY <1>0, <2>2, <2>3, <2>4
<1>2. \A n \in Nat : ShiftRight(bits, n) \in SUBSET (0..63)
  BY DEF ShiftRight
<1> HIDE DEF L
<1>3. 9 \in N
  <2>1. ShiftRight(bits, 7 * 9) \subseteq 0..0
    BY LastGroup
  <2>2. ShiftRight(bits, 7 * 9) \subseteq 0..6 /\ ShiftRight(bits, 7 * 9) \in SUBSET (0..63)
    BY <2>1
  <2> QED
    BY <1>1, <2>2
<1>4. First(N) \in N
  <2>1. N \subseteq Nat /\ N # {}
    BY <1>3
  <2> HIDE DEF N
  <2> QED
    BY <2>1, FirstIs
<1>5. ProtoAsn(bits, 8) = Groups(bits, First(N))
  BY DEF ProtoAsn
<1>6. ASSUME NEW n \in N PROVE n \in 0..9 /\ ShiftRight(bits, 7 * n) \subseteq 0..6
  <2>1. 7 * n \in Nat /\ n \in 0..9
    OBVIOUS
  <2>2. ShiftRight(bits, 7 * n) \in SUBSET (0..63)
    BY <1>2, <2>1
  <2> QED
    BY <1>1, <2>1, <2>2
<1> HIDE DEF N
<1> QED
  BY <1>4, <1>5, <1>6

\* An integer that is found at a place is parsed there.
LEMMA IntParsed ==
  ASSUME NEW S \in Text, NEW k, NEW p, IsView(p, S, k),
         NEW bits \in SUBSET (0..(IntBits - 1)), IsAt(S, k, ProtoInt(bits))
  PROVE  /\ ParseInt(p).ok /\ ParseInt(p).value = bits
         /\ IsView(ParseInt(p).p, S, k + Len(ProtoInt(bits)))
<1>1. PICK n \in 0..9 : ProtoInt(bits) = Groups(bits, n) /\ ShiftRight(bits, 7 * n) \subseteq 0..6
  BY IntGroups
<1>2. Len(ProtoInt(bits)) = n + 1
  BY <1>1, GroupsType
<1>3. IsAt(S, k, Groups(bits, n))
  BY <1>1
<1>4. /\ ParseGroups(p, IntBits).ok /\ ParseGroups(p, IntBits).value = bits
      /\ IsView(ParseGroups(p, IntBits).p, S, k + (n + 1))
  BY <1>1, <1>3, GroupsParsed, IntBitsAssumption
<1> QED
  BY <1>2, <1>4 DEF ParseInt

\* The same of an ASN of 8 bytes.
LEMMA AsnParsed ==
  ASSUME NEW S \in Text, NEW k, NEW p, IsView(p, S, k),
         NEW bits \in SUBSET (0..63), IsAt(S, k, ProtoAsn(bits, 8))
  PROVE  /\ ParseAsn(p).ok /\ ParseAsn(p).value = bits
         /\ IsView(ParseAsn(p).p, S, k + Len(ProtoAsn(bits, 8)))
<1>1. PICK n \in 0..9 : ProtoAsn(bits, 8) = Groups(bits, n) /\ ShiftRight(bits, 7 * n) \subseteq 0..6
  BY AsnGroups
<1>2. Len(ProtoAsn(bits, 8)) = n + 1
  BY <1>1, GroupsType
<1>3. IsAt(S, k, Groups(bits, n))
  BY <1>1
<1>4. bits \in SUBSET (0..(64 - 1)) /\ 64 \in {32, 64}
  BY DEF ShiftRight
<1>5. /\ ParseGroups(p, 64).ok /\ ParseGroups(p, 64).value = bits
      /\ IsView(ParseGroups(p, 64).p, S, k + (n + 1))
  BY <1>1, <1>3, <1>4, GroupsParsed
<1> QED
  BY <1>2, <1>5 DEF ParseAsn

(***************************************************************************)
(* Protocol buffers: strings                                               *)
(***************************************************************************)

\* A string of bytes, its length and its bytes.
LEMMA TextParts ==
  ASSUME NEW s \in Text
  PROVE  Len(s) \in Nat /\ s \in Seq(Byte) /\ \A i \in 1..Len(s) : s[i] \in Byte
BY LenProperties, ElementOfSeq DEF Text

\* One string after another.
LEMMA TextJoin ==
  ASSUME NEW s \in Text, NEW t \in Text
  PROVE  /\ s \o t \in Text /\ Len(s \o t) = Len(s) + Len(t)
         /\ \A i \in 1..Len(s) : (s \o t)[i] = s[i]
         /\ \A i \in 1..Len(t) : (s \o t)[Len(s) + i] = t[i]
<1>1. Len(s) \in Nat /\ Len(t) \in Nat
  BY TextParts
<1>2. /\ s \o t \in Seq(Byte) /\ Len(s \o t) = Len(s) + Len(t)
      /\ \A i \in 1..(Len(s) + Len(t)) : (s \o t)[i] = IF i <= Len(s) THEN s[i] ELSE t[i - Len(s)]
  BY ConcatProperties DEF Text
<1>3. ASSUME NEW i \in 1..Len(s) PROVE (s \o t)[i] = s[i]
  <2>1. i \in 1..(Len(s) + Len(t)) /\ i <= Len(s)
    BY <1>1
  <2> QED
    BY <1>2, <2>1
<1>4. ASSUME NEW i \in 1..Len(t) PROVE (s \o t)[Len(s) + i] = t[i]
  <2>1. Len(s) + i \in 1..(Len(s) + Len(t)) /\ ~ (Len(s) + i <= Len(s)) /\ (Len(s) + i) - Len(s) = i
    BY <1>1
  <2> QED
    BY <1>2, <2>1
<1> QED
  BY <1>2, <1>3, <1>4 DEF Text

\* A string that is found at a place, and its two parts.
LEMMA AtJoin ==
  ASSUME NEW S \in Text, NEW k, NEW s \in Text, NEW t \in Text, IsAt(S, k, s \o t)
  PROVE  IsAt(S, k, s) /\ IsAt(S, k + Len(s), t)
<1>1. Len(s) \in Nat /\ Len(t) \in Nat /\ Len(S) \in Nat
  BY TextParts
<1>2. /\ s \o t \in Text /\ Len(s \o t) = Len(s) + Len(t)
      /\ \A i \in 1..Len(s) : (s \o t)[i] = s[i]
      /\ \A i \in 1..Len(t) : (s \o t)[Len(s) + i] = t[i]
  BY TextJoin
<1>3. k \in Nat /\ k + (Len(s) + Len(t)) <= Len(S)
      /\ \A i \in 1..(Len(s) + Len(t)) : S[k + i] = (s \o t)[i]
  BY <1>2 DEF IsAt
<1>4. ASSUME NEW i \in 1..Len(s) PROVE S[k + i] = s[i]
  <2>1. i \in 1..(Len(s) + Len(t))
    BY <1>1
  <2> QED
    BY <1>2, <1>3, <2>1
<1>5. ASSUME NEW i \in 1..Len(t) PROVE S[(k + Len(s)) + i] = t[i]
  <2>1. Len(s) + i \in 1..(Len(s) + Len(t)) /\ k + (Len(s) + i) = (k + Len(s)) + i
    BY <1>1, <1>3
  <2>2. S[k + (Len(s) + i)] = (s \o t)[Len(s) + i]
    BY <1>3, <2>1
  <2> QED
    BY <1>2, <2>1, <2>2
<1>6. k + Len(s) \in Nat /\ k + Len(s) <= Len(S) /\ (k + Len(s)) + Len(t) <= Len(S)
  BY <1>1, <1>2, <1>3
<1> QED
  BY <1>3, <1>4, <1>5, <1>6 DEF IsAt

\* A place after two strings one after the other.
LEMMA JoinLength ==
  ASSUME NEW s \in Text, NEW t \in Text, NEW k \in Nat
  PROVE  (k + Len(s)) + Len(t) = k + Len(s \o t) /\ k + Len(s) \in Nat
<1>1. Len(s) \in Nat /\ Len(t) \in Nat /\ Len(s \o t) = Len(s) + Len(t)
  BY TextParts, TextJoin
<1> QED
  BY <1>1

\* A string is found at the beginning of itself.
LEMMA AtStart ==
  ASSUME NEW S \in Text
  PROVE  IsAt(S, 0, S)
<1>1. Len(S) \in Nat
  BY TextParts
<1>2. \A i \in 1..Len(S) : 0 + i = i
  BY <1>1
<1> QED
  BY <1>1, <1>2 DEF IsAt

\* One byte.
LEMMA OneByte ==
  ASSUME NEW c \in Byte
  PROVE  <<c>> \in Text /\ Len(<<c>>) = 1 /\ <<c>>[1] = c
BY DEF Text

\* A byte that is found at a place is parsed there.
LEMMA ByteParsed ==
  ASSUME NEW S \in Text, NEW k, NEW p, IsView(p, S, k), NEW c \in Byte, IsAt(S, k, <<c>>)
  PROVE  ParseByte(p).value = c /\ IsView(ParseByte(p).p, S, k + 1)
<1>1. <<c>> \in Text /\ Len(<<c>>) = 1 /\ <<c>>[1] = c
  BY OneByte
<1> DEFINE t == <<c>>
<1> HIDE DEF t
<1>2. k \in Nat /\ k + 1 <= Len(S) /\ Len(S) \in Nat /\ S[k + 1] = c
  <2>1. IsAt(S, k, t) /\ Len(t) = 1 /\ t[1] = c
    BY <1>1 DEF t
  <2>2. 1 \in 1..1
    OBVIOUS
  <2> QED
    BY <2>1, <2>2, TextParts DEF IsAt
<1>3. k < Len(S)
  BY <1>2
<1> QED
  BY <1>2, <1>3, ViewByte

\* Pieces of a string, up to its m-th byte; only the first can be empty.
IsPiecesTo(pieces, t, m, b) ==
  /\ b \in [0..Len(pieces) -> Nat] /\ b[0] = 0 /\ b[Len(pieces)] = m
  /\ \A i \in 1..Len(pieces) :
       /\ b[i - 1] <= b[i] /\ (i # 1 => b[i - 1] < b[i])
       /\ Len(pieces[i]) = b[i] - b[i - 1]
       /\ \A j \in 1..Len(pieces[i]) : pieces[i][j] = t[b[i - 1] + j]

\* They are pieces of the first m bytes of t.
IsPieces(pieces, t, m) ==
  pieces \in Seq(Text) /\ m \in 0..Len(t) /\ \E b : IsPiecesTo(pieces, t, m, b)

\* No pieces yet.
LEMMA PiecesBegin ==
  ASSUME NEW t \in Text
  PROVE  IsPieces(<<>>, t, 0)
<1> DEFINE b == [i \in 0..0 |-> 0]
           none == <<>>
<1>1. none \in Seq(Text) /\ Len(none) = 0 /\ Len(t) \in Nat
  BY EmptySeq, TextParts
<1>2. b \in [0..0 -> Nat] /\ b[0] = 0
  OBVIOUS
<1> HIDE DEF b, none
<1>3. IsPiecesTo(none, t, 0, b)
  BY <1>1, <1>2 DEF IsPiecesTo
<1>4. 0 \in 0..Len(t)
  BY <1>1
<1>5. IsPieces(none, t, 0)
  BY <1>1, <1>3, <1>4 DEF IsPieces
<1> QED
  BY <1>5 DEF none

\* One more piece.
LEMMA PiecesAppend ==
  ASSUME NEW t \in Text, NEW pieces, NEW m, IsPieces(pieces, t, m), NEW q \in Text,
         m + Len(q) <= Len(t), \A j \in 1..Len(q) : q[j] = t[m + j],
         pieces # <<>> => Len(q) > 0
  PROVE  IsPieces(Append(pieces, q), t, m + Len(q)) /\ Append(pieces, q) # <<>>
<1> DEFINE n == Len(pieces)
           more == Append(pieces, q)
<1>1. PICK b : IsPiecesTo(pieces, t, m, b)
  BY DEF IsPieces
<1>2. pieces \in Seq(Text) /\ m \in 0..Len(t) /\ Len(t) \in Nat /\ Len(q) \in Nat /\ n \in Nat
  BY TextParts, LenProperties DEF IsPieces
<1>3. more \in Seq(Text) /\ Len(more) = n + 1 /\ (\A i \in 1..n : more[i] = pieces[i])
      /\ more[n + 1] = q /\ more # <<>>
  BY <1>2, AppendProperties
<1>4. n # 0 => Len(q) > 0
  BY <1>2
<1>5. b \in [0..n -> Nat] /\ b[0] = 0 /\ b[n] = m
  BY <1>1 DEF IsPiecesTo
<1>6. \A i \in 1..n :
        /\ b[i - 1] <= b[i] /\ (i # 1 => b[i - 1] < b[i])
        /\ Len(pieces[i]) = b[i] - b[i - 1]
        /\ \A j \in 1..Len(pieces[i]) : pieces[i][j] = t[b[i - 1] + j]
  BY <1>1 DEF IsPiecesTo
<1> HIDE DEF n, more
<1> DEFINE c == [i \in 0..(n + 1) |-> IF i <= n THEN b[i] ELSE m + Len(q)]
<1>7. c \in [0..(n + 1) -> Nat]
  <2>1. \A i \in 0..(n + 1) : i <= n => i \in 0..n
    BY <1>2
  <2>2. m + Len(q) \in Nat
    BY <1>2
  <2> QED
    BY <1>5, <2>1, <2>2
<1>8. (\A i \in 0..n : c[i] = b[i]) /\ c[n + 1] = m + Len(q)
  BY <1>2
<1> HIDE DEF c
<1>9. ASSUME NEW i \in 1..(n + 1)
      PROVE  /\ c[i - 1] <= c[i] /\ (i # 1 => c[i - 1] < c[i])
             /\ Len(more[i]) = c[i] - c[i - 1]
             /\ \A j \in 1..Len(more[i]) : more[i][j] = t[c[i - 1] + j]
  <2>1. CASE i = n + 1
    <3>1. i - 1 = n /\ n \in 0..n
      BY <1>2, <2>1
    <3>2. c[i - 1] = m /\ c[i] = m + Len(q) /\ more[i] = q
      BY <1>3, <1>5, <1>8, <2>1, <3>1
    <3>3. i # 1 => Len(q) > 0
      BY <1>2, <1>4, <2>1
    <3>4. m <= m + Len(q) /\ (i # 1 => m < m + Len(q)) /\ Len(q) = (m + Len(q)) - m
      BY <1>2, <3>3
    <3> QED
      BY <3>2, <3>4
  <2>2. CASE i # n + 1
    <3>1. i \in 1..n /\ i - 1 \in 0..n /\ i \in 0..n
      BY <1>2, <2>2
    <3>2. c[i - 1] = b[i - 1] /\ c[i] = b[i] /\ more[i] = pieces[i]
      BY <1>3, <1>8, <3>1
    <3> QED
      BY <1>6, <3>1, <3>2
  <2> QED
    BY <2>1, <2>2
<1>10. 0 \in 0..n
  BY <1>2
<1>11. IsPiecesTo(more, t, m + Len(q), c)
  BY <1>3, <1>5, <1>7, <1>8, <1>9, <1>10 DEF IsPiecesTo
<1>12. m + Len(q) \in 0..Len(t)
  BY <1>2
<1>13. IsPieces(more, t, m + Len(q))
  BY <1>3, <1>11, <1>12 DEF IsPieces
<1> QED
  BY <1>3, <1>13 DEF more

\* Strings one after the other.
LEMMA PrefixLoop ==
  ASSUME NEW pieces \in Seq(Text)
  PROVE  /\ Prefix(pieces)[0] = <<>>
         /\ \A i \in 1..Len(pieces) : Prefix(pieces)[i] = Prefix(pieces)[i - 1] \o pieces[i]
<1> DEFINE S == Text
           a == <<>>
           n == Len(pieces)
           Body(v, i) == v \o pieces[i]
           G(f) == [i \in 0..Len(pieces) |-> IF i = 0 THEN <<>> ELSE f[i - 1] \o pieces[i]]
           h == CHOOSE f : f = G(f)
           step == [x \in S \X Nat |-> IF x[2] \in 1..Len(pieces) THEN Body(x[1], x[2]) ELSE a]
<1>0. Prefix(pieces) = h
  BY DEF Prefix
<1>1. n \in Nat
  BY LenProperties
<1>2. a \in S
  BY EmptySeq DEF Text
<1>3. ASSUME NEW v \in S, NEW i \in 1..Len(pieces) PROVE Body(v, i) \in S
  BY ElementOfSeq, TextJoin
<1>b. \A f : G(f) = [i \in 0..Len(pieces) |-> IF i = 0 THEN a ELSE Body(f[i - 1], i)]
  OBVIOUS
<1> HIDE DEF S, a, n, Body, G
<1>2a. step \in [S \X Nat -> S]
  <2>1. \A x \in S \X Nat : (IF x[2] \in 1..Len(pieces) THEN Body(x[1], x[2]) ELSE a) \in S
    BY <1>2, <1>3
  <2> QED
    BY <2>1
<1>3a. \A v \in S, i \in 1..Len(pieces) : step[<<v, i>>] = Body(v, i)
  BY <1>1
<1> HIDE DEF step
<1>4. PICK f \in [0..n -> S] : IsRecursion(f, a, step, 0..n)
  BY <1>1, <1>2, <1>2a, RecursionExists
<1>5. f = G(f)
  <2>1. ASSUME NEW i \in 1..Len(pieces) PROVE f[i] = Body(f[i - 1], i)
    <3>1. i \in (0..n) \ {0} /\ i - 1 \in 0..n /\ f[i - 1] \in S
      BY <1>1 DEF n
    <3>2. f[i] = step[<<f[i - 1], i>>]
      BY <1>4, <3>1 DEF IsRecursion
    <3> QED
      BY <1>3a, <3>1, <3>2
  <2>2. f[0] = a
    BY <1>4 DEF IsRecursion
  <2> DEFINE g == [i \in 0..Len(pieces) |-> IF i = 0 THEN a ELSE Body(f[i - 1], i)]
  <2>3. f = g
    BY <1>1, <2>1, <2>2 DEF n
  <2> HIDE DEF g
  <2>4. g = G(f)
    BY <1>b DEF g
  <2> QED
    BY <2>3, <2>4
<1>6. h = G(h)
  BY <1>5
<1> HIDE DEF h
<1>7. G(h)[0] = a /\ \A i \in 1..Len(pieces) : G(h)[i] = Body(h[i - 1], i)
  BY <1>1, <1>b DEF n
<1>8. h[0] = a /\ \A i \in 1..Len(pieces) : h[i] = Body(h[i - 1], i)
  BY <1>6, <1>7
<1> QED
  BY <1>0, <1>8 DEF a, Body

\* Strings one after the other are a string.
LEMMA JoinedType ==
  ASSUME NEW pieces \in Seq(Text)
  PROVE  Joined(pieces) \in Text
<1> DEFINE f == Prefix(pieces)
           n == Len(pieces)
           I == {i \in Nat : i <= n => f[i] \in Text}
<1>1. f[0] = <<>> /\ \A i \in 1..n : f[i] = f[i - 1] \o pieces[i]
  BY PrefixLoop
<1>2. n \in Nat
  BY LenProperties
<1> HIDE DEF f, n
<1>3. 0 \in I
  BY <1>1, EmptySeq DEF Text
<1>4. ASSUME NEW i \in Nat, i \in I PROVE i + 1 \in I
  <2> SUFFICES ASSUME i + 1 <= n PROVE f[i + 1] \in Text
    OBVIOUS
  <2>1. i + 1 \in 1..n /\ (i + 1) - 1 = i /\ f[i] \in Text
    BY <1>2, <1>4
  <2>2. pieces[i + 1] \in Text
    BY <2>1, ElementOfSeq DEF n
  <2>3. f[i + 1] = f[i] \o pieces[i + 1]
    BY <1>1, <2>1
  <2> QED
    BY <2>1, <2>2, <2>3, TextJoin
<1>5. Nat \subseteq I
  <2> HIDE DEF I
  <2> QED
    BY <1>3, <1>4, Induction
<1>6. f[n] \in Text
  BY <1>2, <1>5
<1> QED
  BY <1>6 DEF Joined, f, n

\* All pieces of a string, one after the other, are the string.
LEMMA PiecesJoined ==
  ASSUME NEW t \in Text, NEW pieces, IsPieces(pieces, t, Len(t))
  PROVE  Joined(pieces) = t
<1> DEFINE f == Prefix(pieces)
           n == Len(pieces)
<1>0. pieces \in Seq(Text) /\ Len(t) \in Nat
  BY TextParts DEF IsPieces
<1>1. f[0] = <<>> /\ \A i \in 1..n : f[i] = f[i - 1] \o pieces[i]
  BY <1>0, PrefixLoop
<1>2. n \in Nat
  BY <1>0, LenProperties
<1>3. PICK b : IsPiecesTo(pieces, t, Len(t), b)
  BY DEF IsPieces
<1>4. b \in [0..n -> Nat] /\ b[0] = 0 /\ b[n] = Len(t)
  BY <1>3 DEF IsPiecesTo
<1>5. \A i \in 1..n : /\ Len(pieces[i]) = b[i] - b[i - 1]
                      /\ \A j \in 1..Len(pieces[i]) : pieces[i][j] = t[b[i - 1] + j]
  BY <1>3 DEF IsPiecesTo
<1>5a. \A i \in 1..n : pieces[i] \in Text
  BY <1>0, ElementOfSeq
<1> HIDE DEF f, n
<1> DEFINE Good(i) == /\ f[i] \in Text /\ Len(f[i]) = b[i]
                      /\ \A j \in 1..b[i] : f[i][j] = t[j]
           I == {i \in Nat : i <= n => Good(i)}
<1>6. 0 \in I
  <2>1. f[0] \in Text /\ Len(f[0]) = 0
    BY <1>1, EmptySeq DEF Text
  <2> QED
    BY <1>4, <2>1
<1>7a. ASSUME NEW i \in Nat, i + 1 <= n, Good(i) PROVE Good(i + 1)
  <2>1. i + 1 \in 1..n /\ (i + 1) - 1 = i /\ i \in 0..n /\ i + 1 \in 0..n
    BY <1>2, <1>7a
  <2>2. f[i] \in Text /\ Len(f[i]) = b[i] /\ (\A j \in 1..b[i] : f[i][j] = t[j])
        /\ pieces[i + 1] \in Text /\ b[i] \in Nat /\ b[i + 1] \in Nat
    BY <1>4, <1>5a, <1>7a, <2>1
  <2>3. f[i + 1] = f[i] \o pieces[i + 1]
    BY <1>1, <2>1
  <2>4. Len(pieces[i + 1]) = b[i + 1] - b[i] /\ Len(pieces[i + 1]) \in Nat
        /\ \A j \in 1..Len(pieces[i + 1]) : pieces[i + 1][j] = t[b[i] + j]
    BY <1>5, <2>1, <2>2, TextParts
  <2>5. /\ f[i + 1] \in Text /\ Len(f[i + 1]) = b[i] + Len(pieces[i + 1])
        /\ \A j \in 1..b[i] : f[i + 1][j] = f[i][j]
        /\ \A j \in 1..Len(pieces[i + 1]) : f[i + 1][b[i] + j] = pieces[i + 1][j]
    <3> DEFINE u == f[i]
               v == pieces[i + 1]
    <3>1. u \in Text /\ v \in Text /\ Len(u) = b[i] /\ f[i + 1] = u \o v
      BY <2>2, <2>3
    <3> HIDE DEF u, v
    <3>2. /\ u \o v \in Text /\ Len(u \o v) = Len(u) + Len(v)
          /\ \A j \in 1..Len(u) : (u \o v)[j] = u[j]
          /\ \A j \in 1..Len(v) : (u \o v)[Len(u) + j] = v[j]
      BY <3>1, TextJoin
    <3>3. /\ f[i + 1] \in Text /\ Len(f[i + 1]) = b[i] + Len(v)
          /\ \A j \in 1..b[i] : f[i + 1][j] = u[j]
          /\ \A j \in 1..Len(v) : f[i + 1][b[i] + j] = v[j]
      BY <3>1, <3>2
    <3> QED
      BY <3>3 DEF u, v
  <2>6. ASSUME NEW j \in 1..b[i + 1] PROVE f[i + 1][j] = t[j]
    <3>1. CASE j <= b[i]
      <4>1. j \in 1..b[i]
        BY <2>2, <3>1
      <4> QED
        BY <2>2, <2>5, <4>1
    <3>2. CASE ~ (j <= b[i])
      <4>1. j - b[i] \in 1..Len(pieces[i + 1]) /\ b[i] + (j - b[i]) = j
        BY <2>2, <2>4, <3>2
      <4>2. f[i + 1][b[i] + (j - b[i])] = t[b[i] + (j - b[i])]
        BY <2>4, <2>5, <4>1
      <4> QED
        BY <4>1, <4>2
    <3> QED
      BY <3>1, <3>2
  <2>7. Len(f[i + 1]) = b[i + 1]
    BY <2>2, <2>4, <2>5
  <2> QED
    BY <2>5, <2>6, <2>7
<1>7. ASSUME NEW i \in Nat, i \in I PROVE i + 1 \in I
  <2> HIDE DEF Good
  <2>1. i + 1 <= n => i <= n
    BY <1>2
  <2>2. i + 1 <= n => Good(i + 1)
    BY <1>7, <1>7a, <2>1
  <2> QED
    BY <2>2
<1>8. Nat \subseteq I
  <2> HIDE DEF I
  <2> QED
    BY <1>6, <1>7, Induction
<1>9. Good(n)
  <2> HIDE DEF Good
  <2> QED
    BY <1>2, <1>8
<1>10. f[n] \in Seq(Byte) /\ t \in Seq(Byte) /\ Len(f[n]) = Len(t)
       /\ \A j \in 1..Len(f[n]) : f[n][j] = t[j]
  BY <1>4, <1>9 DEF Text
<1>11. f[n] = t
  BY <1>10, SeqEqual
<1> QED
  BY <1>11 DEF Joined, f, n

\* A parser of the pieces of a string, without an empty one, is at its beginning.
LEMMA PiecesView ==
  ASSUME NEW t \in Text, NEW pieces, IsPieces(pieces, t, Len(t)),
         \A i \in 1..Len(pieces) : pieces[i] # <<>>
  PROVE  IsView(Start(pieces), t, 0)
<1>0. pieces \in Seq(Text) /\ Len(t) \in Nat
  BY TextParts DEF IsPieces
<1>1. PICK b : IsPiecesTo(pieces, t, Len(t), b)
  BY DEF IsPieces
<1> DEFINE n == Len(pieces)
           none == <<>>
           p == [rest |-> pieces, buf |-> none, offset |-> 0]
<1>2. n \in Nat /\ none \in Text /\ Len(none) = 0
  BY <1>0, LenProperties, EmptySeq DEF Text
<1>3. b \in [0..n -> Nat] /\ b[0] = 0 /\ b[n] = Len(t)
  BY <1>1 DEF IsPiecesTo
<1>4. ASSUME NEW i \in 1..n
      PROVE  /\ b[i - 1] < b[i] /\ Len(pieces[i]) = b[i] - b[i - 1]
             /\ \A j \in 1..Len(pieces[i]) : pieces[i][j] = t[b[i - 1] + j]
  <2>1. /\ b[i - 1] <= b[i] /\ Len(pieces[i]) = b[i] - b[i - 1]
        /\ \A j \in 1..Len(pieces[i]) : pieces[i][j] = t[b[i - 1] + j]
    BY <1>1 DEF IsPiecesTo
  <2>2. pieces[i] \in Seq(Byte) /\ pieces[i] # <<>>
    BY <1>0, ElementOfSeq DEF Text
  <2>3. Len(pieces[i]) \in Nat \ {0}
    BY <2>2, EmptySeq
  <2>4. b[i] \in Nat /\ b[i - 1] \in Nat
    <3>1. i \in 0..n /\ i - 1 \in 0..n
      BY <1>2
    <3> QED
      BY <1>3, <3>1
  <2> QED
    BY <2>1, <2>3, <2>4
<1> HIDE DEF n
<1>5. \A i \in 0..n : b[i] <= Len(t)
  <2> DEFINE I == {d \in Nat : d <= n => b[n - d] <= Len(t)}
  <2>1. 0 \in I
    BY <1>0, <1>2, <1>3
  <2>2. ASSUME NEW d \in Nat, d \in I PROVE d + 1 \in I
    <3> SUFFICES ASSUME d + 1 <= n PROVE b[n - (d + 1)] <= Len(t)
      OBVIOUS
    <3>1. n - d \in 1..n /\ (n - d) - 1 = n - (d + 1) /\ n - d \in 0..n /\ n - (d + 1) \in 0..n
          /\ b[n - d] <= Len(t)
      BY <1>2, <2>2
    <3>2. b[(n - d) - 1] < b[n - d] /\ b[n - d] \in Nat /\ b[n - (d + 1)] \in Nat
      BY <1>3, <1>4, <3>1
    <3> QED
      BY <1>0, <3>1, <3>2
  <2>3. Nat \subseteq I
    <3> HIDE DEF I
    <3> QED
      BY <2>1, <2>2, Induction
  <2>4. ASSUME NEW i \in 0..n PROVE b[i] <= Len(t)
    <3>1. n - i \in Nat /\ n - i <= n /\ n - (n - i) = i
      BY <1>2
    <3>2. b[n - (n - i)] <= Len(t)
      BY <2>3, <3>1
    <3> QED
      BY <3>1, <3>2
  <2> QED
    BY <2>4
<1>6. b \in [0..n -> 0..Len(t)]
  <2>1. \A i \in 0..n : b[i] \in 0..Len(t)
    BY <1>0, <1>3, <1>5
  <2> QED
    BY <1>3, <2>1
<1> HIDE DEF none
<1>7. IsCover(pieces, t, b)
  BY <1>3, <1>4, <1>6 DEF IsCover, n
<1>8. p \in Parser
  BY <1>0, <1>2, ParserMade
<1>9. p.rest = pieces /\ p.buf = none /\ p.offset = 0
  OBVIOUS
<1> HIDE DEF p
<1>10. IsViewOf(p, t, 0, b)
  <2>1. Len(p.buf) = 0 /\ 0 <= b[0] /\ 0 = b[0] - 0 + p.offset
    BY <1>2, <1>3, <1>9
  <2>2. IsCover(p.rest, t, b)
    BY <1>7, <1>9
  <2>3. Len(p.buf) <= b[0] /\ 0 = b[0] - Len(p.buf) + p.offset
    BY <2>1
  <2>4. \A j \in 1..Len(p.buf) : p.buf[j] = t[b[0] - Len(p.buf) + j]
    BY <2>1
  <2> QED
    BY <2>2, <2>3, <2>4 DEF IsViewOf
<1>11. IsView(p, t, 0)
  BY <1>8, <1>10 DEF IsView
<1>12. p = Start(pieces)
  BY DEF p, none, Start
<1> QED
  BY <1>11, <1>12

\* A parser takes bytes from its string.
LEMMA TakeType ==
  ASSUME NEW p \in Parser, NEW n \in Nat, n <= Left(p)
  PROVE  Take(p, n) \in Text
<1>1. /\ p.offset \in Nat /\ Len(p.buf) \in Nat /\ p.buf \in Seq(Byte)
      /\ Left(p) = Len(p.buf) - p.offset
  BY ParserParts DEF Text
<1>2. p.offset + 1 \in Int /\ p.offset + n \in Int
      /\ \A i \in (p.offset + 1)..(p.offset + n) : i \in 1..Len(p.buf)
  BY <1>1
<1>3. \A i \in (p.offset + 1)..(p.offset + n) : p.buf[i] \in Byte
  BY <1>1, <1>2, ElementOfSeq
<1> QED
  BY <1>2, <1>3, SubSeqProperties DEF Take, Text

\* What the loops of parseBytes() and parseStrbuf() keep.
PieceState == [pieces : Seq(Text), len : Nat, p : Parser]

\* One pass through them, when it does something.
LEMMA PieceGoes ==
  ASSUME NEW s \in PieceState, ~ (s.len <= Left(s.p)), s.p.rest # <<>>
  PROVE  /\ PieceStep(s) \in PieceState
         /\ PieceStep(s).pieces = Append(s.pieces, Take(s.p, Left(s.p)))
         /\ PieceStep(s).len = s.len - Left(s.p)
         /\ PieceStep(s).p = NextString(s.p)
<1>1. s.pieces \in Seq(Text) /\ s.len \in Nat /\ s.p \in Parser
  BY DEF PieceState
<1>2. Left(s.p) \in Nat
  BY <1>1, ParserParts
<1> DEFINE pieces == Append(s.pieces, Take(s.p, Left(s.p)))
           len == s.len - Left(s.p)
           p == NextString(s.p)
<1>3. pieces \in Seq(Text)
  <2>1. Take(s.p, Left(s.p)) \in Text
    BY <1>1, <1>2, TakeType
  <2> QED
    BY <1>1, <2>1, AppendProperties
<1>4. len \in Nat
  BY <1>1, <1>2
<1>5. p \in Parser
  BY <1>1, NextParser
<1>6. PieceStep(s) = [pieces |-> pieces, len |-> len, p |-> p]
  BY DEF PieceStep
<1> HIDE DEF pieces, len, p
<1>7. [pieces |-> pieces, len |-> len, p |-> p] \in PieceState
  BY <1>3, <1>4, <1>5 DEF PieceState
<1>8. /\ PieceStep(s) \in PieceState /\ PieceStep(s).pieces = pieces
      /\ PieceStep(s).len = len /\ PieceStep(s).p = p
  BY <1>6, <1>7
<1> QED
  BY <1>8 DEF pieces, len, p

\* One pass keeps its type.
LEMMA PieceStepType ==
  ASSUME NEW s \in PieceState
  PROVE  PieceStep(s) \in PieceState
<1>1. CASE s.len <= Left(s.p) \/ s.p.rest = <<>>
  BY <1>1 DEF PieceStep
<1>2. CASE ~ (s.len <= Left(s.p)) /\ s.p.rest # <<>>
  BY <1>2, PieceGoes
<1> QED
  BY <1>1, <1>2

\* The passes through the loops of parseBytes() and parseStrbuf().
LEMMA PiecePasses ==
  ASSUME NEW p \in Parser, NEW len \in Nat
  PROVE  /\ PieceLoop(p, len)[0] = [pieces |-> <<>>, len |-> len, p |-> p]
         /\ \A i \in 1..Len(p.rest) : PieceLoop(p, len)[i] = PieceStep(PieceLoop(p, len)[i - 1])
<1> DEFINE S == PieceState
           a == [pieces |-> <<>>, len |-> len, p |-> p]
           n == Len(p.rest)
           Body(v, i) == PieceStep(v)
           G(f) == [i \in 0..Len(p.rest) |-> IF i = 0 THEN [pieces |-> <<>>, len |-> len, p |-> p] ELSE PieceStep(f[i - 1])]
           h == CHOOSE f : f = G(f)
           step == [x \in S \X Nat |-> IF x[2] \in 1..Len(p.rest) THEN Body(x[1], x[2]) ELSE a]
<1>0. PieceLoop(p, len) = h
  BY DEF PieceLoop
<1>1. n \in Nat
  BY ParserParts
<1>2. a \in S
  BY EmptySeq DEF PieceState
<1>3. ASSUME NEW v \in S, NEW i \in 1..Len(p.rest) PROVE Body(v, i) \in S
  BY PieceStepType
<1>b. \A f : G(f) = [i \in 0..Len(p.rest) |-> IF i = 0 THEN a ELSE Body(f[i - 1], i)]
  OBVIOUS
<1> HIDE DEF S, a, n, Body, G
<1>2a. step \in [S \X Nat -> S]
  <2>1. \A x \in S \X Nat : (IF x[2] \in 1..Len(p.rest) THEN Body(x[1], x[2]) ELSE a) \in S
    BY <1>2, <1>3
  <2> QED
    BY <2>1
<1>3a. \A v \in S, i \in 1..Len(p.rest) : step[<<v, i>>] = Body(v, i)
  BY <1>1
<1> HIDE DEF step
<1>4. PICK f \in [0..n -> S] : IsRecursion(f, a, step, 0..n)
  BY <1>1, <1>2, <1>2a, RecursionExists
<1>5. f = G(f)
  <2>1. ASSUME NEW i \in 1..Len(p.rest) PROVE f[i] = Body(f[i - 1], i)
    <3>1. i \in (0..n) \ {0} /\ i - 1 \in 0..n /\ f[i - 1] \in S
      BY <1>1 DEF n
    <3>2. f[i] = step[<<f[i - 1], i>>]
      BY <1>4, <3>1 DEF IsRecursion
    <3> QED
      BY <1>3a, <3>1, <3>2
  <2>2. f[0] = a
    BY <1>4 DEF IsRecursion
  <2> DEFINE g == [i \in 0..Len(p.rest) |-> IF i = 0 THEN a ELSE Body(f[i - 1], i)]
  <2>3. f = g
    BY <1>1, <2>1, <2>2 DEF n
  <2> HIDE DEF g
  <2>4. g = G(f)
    BY <1>b DEF g
  <2> QED
    BY <2>3, <2>4
<1>6. h = G(h)
  BY <1>5
<1> HIDE DEF h
<1>7. G(h)[0] = a /\ \A i \in 1..Len(p.rest) : G(h)[i] = Body(h[i - 1], i)
  BY <1>1, <1>b DEF n
<1>8. h[0] = a /\ \A i \in 1..Len(p.rest) : h[i] = Body(h[i - 1], i)
  BY <1>6, <1>7
<1> QED
  BY <1>0, <1>8 DEF a, Body

\* The end of these loops, for any parser.
LEMMA PieceLoopType ==
  ASSUME NEW p \in Parser, NEW len \in Nat
  PROVE  PieceLoop(p, len)[Len(p.rest)] \in PieceState
<1> DEFINE f == PieceLoop(p, len)
           n == Len(p.rest)
           I == {i \in Nat : i <= n => f[i] \in PieceState}
<1>1. f[0] = [pieces |-> <<>>, len |-> len, p |-> p] /\ \A i \in 1..n : f[i] = PieceStep(f[i - 1])
  BY PiecePasses
<1>2. n \in Nat
  BY ParserParts
<1>3. [pieces |-> <<>>, len |-> len, p |-> p] \in PieceState
  BY EmptySeq DEF PieceState
<1> HIDE DEF f, n
<1>4. 0 \in I
  <2>1. f[0] \in PieceState
    BY <1>1, <1>3, Zenon
  <2> QED
    BY <2>1
<1>5. ASSUME NEW i \in Nat, i \in I PROVE i + 1 \in I
  <2> SUFFICES ASSUME i + 1 <= n PROVE f[i + 1] \in PieceState
    OBVIOUS
  <2>1. i + 1 \in 1..n /\ (i + 1) - 1 = i /\ f[i] \in PieceState
    BY <1>2, <1>5
  <2>2. f[i + 1] = PieceStep(f[i])
    BY <1>1, <2>1
  <2> QED
    BY <2>1, <2>2, PieceStepType
<1>6. Nat \subseteq I
  <2> HIDE DEF I
  <2> QED
    BY <1>4, <1>5, Induction
<1>7. f[n] \in PieceState
  BY <1>2, <1>6
<1> QED
  BY <1>7 DEF f, n

\* parseBytes() and parseStrbuf() for any parser.
LEMMA PiecesType ==
  ASSUME NEW p \in Parser, NEW len \in Nat, ParsePieces(p, len).ok
  PROVE  /\ ParsePieces(p, len).p \in Parser /\ ParsePieces(p, len).value \in Seq(Text)
         /\ ParsePieces(p, len).ok = TRUE
<1> DEFINE end == PieceLoop(p, len)[Len(p.rest)]
           pieces == Append(end.pieces, Take(end.p, end.len))
           q == [end.p EXCEPT !.offset = @ + end.len]
<1>1. end \in PieceState
  BY PieceLoopType
<1>2. ParsePieces(p, len) = IF end.len > Left(end.p) THEN Error ELSE Result(pieces, q)
  BY DEF ParsePieces, LastPiece
<1> HIDE DEF end
<1>3. end.pieces \in Seq(Text) /\ end.len \in Nat /\ end.p \in Parser /\ Left(end.p) \in Nat
  BY <1>1, ParserParts DEF PieceState
<1>4. ~ (end.len > Left(end.p))
  BY <1>2 DEF Error
<1>5. end.len <= Left(end.p)
  BY <1>3, <1>4
<1>6. pieces \in Seq(Text)
  <2>1. Take(end.p, end.len) \in Text
    BY <1>3, <1>5, TakeType
  <2> QED
    BY <1>3, <2>1, AppendProperties
<1>7. q \in Parser
  BY <1>3, <1>5, OnParser
<1> HIDE DEF pieces, q
<1>8. ParsePieces(p, len) = [ok |-> TRUE, value |-> pieces, p |-> q]
  BY <1>2, <1>4 DEF Result
<1> QED
  BY <1>6, <1>7, <1>8

\* Where a pass begins and ends: the pieces so far are those of the string t at place k.
PieceAt(s, S, k, t) ==
  /\ s \in PieceState /\ s.len <= Len(t)
  /\ IsPieces(s.pieces, t, Len(t) - s.len) /\ IsView(s.p, S, k + (Len(t) - s.len))
  /\ s.pieces # <<>> => s.len > 0 /\ Left(s.p) > 0

\* A pass takes one more piece of it.
LEMMA PieceTaken ==
  ASSUME NEW S \in Text, NEW k, NEW t \in Text, IsAt(S, k, t), NEW s, PieceAt(s, S, k, t),
         ~ (s.len <= Left(s.p)), s.p.rest # <<>>
  PROVE  PieceAt(PieceStep(s), S, k, t)
<1> DEFINE m == Len(t) - s.len
           n == Left(s.p)
           q == Take(s.p, n)
           z == PieceStep(s)
<1>1. s \in PieceState /\ s.len \in Nat /\ s.p \in Parser /\ n \in Nat /\ Len(t) \in Nat
      /\ k \in Nat /\ s.len <= Len(t)
  BY ParserParts, TextParts DEF PieceAt, PieceState, IsAt
<1>2. /\ z \in PieceState /\ z.pieces = Append(s.pieces, q)
      /\ z.len = s.len - n /\ z.p = NextString(s.p)
  BY <1>1, PieceGoes
<1>3. IsPieces(s.pieces, t, m) /\ IsView(s.p, S, k + m) /\ (s.pieces # <<>> => n > 0)
  BY DEF PieceAt
<1>4. k + m \in Nat /\ m \in Nat /\ n < s.len
  BY <1>1
<1>5. q \in Text /\ Len(q) = n /\ \A j \in 1..n : q[j] = S[(k + m) + j]
  <2> HIDE DEF n
  <2>1. n \in Nat /\ n <= Left(s.p)
    BY <1>1 DEF n
  <2> QED
    BY <1>3, <2>1, ViewTake
<1>6. \A j \in 1..Len(t) : S[k + j] = t[j]
  BY DEF IsAt
<1> HIDE DEF z, q, n
<1>2a. z.len = s.len - n /\ s.len \in Nat /\ n \in Nat /\ Len(t) \in Nat /\ s.len <= Len(t) /\ n < s.len
  BY <1>1, <1>2, <1>4
<1>7. m + n <= Len(t) /\ Len(t) - z.len = m + n /\ z.len > 0 /\ z.len <= Len(t)
  BY <1>2a
<1>8. \A j \in 1..n : q[j] = t[m + j]
  <2>1. ASSUME NEW j \in 1..n PROVE q[j] = t[m + j]
    <3>1. m + j \in 1..Len(t) /\ k + (m + j) = (k + m) + j
      <4>1. k \in Nat /\ m \in Nat /\ n \in Nat /\ Len(t) \in Nat /\ m + n <= Len(t)
        BY <1>1, <1>4, <1>7
      <4> HIDE DEF m
      <4> QED
        BY <4>1
    <3>2. S[k + (m + j)] = t[m + j]
      BY <1>6, <3>1
    <3> QED
      BY <1>5, <3>1, <3>2
  <2> QED
    BY <2>1
<1> HIDE DEF m
<1>9. IsPieces(z.pieces, t, m + n) /\ z.pieces # <<>>
  BY <1>2, <1>3, <1>5, <1>7, <1>8, PiecesAppend
<1>10. IsView(z.p, S, (k + m) + n) /\ Left(z.p) > 0
  BY <1>2, <1>3, ViewNext DEF n
<1>11. (k + m) + n = k + (m + n)
  BY <1>1, <1>4
<1>12. z \in PieceState /\ z.len <= Len(t) /\ z.len > 0
  BY <1>2, <1>7
<1>13. IsPieces(z.pieces, t, Len(t) - z.len)
  BY <1>7, <1>9
<1>14. IsView(z.p, S, k + (Len(t) - z.len))
  BY <1>7, <1>10, <1>11
<1>15. PieceAt(z, S, k, t)
  BY <1>10, <1>12, <1>13, <1>14 DEF PieceAt
<1> QED
  BY <1>15 DEF z

\* A string that is found at a place is parsed there.
LEMMA PiecesParsed ==
  ASSUME NEW S \in Text, NEW k, NEW p, IsView(p, S, k), NEW t \in Text, IsAt(S, k, t)
  PROVE  /\ ParsePieces(p, Len(t)).ok = TRUE
         /\ IsPieces(ParsePieces(p, Len(t)).value, t, Len(t))
         /\ ParsePieces(p, Len(t)).value # <<>>
         /\ IsView(ParsePieces(p, Len(t)).p, S, k + Len(t))
<1> DEFINE f == PieceLoop(p, Len(t))
           n == Len(p.rest)
           Good(i) == PieceAt(f[i], S, k, t)
                      /\ (f[i].len <= Left(f[i].p) \/ Len(f[i].p.rest) = n - i)
           I == {i \in Nat : i <= n => Good(i)}
<1>0. p \in Parser /\ Len(t) \in Nat /\ Len(S) \in Nat /\ n \in Nat
      /\ k \in Nat /\ k + Len(t) <= Len(S)
  BY TextParts, ParserParts DEF IsView, IsAt
<1>1. f[0] = [pieces |-> <<>>, len |-> Len(t), p |-> p] /\ \A i \in 1..n : f[i] = PieceStep(f[i - 1])
  BY <1>0, PiecePasses
<1> HIDE DEF f, n
<1>2. Good(0)
  <2>1. f[0].pieces = <<>> /\ f[0].len = Len(t) /\ f[0].p = p
    BY <1>1
  <2>2. f[0] \in PieceState
    <3>1. [pieces |-> <<>>, len |-> Len(t), p |-> p] \in PieceState
      BY <1>0, EmptySeq DEF PieceState
    <3> QED
      BY <1>1, <3>1, Zenon
  <2>3. Len(t) - f[0].len = 0 /\ k + (Len(t) - f[0].len) = k /\ f[0].len <= Len(t)
    BY <1>0, <2>1
  <2>4. IsPieces(f[0].pieces, t, Len(t) - f[0].len)
    BY <2>1, <2>3, PiecesBegin
  <2>5. PieceAt(f[0], S, k, t)
    BY <2>1, <2>2, <2>3, <2>4 DEF PieceAt
  <2>6. Len(f[0].p.rest) = n - 0
    BY <1>0, <2>1 DEF n
  <2> QED
    BY <2>5, <2>6
<1>3. ASSUME NEW i \in Nat, i + 1 <= n, Good(i) PROVE Good(i + 1)
  <2> DEFINE s == f[i]
             m == Len(t) - s.len
  <2>1. i + 1 \in 1..n /\ (i + 1) - 1 = i
    BY <1>0, <1>3
  <2>2. f[i + 1] = PieceStep(s)
    BY <1>1, <2>1
  <2>3. PieceAt(s, S, k, t) /\ (s.len <= Left(s.p) \/ Len(s.p.rest) = n - i)
    BY <1>3
  <2>4. s.len \in Nat /\ s.len <= Len(t) /\ s.p \in Parser /\ Left(s.p) \in Nat
        /\ IsView(s.p, S, k + m)
    BY <2>3, ParserParts DEF PieceAt, PieceState
  <2> HIDE DEF s
  <2>5. CASE s.len <= Left(s.p)
    <3>1. f[i + 1] = s
      BY <2>2, <2>5 DEF PieceStep
    <3> QED
      BY <2>3, <2>5, <3>1
  <2>6. CASE ~ (s.len <= Left(s.p)) /\ s.p.rest = <<>>
    <3>1. (k + m) + Left(s.p) = Len(S)
      BY <2>4, <2>6, ViewLeft
    <3> QED
      BY <1>0, <2>4, <2>6, <3>1
  <2>7. CASE ~ (s.len <= Left(s.p)) /\ s.p.rest # <<>>
    <3>1. PieceAt(f[i + 1], S, k, t)
      BY <2>2, <2>3, <2>7, PieceTaken
    <3>2. f[i + 1].p = NextString(s.p)
      BY <2>2, <2>3, <2>7, PieceGoes DEF PieceAt
    <3>3. Len(f[i + 1].p.rest) = Len(s.p.rest) - 1
      BY <2>4, <2>7, <3>2, NextParser
    <3>4. Len(f[i + 1].p.rest) = n - (i + 1)
      BY <1>0, <2>3, <2>7, <3>3
    <3> QED
      BY <3>1, <3>4
  <2> QED
    BY <2>5, <2>6, <2>7
<1> HIDE DEF Good
<1>4. 0 \in I
  BY <1>2
<1>5. ASSUME NEW i \in Nat, i \in I PROVE i + 1 \in I
  <2>1. i + 1 <= n => i <= n
    BY <1>0
  <2> QED
    BY <1>3, <1>5, <2>1
<1>6. Nat \subseteq I
  <2> HIDE DEF I
  <2> QED
    BY <1>4, <1>5, Induction
<1> DEFINE end == f[n]
           m == Len(t) - end.len
           q == Take(end.p, end.len)
           pieces == Append(end.pieces, q)
           on == [end.p EXCEPT !.offset = @ + end.len]
<1>7. Good(n)
  BY <1>0, <1>6
<1>8. PieceAt(end, S, k, t) /\ (end.len <= Left(end.p) \/ Len(end.p.rest) = 0)
  BY <1>0, <1>7 DEF Good
<1> HIDE DEF end
<1>9. /\ end.len \in Nat /\ end.len <= Len(t) /\ end.p \in Parser /\ Left(end.p) \in Nat
      /\ IsView(end.p, S, k + m) /\ IsPieces(end.pieces, t, m)
      /\ end.pieces # <<>> => end.len > 0
  BY <1>8, ParserParts DEF PieceAt, PieceState
<1>10. end.len <= Left(end.p)
  <2>1. ASSUME Len(end.p.rest) = 0 PROVE end.len <= Left(end.p)
    <3>1. end.p.rest = <<>>
      <4>1. end.p.rest \in Seq(Text)
        BY <1>9, ParserParts
      <4> QED
        BY <2>1, <4>1
    <3>2. (k + m) + Left(end.p) = Len(S)
      BY <1>9, <3>1, ViewLeft
    <3> QED
      BY <1>0, <1>9, <3>2
  <2> QED
    BY <1>8, <2>1
<1>11. m \in Nat /\ k + m \in Nat /\ m + end.len = Len(t) /\ (k + m) + end.len = k + Len(t)
  BY <1>0, <1>9
<1> HIDE DEF m
<1>12. q \in Text /\ Len(q) = end.len /\ \A j \in 1..end.len : q[j] = S[(k + m) + j]
  BY <1>9, <1>10, ViewTake
<1> HIDE DEF q
<1>13. \A j \in 1..Len(q) : q[j] = t[m + j]
  <2>1. \A j \in 1..Len(t) : S[k + j] = t[j]
    BY DEF IsAt
  <2>2. ASSUME NEW j \in 1..Len(q) PROVE q[j] = t[m + j]
    <3>1. m + j \in 1..Len(t) /\ k + (m + j) = (k + m) + j /\ j \in 1..end.len
      BY <1>0, <1>9, <1>11, <1>12
    <3>2. S[k + (m + j)] = t[m + j]
      BY <2>1, <3>1
    <3> QED
      BY <1>12, <3>1, <3>2
  <2> QED
    BY <2>2
<1>14. m + Len(q) = Len(t)
  BY <1>11, <1>12
<1>15. IsPieces(pieces, t, m + Len(q)) /\ pieces # <<>>
  <2>1. m + Len(q) <= Len(t) /\ (end.pieces # <<>> => Len(q) > 0)
    BY <1>0, <1>9, <1>12, <1>14
  <2> QED
    BY <1>9, <1>12, <1>13, <2>1, PiecesAppend
<1>16. IsView(on, S, k + Len(t))
  <2>1. IsView(on, S, (k + m) + end.len)
    BY <1>9, <1>10, ViewOn, Zenon
  <2> QED
    BY <1>11, <2>1
<1>17. ParsePieces(p, Len(t)) = Result(pieces, on)
  <2>1. ~ (end.len > Left(end.p))
    BY <1>9, <1>10
  <2> QED
    BY <2>1 DEF ParsePieces, LastPiece, end, f, n, q
<1> HIDE DEF pieces, on
<1>18. ParsePieces(p, Len(t)) = [ok |-> TRUE, value |-> pieces, p |-> on]
  BY <1>17 DEF Result
<1> QED
  BY <1>14, <1>15, <1>16, <1>18

\* The pieces that parseStrbuf() keeps: all of them, without an empty one.
LEMMA PiecesKept ==
  ASSUME NEW t \in Text, NEW pieces, IsPieces(pieces, t, Len(t)), pieces # <<>>,
         NEW kept, kept = IF pieces[1] = <<>> THEN Tail(pieces) ELSE pieces
  PROVE  IsPieces(kept, t, Len(t)) /\ \A i \in 1..Len(kept) : kept[i] # <<>>
<1> DEFINE n == Len(pieces)
<1>0. pieces \in Seq(Text) /\ Len(t) \in Nat /\ Len(t) \in 0..Len(t)
  BY TextParts DEF IsPieces
<1>1. PICK b : IsPiecesTo(pieces, t, Len(t), b)
  BY DEF IsPieces
<1>2. n \in Nat /\ n >= 1
  BY <1>0, EmptySeq
<1>3. b \in [0..n -> Nat] /\ b[0] = 0 /\ b[n] = Len(t)
  BY <1>1 DEF IsPiecesTo
<1>4. \A i \in 1..n :
        /\ b[i - 1] <= b[i] /\ (i # 1 => b[i - 1] < b[i])
        /\ Len(pieces[i]) = b[i] - b[i - 1]
        /\ \A j \in 1..Len(pieces[i]) : pieces[i][j] = t[b[i - 1] + j]
  BY <1>1 DEF IsPiecesTo
<1>5. \A i \in 1..n : pieces[i] \in Seq(Byte)
  BY <1>0, ElementOfSeq DEF Text
<1> HIDE DEF n
<1>6. ASSUME NEW i \in 1..n, i # 1 PROVE pieces[i] # <<>>
  <2>1. b[i - 1] < b[i] /\ Len(pieces[i]) = b[i] - b[i - 1]
    BY <1>4, <1>6
  <2>2. b[i] \in Nat /\ b[i - 1] \in Nat
    <3>1. i \in 0..n /\ i - 1 \in 0..n
      BY <1>2
    <3> QED
      BY <1>3, <3>1
  <2>3. Len(pieces[i]) # 0
    BY <2>1, <2>2
  <2>4. Len(<<>>) = 0
    BY EmptySeq
  <2> QED
    BY <2>3, <2>4
<1>7. CASE pieces[1] # <<>>
  <2>1. kept = pieces
    BY <1>7
  <2>2. \A i \in 1..Len(kept) : kept[i] # <<>>
    BY <1>6, <1>7, <2>1 DEF n
  <2> QED
    BY <2>1, <2>2
<1>8. CASE pieces[1] = <<>>
  <2>1. /\ kept \in Seq(Text) /\ Len(kept) = n - 1
        /\ \A i \in 1..(n - 1) : kept[i] = pieces[i + 1]
    <3>1. kept = Tail(pieces)
      BY <1>8
    <3> QED
      BY <1>0, <3>1, HeadTailProperties DEF n
  <2> DEFINE c == [i \in 0..(n - 1) |-> b[i + 1]]
  <2>2. \A i \in 0..(n - 1) : i + 1 \in 0..n
    BY <1>2
  <2>3. c \in [0..(n - 1) -> Nat] /\ \A i \in 0..(n - 1) : c[i] = b[i + 1]
    BY <1>3, <2>2
  <2> HIDE DEF c
  <2>4. c[0] = 0 /\ c[n - 1] = Len(t)
    <3>1. 1 \in 1..n /\ 0 \in 0..(n - 1) /\ n - 1 \in 0..(n - 1) /\ (n - 1) + 1 = n
          /\ 0 + 1 = 1 /\ 1 - 1 = 0 /\ 1 \in 0..n
      BY <1>2
    <3>2. Len(pieces[1]) = b[1] - b[0] /\ Len(pieces[1]) = 0 /\ b[1] \in Nat
      BY <1>3, <1>4, <1>8, <3>1, EmptySeq
    <3>3. b[1] = 0
      BY <1>3, <3>2
    <3> QED
      BY <1>3, <2>3, <3>1, <3>3
  <2>5. ASSUME NEW i \in 1..(n - 1)
        PROVE  /\ c[i - 1] <= c[i] /\ (i # 1 => c[i - 1] < c[i])
               /\ Len(kept[i]) = c[i] - c[i - 1]
               /\ \A j \in 1..Len(kept[i]) : kept[i][j] = t[c[i - 1] + j]
               /\ kept[i] # <<>>
    <3>1. i + 1 \in 1..n /\ i + 1 # 1 /\ (i + 1) - 1 = i /\ i \in 0..(n - 1)
          /\ i - 1 \in 0..(n - 1) /\ (i - 1) + 1 = i
      BY <1>2
    <3>2. c[i - 1] = b[i] /\ c[i] = b[i + 1] /\ kept[i] = pieces[i + 1]
      BY <2>1, <2>3, <3>1
    <3>3. /\ b[i] <= b[i + 1] /\ b[i] < b[i + 1]
          /\ Len(pieces[i + 1]) = b[i + 1] - b[i]
          /\ \A j \in 1..Len(pieces[i + 1]) : pieces[i + 1][j] = t[b[i] + j]
          /\ pieces[i + 1] # <<>>
      BY <1>4, <1>6, <3>1
    <3> QED
      BY <3>2, <3>3
  <2>6. IsPiecesTo(kept, t, Len(t), c)
    BY <2>1, <2>3, <2>4, <2>5 DEF IsPiecesTo
  <2>7. IsPieces(kept, t, Len(t))
    BY <1>0, <2>1, <2>6 DEF IsPieces
  <2> QED
    BY <2>1, <2>5, <2>7
<1> QED
  BY <1>7, <1>8

\* The bytes of integers, ASNs, strings and fields.
LEMMA IntType ==
  ASSUME NEW bits \in SUBSET (0..(IntBits - 1))
  PROVE  ProtoInt(bits) \in Text
<1>1. PICK n \in 0..9 : ProtoInt(bits) = Groups(bits, n) /\ ShiftRight(bits, 7 * n) \subseteq 0..6
  BY IntGroups
<1>2. n \in Nat
  OBVIOUS
<1> QED
  BY <1>1, <1>2, GroupsType

\* The bytes of an ASN.
LEMMA AsnType ==
  ASSUME NEW bits \in SUBSET (0..63)
  PROVE  ProtoAsn(bits, 8) \in Text
<1>1. PICK n \in 0..9 : ProtoAsn(bits, 8) = Groups(bits, n) /\ ShiftRight(bits, 7 * n) \subseteq 0..6
  BY AsnGroups
<1>2. n \in Nat
  OBVIOUS
<1> QED
  BY <1>1, <1>2, GroupsType

\* The bytes of a string: its length, and the string.
LEMMA StringBytes ==
  ASSUME NEW t \in Text
  PROVE  /\ ProtoInt(BitsOf(Len(t))) \in Text /\ ProtoString(t) \in Text
         /\ Len(ProtoString(t)) = Len(ProtoInt(BitsOf(Len(t)))) + Len(t)
<1>1. BitsOf(Len(t)) \in SUBSET (0..(IntBits - 1))
  BY DEF BitsOf
<1>2. ProtoInt(BitsOf(Len(t))) \in Text
  BY <1>1, IntType
<1> QED
  BY <1>2, TextJoin DEF ProtoString

\* The bytes of a field: the tag, and the string.
LEMMA FieldBytes ==
  ASSUME NEW tag \in Byte, NEW t \in Text
  PROVE  /\ Field(tag, t) \in Text /\ Len(Field(tag, t)) = 1 + Len(ProtoString(t))
         /\ <<tag>> \in Text /\ Len(<<tag>>) = 1
<1>1. ProtoString(t) \in Text /\ <<tag>> \in Text /\ Len(<<tag>>) = 1
  BY StringBytes, OneByte
<1> QED
  BY <1>1, TextJoin DEF Field

\* A shorter length fits in an integer, too.
LEMMA ShorterFits ==
  ASSUME NEW m \in Nat, NEW n \in Nat, m <= n, FitsInt(n)
  PROVE  FitsInt(m)
<1>1. IntBits - 1 \in Nat
  BY IntBitsAssumption
<1>2. Halves(m)[IntBits - 1] \in Nat /\ Halves(m)[IntBits - 1] <= Halves(n)[IntBits - 1]
  BY <1>1, HalvesGrow
<1>3. Halves(m)[IntBits - 1] = 0
  BY <1>2 DEF FitsInt
<1> QED
  BY <1>3 DEF FitsInt

\* A parser that found v, and is at place k of S.
IsResult(r, v, S, k) == r.ok = TRUE /\ r.value = v /\ IsView(r.p, S, k)

\* A string with its length in front, found at a place.
LEMMA LengthParsed ==
  ASSUME NEW S \in Text, FitsInt(Len(S)), NEW k, NEW p, IsView(p, S, k),
         NEW t \in Text, IsAt(S, k, ProtoString(t))
  PROVE  /\ ParseInt(p).ok /\ Number(ParseInt(p).value) = Len(t)
         /\ IsView(ParseInt(p).p, S, k + Len(ProtoInt(BitsOf(Len(t)))))
         /\ IsAt(S, k + Len(ProtoInt(BitsOf(Len(t)))), t)
         /\ (k + Len(ProtoInt(BitsOf(Len(t))))) + Len(t) = k + Len(ProtoString(t))
<1> DEFINE bits == BitsOf(Len(t))
           len == ProtoInt(bits)
<1>1. len \in Text /\ ProtoString(t) \in Text /\ Len(ProtoString(t)) = Len(len) + Len(t)
      /\ Len(t) \in Nat /\ Len(len) \in Nat /\ Len(S) \in Nat
  BY StringBytes, TextParts
<1>2. ProtoString(t) = len \o t
  BY DEF ProtoString
<1>3. k \in Nat /\ k + Len(ProtoString(t)) <= Len(S)
  BY DEF IsAt
<1>4. FitsInt(Len(t))
  <2>1. Len(t) <= Len(S)
    BY <1>1, <1>3
  <2> QED
    BY <1>1, <2>1, ShorterFits
<1>5. Number(bits) = Len(t) /\ bits \in SUBSET (0..(IntBits - 1))
  BY <1>1, <1>4, NumberOfBits
<1> HIDE DEF bits
<1>6. IsAt(S, k, len) /\ IsAt(S, k + Len(len), t)
  BY <1>1, <1>2, AtJoin
<1>6a. (k + Len(len)) + Len(t) = k + Len(ProtoString(t))
  BY <1>1, <1>3
<1>7. /\ ParseInt(p).ok /\ ParseInt(p).value = bits /\ IsView(ParseInt(p).p, S, k + Len(len))
  BY <1>5, <1>6, IntParsed
<1> QED
  BY <1>5, <1>6, <1>6a, <1>7 DEF bits

\* parseString() finds it.
LEMMA StringParsed ==
  ASSUME NEW S \in Text, FitsInt(Len(S)), NEW k, NEW p, IsView(p, S, k),
         NEW t \in Text, IsAt(S, k, ProtoString(t))
  PROVE  IsResult(ParseString(p), t, S, k + Len(ProtoString(t)))
<1> DEFINE len == ParseInt(p)
           l == k + Len(ProtoInt(BitsOf(Len(t))))
           r == ParsePieces(len.p, Len(t))
<1>1. len.ok /\ Number(len.value) = Len(t) /\ IsView(len.p, S, l) /\ IsAt(S, l, t)
      /\ l + Len(t) = k + Len(ProtoString(t))
  BY LengthParsed
<1>2. ParseString(p) = ParseBytes(len.p, Len(t))
  BY <1>1 DEF ParseString, StringOf
<1> HIDE DEF len, l
<1>3. r.ok = TRUE /\ IsPieces(r.value, t, Len(t)) /\ IsView(r.p, S, l + Len(t))
  BY <1>1, PiecesParsed
<1>4. Joined(r.value) = t
  BY <1>3, PiecesJoined
<1>5. ParseBytes(len.p, Len(t)) = Result(t, r.p)
  BY <1>3, <1>4 DEF ParseBytes, JoinPieces
<1>6. ParseString(p) = [ok |-> TRUE, value |-> t, p |-> r.p]
  BY <1>2, <1>5 DEF Result
<1> HIDE DEF r
<1> QED
  BY <1>1, <1>3, <1>6 DEF IsResult

\* parseStrbuf() finds pieces of it.
LEMMA StrbufParsed ==
  ASSUME NEW S \in Text, FitsInt(Len(S)), NEW k, NEW p, IsView(p, S, k),
         NEW t \in Text, IsAt(S, k, ProtoString(t))
  PROVE  ParseStrbuf(p).ok = TRUE /\ IsView(Start(ParseStrbuf(p).value), t, 0)
<1> DEFINE len == ParseInt(p)
           l == k + Len(ProtoInt(BitsOf(Len(t))))
           r == ParsePieces(len.p, Len(t))
           kept == IF r.value[1] = <<>> THEN Tail(r.value) ELSE r.value
<1>1. len.ok /\ Number(len.value) = Len(t) /\ IsView(len.p, S, l) /\ IsAt(S, l, t)
  BY LengthParsed
<1> HIDE DEF l
<1>2. r.ok = TRUE /\ IsPieces(r.value, t, Len(t)) /\ r.value # <<>>
  <2> HIDE DEF len
  <2> QED
    BY <1>1, PiecesParsed
<1>3. ParseStrbuf(p) = Result(kept, r.p)
  BY <1>1, <1>2 DEF ParseStrbuf
<1>4. kept = IF r.value[1] = <<>> THEN Tail(r.value) ELSE r.value
  OBVIOUS
<1> HIDE DEF kept, r, len
<1>5. IsPieces(kept, t, Len(t)) /\ \A i \in 1..Len(kept) : kept[i] # <<>>
  BY <1>2, <1>4, PiecesKept
<1>6. IsView(Start(kept), t, 0)
  BY <1>5, PiecesView
<1>7. ParseStrbuf(p) = [ok |-> TRUE, value |-> kept, p |-> r.p]
  BY <1>3 DEF Result
<1> QED
  BY <1>6, <1>7

\* parseString() for any parser.
LEMMA StringType ==
  ASSUME NEW p \in Parser, ParseString(p).ok
  PROVE  /\ ParseString(p).p \in Parser /\ ParseString(p).value \in Text
         /\ ParseString(p).ok = TRUE
<1> DEFINE len == ParseInt(p)
           n == Number(len.value)
           r == ParsePieces(len.p, n)
<1>0. ParseString(p) = IF len.ok THEN ParseBytes(len.p, n) ELSE Error
  BY DEF ParseString, StringOf
<1>1. len.ok
  BY <1>0 DEF Error
<1>2. len.p \in Parser
  <2>1. IntBits \in Int
    BY IntBitsAssumption
  <2> QED
    BY <1>1, <2>1, GroupsParser DEF ParseInt
<1>3. n \in Nat
  BY NumberType
<1> HIDE DEF len, n
<1>4. ParseString(p) = IF r.ok THEN Result(Joined(r.value), r.p) ELSE Error
  BY <1>0, <1>1 DEF ParseBytes, JoinPieces
<1>5. r.ok
  BY <1>4 DEF Error
<1>6. r.p \in Parser /\ r.value \in Seq(Text)
  BY <1>2, <1>3, <1>5, PiecesType
<1> HIDE DEF r
<1>7. Joined(r.value) \in Text
  BY <1>6, JoinedType
<1>8. ParseString(p) = [ok |-> TRUE, value |-> Joined(r.value), p |-> r.p]
  BY <1>4, <1>5 DEF Result
<1> QED
  BY <1>6, <1>7, <1>8

(***************************************************************************)
(* Protocol buffers: fields                                                *)
(***************************************************************************)

\* A tag and what follows it.
LEMMA TagAt ==
  ASSUME NEW S \in Text, NEW k, NEW tag \in Byte, NEW s \in Text, IsAt(S, k, <<tag>> \o s)
  PROVE  IsAt(S, k, <<tag>>) /\ IsAt(S, k + 1, s)
<1> DEFINE t == <<tag>>
<1>1. t \in Text /\ Len(t) = 1 /\ IsAt(S, k, t \o s)
  BY OneByte
<1> HIDE DEF t
<1>2. IsAt(S, k, t) /\ IsAt(S, k + Len(t), s)
  BY <1>1, AtJoin
<1> QED
  BY <1>1, <1>2 DEF t

\* The place after a tag and a string.
LEMMA TagLength ==
  ASSUME NEW k \in Nat, NEW tag \in Byte, NEW s \in Text
  PROVE  (k + 1) + Len(s) = k + Len(<<tag>> \o s)
<1> DEFINE t == <<tag>>
<1>1. t \in Text /\ Len(t) = 1
  BY OneByte
<1> HIDE DEF t
<1>2. (k + Len(t)) + Len(s) = k + Len(t \o s)
  BY <1>1, JoinLength
<1> QED
  BY <1>1, <1>2 DEF t

\* A tag that is expected is parsed, and what follows it is next.
LEMMA TagParsed ==
  ASSUME NEW S \in Text, NEW r, NEW v, NEW k, IsResult(r, v, S, k),
         NEW tag \in Byte, NEW s \in Text, IsAt(S, k, <<tag>> \o s)
  PROVE  /\ r.ok = TRUE /\ ParseByte(r.p).value = tag /\ IsView(ParseByte(r.p).p, S, k + 1)
         /\ IsAt(S, k + 1, s)
<1>1. IsAt(S, k, <<tag>>) /\ IsAt(S, k + 1, s)
  BY TagAt
<1>2. r.ok = TRUE /\ IsView(r.p, S, k)
  BY DEF IsResult
<1>3. ParseByte(r.p).value = tag /\ IsView(ParseByte(r.p).p, S, k + 1)
  BY <1>1, <1>2, ByteParsed
<1> QED
  BY <1>1, <1>2, <1>3

\* A field with a string.
LEMMA StringExpected ==
  ASSUME NEW S \in Text, FitsInt(Len(S)), NEW r, NEW v, NEW k, IsResult(r, v, S, k),
         NEW tag \in Byte, NEW t \in Text, IsAt(S, k, Field(tag, t))
  PROVE  IsResult(Expect(r, tag, ParseString), t, S, k + Len(Field(tag, t)))
<1> DEFINE p == ParseByte(r.p).p
           s == ProtoString(t)
<1>1. s \in Text /\ Field(tag, t) = <<tag>> \o s /\ IsAt(S, k, <<tag>> \o s)
  BY StringBytes DEF Field
<1>2. /\ r.ok = TRUE /\ ParseByte(r.p).value = tag /\ IsView(p, S, k + 1)
      /\ IsAt(S, k + 1, s) /\ (k + 1) + Len(s) = k + Len(Field(tag, t))
  <2> HIDE DEF s
  <2>1. r.ok = TRUE /\ ParseByte(r.p).value = tag /\ IsView(p, S, k + 1) /\ IsAt(S, k + 1, s)
    BY <1>1, TagParsed
  <2>2. (k + 1) + Len(s) = k + Len(<<tag>> \o s)
    BY <1>1, TagLength DEF IsAt
  <2> QED
    BY <1>1, <2>1, <2>2
<1>3. Expect(r, tag, ParseString) = ParseString(p)
  BY <1>2 DEF Expect
<1> HIDE DEF p
<1>4. IsResult(ParseString(p), t, S, (k + 1) + Len(s))
  BY <1>2, StringParsed
<1> QED
  BY <1>2, <1>3, <1>4

\* A field with a message in it.
LEMMA StrbufExpected ==
  ASSUME NEW S \in Text, FitsInt(Len(S)), NEW r, NEW v, NEW k, IsResult(r, v, S, k),
         NEW tag \in Byte, NEW t \in Text, IsAt(S, k, Field(tag, t))
  PROVE  /\ Expect(r, tag, ParseStrbuf).ok = TRUE
         /\ IsView(Start(Expect(r, tag, ParseStrbuf).value), t, 0)
<1> DEFINE p == ParseByte(r.p).p
           s == ProtoString(t)
<1>1. s \in Text /\ Field(tag, t) = <<tag>> \o s /\ IsAt(S, k, <<tag>> \o s)
  BY StringBytes DEF Field
<1>2. /\ r.ok = TRUE /\ ParseByte(r.p).value = tag /\ IsView(p, S, k + 1) /\ IsAt(S, k + 1, s)
  <2> HIDE DEF s
  <2> QED
    BY <1>1, TagParsed
<1>3. Expect(r, tag, ParseStrbuf) = ParseStrbuf(p)
  BY <1>2 DEF Expect
<1> HIDE DEF p
<1>4. ParseStrbuf(p).ok = TRUE /\ IsView(Start(ParseStrbuf(p).value), t, 0)
  BY <1>2, StrbufParsed
<1> QED
  BY <1>3, <1>4

\* A field with an integer.
LEMMA IntExpected ==
  ASSUME NEW S \in Text, NEW r, NEW v, NEW k, IsResult(r, v, S, k),
         NEW tag \in Byte, NEW bits \in SUBSET (0..(IntBits - 1)), IsAt(S, k, IntField(tag, bits))
  PROVE  IsResult(Expect(r, tag, ParseInt), bits, S, k + Len(IntField(tag, bits)))
<1> DEFINE p == ParseByte(r.p).p
           s == ProtoInt(bits)
           q == ParseInt(p)
<1>1. s \in Text /\ IsAt(S, k, <<tag>> \o s)
  BY IntType DEF IntField
<1>2. /\ r.ok = TRUE /\ ParseByte(r.p).value = tag /\ IsView(p, S, k + 1)
      /\ IsAt(S, k + 1, s) /\ (k + 1) + Len(s) = k + Len(<<tag>> \o s)
  <2> HIDE DEF s
  <2>1. r.ok = TRUE /\ ParseByte(r.p).value = tag /\ IsView(p, S, k + 1) /\ IsAt(S, k + 1, s)
    BY <1>1, TagParsed
  <2>2. (k + 1) + Len(s) = k + Len(<<tag>> \o s)
    BY <1>1, TagLength DEF IsAt
  <2> QED
    BY <1>1, <2>1, <2>2
<1>3. Expect(r, tag, ParseInt) = q
  BY <1>2 DEF Expect
<1> HIDE DEF p
<1>4. q.ok /\ q.value = bits /\ IsView(q.p, S, (k + 1) + Len(s))
  BY <1>2, IntParsed
<1>5. q.ok = TRUE
  <2>1. q = IF GroupLoop(p, IntBits)[MaxGroups].more THEN [ok |-> FALSE]
            ELSE [ok |-> TRUE, value |-> GroupLoop(p, IntBits)[MaxGroups].value,
                  p |-> GroupLoop(p, IntBits)[MaxGroups].p]
    BY DEF ParseInt, ParseGroups, Grouped, Error, Result
  <2> HIDE DEF q
  <2> QED
    BY <1>4, <2>1
<1> HIDE DEF q
<1> QED
  BY <1>2, <1>3, <1>4, <1>5 DEF IsResult, IntField

\* A field with an ASN of 8 bytes.
LEMMA AsnExpected ==
  ASSUME NEW S \in Text, NEW r, NEW v, NEW k, IsResult(r, v, S, k),
         NEW tag \in Byte, NEW bits \in SUBSET (0..63), IsAt(S, k, AsnField(tag, bits))
  PROVE  IsResult(Expect(r, tag, ParseAsn), bits, S, k + Len(AsnField(tag, bits)))
<1> DEFINE p == ParseByte(r.p).p
           s == ProtoAsn(bits, 8)
           q == ParseAsn(p)
<1>1. s \in Text /\ IsAt(S, k, <<tag>> \o s)
  BY AsnType DEF AsnField
<1>2. /\ r.ok = TRUE /\ ParseByte(r.p).value = tag /\ IsView(p, S, k + 1)
      /\ IsAt(S, k + 1, s) /\ (k + 1) + Len(s) = k + Len(<<tag>> \o s)
  <2> HIDE DEF s
  <2>1. r.ok = TRUE /\ ParseByte(r.p).value = tag /\ IsView(p, S, k + 1) /\ IsAt(S, k + 1, s)
    BY <1>1, TagParsed
  <2>2. (k + 1) + Len(s) = k + Len(<<tag>> \o s)
    BY <1>1, TagLength DEF IsAt
  <2> QED
    BY <1>1, <2>1, <2>2
<1>3. Expect(r, tag, ParseAsn) = q
  BY <1>2 DEF Expect
<1> HIDE DEF p
<1>4. q.ok /\ q.value = bits /\ IsView(q.p, S, (k + 1) + Len(s))
  BY <1>2, AsnParsed
<1>5. q.ok = TRUE
  <2>1. q = IF GroupLoop(p, 64)[MaxGroups].more THEN [ok |-> FALSE]
            ELSE [ok |-> TRUE, value |-> GroupLoop(p, 64)[MaxGroups].value,
                  p |-> GroupLoop(p, 64)[MaxGroups].p]
    BY DEF ParseAsn, ParseGroups, Grouped, Error, Result
  <2> HIDE DEF q
  <2> QED
    BY <1>4, <2>1
<1> HIDE DEF q
<1> QED
  BY <1>2, <1>3, <1>4, <1>5 DEF IsResult, AsnField

\* A body that may be missing.
LEMMA BodyParts ==
  ASSUME NEW body \in Optionally
  PROVE  body = <<>> \/ (body # <<>> /\ body[1] \in Text /\ body = <<body[1]>>)
<1>1. body \in Seq(Text) /\ Len(body) <= 1 /\ Len(body) \in Nat
  BY LenProperties DEF Optionally
<1>2. CASE Len(body) = 0
  BY <1>1, <1>2
<1>3. CASE Len(body) = 1
  <2>1. body[1] \in Text
    BY <1>1, <1>3, ElementOfSeq
  <2> DEFINE one == <<body[1]>>
  <2>2. one \in Seq(Text) /\ Len(one) = 1 /\ one[1] = body[1]
    BY <2>1
  <2> HIDE DEF one
  <2>3. body = one
    <3>1. \A i \in 1..Len(body) : i = 1
      BY <1>3
    <3>2. Len(body) = Len(one) /\ \A i \in 1..Len(body) : body[i] = one[i]
      BY <1>3, <2>2, <3>1
    <3> QED
      BY <1>1, <2>2, <3>2, SeqEqual
  <2>4. body # <<>>
    BY <1>3, EmptySeq
  <2> QED
    BY <2>1, <2>3, <2>4 DEF one
<1> QED
  BY <1>1, <1>2, <1>3

\* The bytes of a body that may be missing.
LEMMA BodyBytes ==
  ASSUME NEW tag \in Byte, NEW body \in Optionally
  PROVE  OptField(tag, body) \in Text
<1>1. CASE body = <<>>
  BY <1>1, EmptySeq DEF OptField, Text
<1>2. CASE body # <<>>
  <2>1. body[1] \in Text
    BY <1>2, BodyParts
  <2> QED
    BY <1>2, <2>1, FieldBytes DEF OptField
<1> QED
  BY <1>1, <1>2

\* It is found if it is there, when no other field with its tag is next.
LEMMA BodyParsed ==
  ASSUME NEW S \in Text, FitsInt(Len(S)), NEW r, NEW v, NEW k, IsResult(r, v, S, k),
         NEW tag \in Byte, NEW body \in Optionally, IsAt(S, k, OptField(tag, body)),
         body = <<>> => ParseByte(r.p).value # tag
  PROVE  IsResult(Optional(r, tag), body, S, k + Len(OptField(tag, body)))
<1>0. r.ok = TRUE /\ IsView(r.p, S, k) /\ k \in Nat
  BY DEF IsResult, IsAt
<1>1. CASE body = <<>>
  <2>1. Optional(r, tag) = Result(<<>>, r.p)
    BY <1>0, <1>1 DEF Optional
  <2>2. Optional(r, tag) = [ok |-> TRUE, value |-> body, p |-> r.p]
    BY <1>1, <2>1 DEF Result
  <2>3. Len(OptField(tag, body)) = 0
    BY <1>1, EmptySeq DEF OptField
  <2>4. k + Len(OptField(tag, body)) = k
    BY <1>0, <2>3
  <2> QED
    BY <1>0, <2>2, <2>4 DEF IsResult
<1>2. CASE body # <<>>
  <2> DEFINE t == body[1]
             p == ParseByte(r.p).p
             s == ProtoString(t)
             str == ParseString(p)
  <2>1. t \in Text /\ body = <<t>>
    BY <1>2, BodyParts
  <2>2. s \in Text /\ OptField(tag, body) = <<tag>> \o s /\ IsAt(S, k, <<tag>> \o s)
    BY <1>2, <2>1, StringBytes DEF OptField, Field
  <2>3. /\ ParseByte(r.p).value = tag /\ IsView(p, S, k + 1)
        /\ IsAt(S, k + 1, s) /\ (k + 1) + Len(s) = k + Len(OptField(tag, body))
    <3> HIDE DEF s
    <3>1. ParseByte(r.p).value = tag /\ IsView(p, S, k + 1) /\ IsAt(S, k + 1, s)
      BY <2>2, TagParsed
    <3>2. (k + 1) + Len(s) = k + Len(<<tag>> \o s)
      BY <2>2, TagLength DEF IsAt
    <3> QED
      BY <2>2, <3>1, <3>2
  <2>4. Optional(r, tag) = IF str.ok THEN Result(<<str.value>>, str.p) ELSE Error
    BY <1>0, <2>3 DEF Optional
  <2> HIDE DEF p, t
  <2>5. IsResult(str, t, S, (k + 1) + Len(s))
    BY <2>1, <2>3, StringParsed
  <2>6. str.ok = TRUE /\ str.value = t /\ IsView(str.p, S, (k + 1) + Len(s))
    BY <2>5 DEF IsResult
  <2> HIDE DEF str
  <2>7. Optional(r, tag) = [ok |-> TRUE, value |-> body, p |-> str.p]
    BY <2>1, <2>4, <2>6 DEF Result
  <2> QED
    BY <2>3, <2>6, <2>7 DEF IsResult
<1> QED
  BY <1>1, <1>2

(***************************************************************************)
(* Protocol buffers: headers                                               *)
(***************************************************************************)

\* What the loop over headers keeps.
HeaderState == [ok : {TRUE}, value : Seq(Text), p : Parser] \cup {Error}

\* The tag of a header is not a number with more bytes.
LEMMA HeaderTagIsByte == HeaderTag \in Byte
BY DEF HeaderTag, Byte

\* One pass keeps its type.
LEMMA HeaderStepType ==
  ASSUME NEW s \in HeaderState
  PROVE  HeaderStep(s) \in HeaderState
<1> DEFINE c == ParseByte(s.p)
           str == ParseString(c.p)
           h == Expect(s, HeaderTag, ParseString)
<1>1. CASE s.ok => ParseDone(s.p)
  BY <1>1 DEF HeaderStep, WithHeader
<1>2. CASE ~ (s.ok => ParseDone(s.p)) /\ ~ h.ok
  <2>1. HeaderStep(s) = Error
    BY <1>2 DEF HeaderStep, WithHeader
  <2> QED
    BY <2>1 DEF HeaderState
<1>3. CASE ~ (s.ok => ParseDone(s.p)) /\ h.ok
  <2>1. s.ok /\ HeaderStep(s) = Result(Append(s.value, h.value), h.p)
    BY <1>3 DEF HeaderStep, WithHeader
  <2>2. s # Error
    BY <2>1 DEF Error
  <2>3. s.value \in Seq(Text) /\ s.p \in Parser
    BY <2>2 DEF HeaderState
  <2>4. c.p \in Parser
    BY <2>3, ByteType
  <2>5. h = IF c.value = HeaderTag THEN str ELSE Error
    BY <2>1 DEF Expect
  <2> HIDE DEF h, c
  <2>6. h = str /\ str.ok
    BY <1>3, <2>5 DEF Error
  <2>7. h.p \in Parser /\ h.value \in Text
    BY <2>4, <2>6, StringType
  <2> DEFINE value == Append(s.value, h.value)
  <2>8. value \in Seq(Text)
    BY <2>3, <2>7, AppendProperties
  <2> HIDE DEF value
  <2>9. [ok |-> TRUE, value |-> value, p |-> h.p] \in HeaderState
    BY <2>7, <2>8 DEF HeaderState
  <2> QED
    BY <2>1, <2>9 DEF Result, value
<1> QED
  BY <1>1, <1>2, <1>3

\* The passes through the loop over headers.
LEMMA HeaderPasses ==
  ASSUME NEW r, r.ok = TRUE, r.p \in Parser
  PROVE  /\ HeaderLoop(r)[0] = (IF r.ok THEN Result(<<>>, r.p) ELSE Error)
         /\ \A i \in 1..MaxHeaders : HeaderLoop(r)[i] = HeaderStep(HeaderLoop(r)[i - 1])
<1> DEFINE S == HeaderState
           a == (IF r.ok THEN Result(<<>>, r.p) ELSE Error)
           n == MaxHeaders
           Body(v, i) == HeaderStep(v)
           G(f) == [i \in 0..MaxHeaders |-> IF i = 0 THEN (IF r.ok THEN Result(<<>>, r.p) ELSE Error) ELSE HeaderStep(f[i - 1])]
           h == CHOOSE f : f = G(f)
           step == [x \in S \X Nat |-> IF x[2] \in 1..MaxHeaders THEN Body(x[1], x[2]) ELSE a]
<1>0. HeaderLoop(r) = h
  BY DEF HeaderLoop
<1>1. n \in Nat
  BY MaxHeadersAssumption
<1>2. a \in S
  <2>1. <<>> \in Seq(Text)
    BY EmptySeq
  <2>2. [ok |-> TRUE, value |-> <<>>, p |-> r.p] \in HeaderState
    BY <2>1 DEF HeaderState
  <2> QED
    BY <2>2 DEF Result
<1>3. ASSUME NEW v \in S, NEW i \in 1..MaxHeaders PROVE Body(v, i) \in S
  BY HeaderStepType
<1>b. \A f : G(f) = [i \in 0..MaxHeaders |-> IF i = 0 THEN a ELSE Body(f[i - 1], i)]
  OBVIOUS
<1> HIDE DEF S, a, n, Body, G
<1>2a. step \in [S \X Nat -> S]
  <2>1. \A x \in S \X Nat : (IF x[2] \in 1..MaxHeaders THEN Body(x[1], x[2]) ELSE a) \in S
    BY <1>2, <1>3
  <2> QED
    BY <2>1
<1>3a. \A v \in S, i \in 1..MaxHeaders : step[<<v, i>>] = Body(v, i)
  BY <1>1
<1> HIDE DEF step
<1>4. PICK f \in [0..n -> S] : IsRecursion(f, a, step, 0..n)
  BY <1>1, <1>2, <1>2a, RecursionExists
<1>5. f = G(f)
  <2>1. ASSUME NEW i \in 1..MaxHeaders PROVE f[i] = Body(f[i - 1], i)
    <3>1. i \in (0..n) \ {0} /\ i - 1 \in 0..n /\ f[i - 1] \in S
      BY <1>1 DEF n
    <3>2. f[i] = step[<<f[i - 1], i>>]
      BY <1>4, <3>1 DEF IsRecursion
    <3> QED
      BY <1>3a, <3>1, <3>2
  <2>2. f[0] = a
    BY <1>4 DEF IsRecursion
  <2> DEFINE g == [i \in 0..MaxHeaders |-> IF i = 0 THEN a ELSE Body(f[i - 1], i)]
  <2>3. f = g
    BY <1>1, <2>1, <2>2 DEF n
  <2> HIDE DEF g
  <2>4. g = G(f)
    BY <1>b DEF g
  <2> QED
    BY <2>3, <2>4
<1>6. h = G(h)
  BY <1>5
<1> HIDE DEF h
<1>7. G(h)[0] = a /\ \A i \in 1..MaxHeaders : G(h)[i] = Body(h[i - 1], i)
  BY <1>1, <1>b DEF n
<1>8. h[0] = a /\ \A i \in 1..MaxHeaders : h[i] = Body(h[i - 1], i)
  BY <1>6, <1>7
<1> QED
  BY <1>0, <1>8 DEF a, Body

\* Fields with headers are strings.
LEMMA HeadersBytes ==
  ASSUME NEW headers \in Seq(Text)
  PROVE  LET fields == [i \in 1..Len(headers) |-> Field(HeaderTag, headers[i])] IN
         /\ fields \in Seq(Text) /\ Len(fields) = Len(headers)
         /\ HeaderFields(headers) = Joined(fields) /\ HeaderFields(headers) \in Text
<1> DEFINE fields == [i \in 1..Len(headers) |-> Field(HeaderTag, headers[i])]
<1>1. \A i \in 1..Len(headers) : Field(HeaderTag, headers[i]) \in Text
  BY ElementOfSeq, FieldBytes, HeaderTagIsByte
<1>2. Len(headers) \in Nat /\ fields \in [1..Len(headers) -> Text]
  BY <1>1, LenProperties
<1>3. HeaderFields(headers) = Joined(fields)
  BY DEF HeaderFields
<1> HIDE DEF fields
<1>4. fields \in Seq(Text) /\ Len(fields) = Len(headers)
  BY <1>2, FunctionIsSequence
<1>5. Joined(fields) \in Text
  BY <1>4, JoinedType
<1> QED
  BY <1>3, <1>4, <1>5 DEF fields

\* Strings that are found one after the other.
LEMMA PrefixType ==
  ASSUME NEW pieces \in Seq(Text)
  PROVE  /\ \A i \in 0..Len(pieces) : Prefix(pieces)[i] \in Text
         /\ Prefix(pieces)[0] = <<>>
         /\ \A i \in 1..Len(pieces) : Prefix(pieces)[i] = Prefix(pieces)[i - 1] \o pieces[i]
<1> DEFINE f == Prefix(pieces)
           n == Len(pieces)
           I == {i \in Nat : i <= n => f[i] \in Text}
<1>1. f[0] = <<>> /\ \A i \in 1..n : f[i] = f[i - 1] \o pieces[i]
  BY PrefixLoop
<1>2. n \in Nat
  BY LenProperties
<1> HIDE DEF f, n
<1>3. 0 \in I
  BY <1>1, EmptySeq DEF Text
<1>4. ASSUME NEW i \in Nat, i \in I PROVE i + 1 \in I
  <2> SUFFICES ASSUME i + 1 <= n PROVE f[i + 1] \in Text
    OBVIOUS
  <2>1. i + 1 \in 1..n /\ (i + 1) - 1 = i /\ f[i] \in Text
    BY <1>2, <1>4
  <2>2. pieces[i + 1] \in Text
    BY <2>1, ElementOfSeq DEF n
  <2>3. f[i + 1] = f[i] \o pieces[i + 1]
    BY <1>1, <2>1
  <2> QED
    BY <2>1, <2>2, <2>3, TextJoin
<1>5. Nat \subseteq I
  <2> HIDE DEF I
  <2> QED
    BY <1>3, <1>4, Induction
<1>6. \A i \in 0..n : f[i] \in Text
  BY <1>2, <1>5
<1> QED
  BY <1>1, <1>6 DEF f, n

\* Where strings are found one after the other, so is any number of the first of them.
LEMMA PrefixesAt ==
  ASSUME NEW S \in Text, NEW k, NEW pieces \in Seq(Text), IsAt(S, k, Joined(pieces))
  PROVE  \A i \in 0..Len(pieces) : IsAt(S, k, Prefix(pieces)[i])
<1> DEFINE f == Prefix(pieces)
           n == Len(pieces)
           I == {d \in Nat : d <= n => IsAt(S, k, f[n - d])}
<1>1. (\A i \in 0..n : f[i] \in Text) /\ \A i \in 1..n : f[i] = f[i - 1] \o pieces[i]
  BY PrefixType
<1>2. n \in Nat
  BY LenProperties
<1>3. IsAt(S, k, f[n])
  BY DEF Joined
<1> HIDE DEF f, n
<1>4. 0 \in I
  BY <1>2, <1>3
<1>5. ASSUME NEW d \in Nat, d \in I PROVE d + 1 \in I
  <2> SUFFICES ASSUME d + 1 <= n PROVE IsAt(S, k, f[n - (d + 1)])
    OBVIOUS
  <2>1. n - d \in 1..n /\ (n - d) - 1 = n - (d + 1) /\ n - (d + 1) \in 0..n /\ IsAt(S, k, f[n - d])
    BY <1>2, <1>5
  <2>2. f[n - d] = f[n - (d + 1)] \o pieces[n - d]
    BY <1>1, <2>1
  <2>3. f[n - (d + 1)] \in Text /\ pieces[n - d] \in Text
    BY <1>1, <2>1, ElementOfSeq DEF n
  <2> QED
    BY <2>1, <2>2, <2>3, AtJoin
<1>6. Nat \subseteq I
  <2> HIDE DEF I
  <2> QED
    BY <1>4, <1>5, Induction
<1>7. ASSUME NEW i \in 0..n PROVE IsAt(S, k, f[i])
  <2>1. n - i \in Nat /\ n - i <= n /\ n - (n - i) = i
    BY <1>2
  <2>2. IsAt(S, k, f[n - (n - i)])
    BY <1>6, <2>1
  <2> QED
    BY <2>1, <2>2
<1> QED
  BY <1>7 DEF f, n

\* The first headers, and one more.
LEMMA OneMore ==
  ASSUME NEW headers \in Seq(Text), NEW i \in Nat, i + 1 <= Len(headers)
  PROVE  Append(SubSeq(headers, 1, i), headers[i + 1]) = SubSeq(headers, 1, i + 1)
<1> DEFINE u == SubSeq(headers, 1, i)
           w == SubSeq(headers, 1, i + 1)
           x == Append(u, headers[i + 1])
<1>1. Len(headers) \in Nat /\ i + 1 \in 1..Len(headers) /\ \A j \in 1..Len(headers) : headers[j] \in Text
  BY LenProperties, ElementOfSeq
<1>2. /\ u \in Seq(Text) /\ Len(u) = IF 1 <= i THEN i - 1 + 1 ELSE 0
      /\ \A j \in 1..(i - 1 + 1) : u[j] = headers[1 + j - 1]
  <2>1. \A j \in 1..i : headers[j] \in Text
    BY <1>1
  <2> QED
    BY <2>1, SubSeqProperties
<1>3. /\ w \in Seq(Text) /\ Len(w) = IF 1 <= i + 1 THEN (i + 1) - 1 + 1 ELSE 0
      /\ \A j \in 1..((i + 1) - 1 + 1) : w[j] = headers[1 + j - 1]
  <2>1. \A j \in 1..(i + 1) : headers[j] \in Text
    BY <1>1
  <2> QED
    BY <2>1, SubSeqProperties
<1> HIDE DEF u, w
<1>4. Len(u) = i /\ (\A j \in 1..i : u[j] = headers[j])
      /\ Len(w) = i + 1 /\ \A j \in 1..(i + 1) : w[j] = headers[j]
  BY <1>2, <1>3
<1>5. /\ x \in Seq(Text) /\ Len(x) = i + 1 /\ (\A j \in 1..i : x[j] = u[j])
      /\ x[i + 1] = headers[i + 1]
  BY <1>1, <1>2, <1>4, AppendProperties
<1> HIDE DEF x
<1>6. \A j \in 1..Len(x) : x[j] = w[j]
  <2>1. ASSUME NEW j \in 1..Len(x) PROVE x[j] = w[j]
    <3>1. j \in 1..(i + 1) /\ (j \in 1..i \/ j = i + 1)
      BY <1>5
    <3> QED
      BY <1>4, <1>5, <3>1
  <2> QED
    BY <2>1
<1>7. x = w
  BY <1>3, <1>4, <1>5, <1>6, SeqEqual
<1> QED
  BY <1>7 DEF x, u, w

\* The loop over headers finds all of them.
LEMMA HeadersParsed ==
  ASSUME NEW S \in Text, FitsInt(Len(S)), NEW r, NEW v, NEW k, IsResult(r, v, S, k),
         NEW headers \in Seq(Text), Len(headers) <= MaxHeaders,
         IsAt(S, k, HeaderFields(headers)), k + Len(HeaderFields(headers)) = Len(S)
  PROVE  ParseHeaders(r).ok = TRUE /\ ParseHeaders(r).value = headers
<1> DEFINE fields == [i \in 1..Len(headers) |-> Field(HeaderTag, headers[i])]
           n == Len(headers)
           f == HeaderLoop(r)
           g == Prefix(fields)
           Good(i) == IsResult(f[i], SubSeq(headers, 1, i), S, k + Len(g[i]))
           I == {i \in Nat : i <= n => Good(i)}
           J == {i \in Nat : n + i <= MaxHeaders => f[n + i] = f[n]}
<1>0. r.ok = TRUE /\ IsView(r.p, S, k) /\ r.p \in Parser /\ k \in Nat /\ n \in Nat
      /\ MaxHeaders \in Nat /\ Len(S) \in Nat
  BY MaxHeadersAssumption, TextParts, LenProperties DEF IsResult, IsView, IsAt
<1>1. f[0] = Result(<<>>, r.p) /\ \A i \in 1..MaxHeaders : f[i] = HeaderStep(f[i - 1])
  BY <1>0, HeaderPasses
<1>2. fields \in Seq(Text) /\ Len(fields) = n /\ HeaderFields(headers) = Joined(fields)
  BY HeadersBytes
<1>3. \A i \in 1..n : fields[i] = Field(HeaderTag, headers[i]) /\ headers[i] \in Text
  BY ElementOfSeq
<1> HIDE DEF fields
<1>4. /\ \A i \in 0..n : g[i] \in Text
      /\ g[0] = <<>> /\ \A i \in 1..n : g[i] = g[i - 1] \o fields[i]
  BY <1>2, PrefixType
<1>5. \A i \in 0..n : IsAt(S, k, g[i])
  BY <1>2, PrefixesAt
<1>6. g[n] = HeaderFields(headers)
  BY <1>2 DEF Joined
<1> HIDE DEF f, n, g
<1>7. Good(0)
  <2>1. f[0] = [ok |-> TRUE, value |-> <<>>, p |-> r.p]
    BY <1>1 DEF Result
  <2>2. f[0].ok = TRUE /\ f[0].value = <<>> /\ f[0].p = r.p
    BY <2>1
  <2>3. SubSeq(headers, 1, 0) = <<>>
    BY SubSeqEmpty
  <2>4. k + Len(g[0]) = k
    BY <1>0, <1>4, EmptySeq
  <2> QED
    BY <1>0, <2>2, <2>3, <2>4 DEF IsResult
<1>8. ASSUME NEW i \in Nat, i + 1 <= n, Good(i) PROVE Good(i + 1)
  <2> DEFINE s == f[i]
             l == k + Len(g[i])
             t == headers[i + 1]
             field == Field(HeaderTag, t)
             h == Expect(s, HeaderTag, ParseString)
  <2>1. i + 1 \in 1..MaxHeaders /\ (i + 1) - 1 = i /\ i + 1 \in 1..n /\ i \in 0..n /\ i + 1 \in 0..n
    BY <1>0, <1>8 DEF n
  <2>2. f[i + 1] = HeaderStep(s)
    BY <1>1, <2>1
  <2>3. t \in Text /\ g[i] \in Text /\ g[i + 1] = g[i] \o field /\ IsAt(S, k, g[i + 1])
    BY <1>3, <1>4, <1>5, <2>1
  <2>4. field \in Text /\ Len(field) = 1 + Len(ProtoString(t)) /\ Len(ProtoString(t)) \in Nat
    BY <2>3, FieldBytes, StringBytes, TextParts, HeaderTagIsByte
  <2>5. IsResult(s, SubSeq(headers, 1, i), S, l)
    BY <1>8
  <2>6. IsAt(S, l, field)
    <3> HIDE DEF field
    <3> QED
      BY <2>3, <2>4, AtJoin
  <2>7. l + Len(field) = k + Len(g[i + 1])
    <3> HIDE DEF field
    <3> DEFINE u == g[i]
    <3>1. u \in Text /\ field \in Text /\ g[i + 1] = u \o field
      BY <2>3, <2>4
    <3> HIDE DEF u
    <3>2. Len(u \o field) = Len(u) + Len(field) /\ Len(u) \in Nat /\ Len(field) \in Nat
      BY <3>1, TextJoin, TextParts
    <3> QED
      BY <1>0, <3>1, <3>2 DEF u
  <2> HIDE DEF s, l
  <2>8. s.ok = TRUE /\ s.value = SubSeq(headers, 1, i) /\ IsView(s.p, S, l)
    BY <2>5 DEF IsResult
  <2>9. ~ ParseDone(s.p)
    <3>1. l \in Nat /\ l + Len(field) <= Len(S)
      BY <2>6 DEF IsAt
    <3>2. l # Len(S)
      BY <1>0, <2>4, <3>1
    <3> QED
      BY <2>8, <3>2, ViewDone
  <2>10. IsResult(h, t, S, l + Len(field))
    BY <2>3, <2>5, <2>6, StringExpected, HeaderTagIsByte
  <2>11. h.ok = TRUE /\ h.value = t /\ IsView(h.p, S, l + Len(field))
    BY <2>10 DEF IsResult
  <2>12. f[i + 1] = Result(Append(s.value, h.value), h.p)
    BY <2>2, <2>8, <2>9, <2>11 DEF HeaderStep, WithHeader
  <2>13. f[i + 1] = [ok |-> TRUE, value |-> Append(s.value, h.value), p |-> h.p]
    BY <2>12 DEF Result
  <2> HIDE DEF h
  <2>14. f[i + 1].ok = TRUE /\ f[i + 1].value = Append(s.value, h.value) /\ f[i + 1].p = h.p
    BY <2>13
  <2>15. Append(s.value, h.value) = SubSeq(headers, 1, i + 1)
    BY <1>8, <2>8, <2>11, OneMore DEF n
  <2> HIDE DEF field
  <2>16. IsView(f[i + 1].p, S, k + Len(g[i + 1]))
    BY <2>7, <2>11, <2>14
  <2> QED
    BY <2>14, <2>15, <2>16 DEF IsResult
<1> HIDE DEF Good
<1>9. 0 \in I
  BY <1>7
<1>10. ASSUME NEW i \in Nat, i \in I PROVE i + 1 \in I
  <2>1. i + 1 <= n => i <= n
    BY <1>0
  <2> QED
    BY <1>8, <1>10, <2>1
<1>11. Nat \subseteq I
  <2> HIDE DEF I
  <2> QED
    BY <1>9, <1>10, Induction
<1>12. f[n].ok = TRUE /\ f[n].value = headers /\ ParseDone(f[n].p)
  <2>1. Good(n)
    BY <1>0, <1>11
  <2>2. IsResult(f[n], headers, S, Len(S))
    <3>1. SubSeq(headers, 1, n) = headers
      BY SubSeqFull DEF n
    <3> QED
      BY <1>6, <2>1, <3>1 DEF Good
  <2> QED
    BY <2>2, ViewDone DEF IsResult
<1>13. 0 \in J
  BY <1>0
<1>14. ASSUME NEW i \in Nat, i \in J PROVE i + 1 \in J
  <2> SUFFICES ASSUME n + (i + 1) <= MaxHeaders PROVE f[n + (i + 1)] = f[n]
    OBVIOUS
  <2> DEFINE j == n + (i + 1)
  <2>1. j \in 1..MaxHeaders /\ j - 1 = n + i /\ n + i <= MaxHeaders
    BY <1>0
  <2>2. f[n + i] = f[n]
    BY <1>14, <2>1
  <2> HIDE DEF j
  <2>3. f[j] = HeaderStep(f[n])
    BY <1>1, <2>1, <2>2
  <2>4. f[j] = f[n]
    BY <1>12, <2>3 DEF HeaderStep, WithHeader
  <2> QED
    BY <2>4 DEF j
<1>15. Nat \subseteq J
  <2> HIDE DEF J
  <2> QED
    BY <1>13, <1>14, Induction
<1>16. f[MaxHeaders] = f[n]
  <2> DEFINE d == MaxHeaders - n
  <2>1. d \in Nat /\ n + d = MaxHeaders
    BY <1>0 DEF n
  <2> HIDE DEF d
  <2>2. d \in J
    BY <1>15, <2>1
  <2>3. f[n + d] = f[n]
    BY <1>0, <2>1, <2>2
  <2> QED
    BY <2>1, <2>3
<1>17. ParseHeaders(r) = f[n]
  BY <1>12, <1>16 DEF ParseHeaders, f
<1> QED
  BY <1>12, <1>17

(***************************************************************************)
(* Protocol buffers: messages                                              *)
(***************************************************************************)

\* Five strings, one after the other.
AreAt(S, A, B, C, D, E, k1, k2, k3, k4) ==
  /\ S \in Text
  /\ IsAt(S, 0, A) /\ IsAt(S, k1, B) /\ IsAt(S, k2, C) /\ IsAt(S, k3, D) /\ IsAt(S, k4, E)
  /\ k4 + Len(E) = Len(S)

\* Strings that are joined are found each where the one before it ends.
LEMMA FiveAt ==
  ASSUME NEW A \in Text, NEW B \in Text, NEW C \in Text, NEW D \in Text, NEW E \in Text,
         NEW S, S = A \o B \o C \o D \o E,
         NEW k1, k1 = 0 + Len(A), NEW k2, k2 = k1 + Len(B),
         NEW k3, k3 = k2 + Len(C), NEW k4, k4 = k3 + Len(D)
  PROVE  AreAt(S, A, B, C, D, E, k1, k2, k3, k4)
<1> DEFINE AB == A \o B
           ABC == AB \o C
           ABCD == ABC \o D
<1>1. AB \in Text /\ Len(AB) = Len(A) + Len(B)
  BY TextJoin
<1>2. ABC \in Text /\ Len(ABC) = Len(AB) + Len(C)
  <2> HIDE DEF AB
  <2> QED
    BY <1>1, TextJoin
<1>3. ABCD \in Text /\ Len(ABCD) = Len(ABC) + Len(D)
  <2> HIDE DEF ABC
  <2> QED
    BY <1>2, TextJoin
<1>4. S = ABCD \o E
  OBVIOUS
<1> HIDE DEF ABCD
<1>5. S \in Text /\ Len(S) = Len(ABCD) + Len(E)
  BY <1>3, <1>4, TextJoin
<1>6. IsAt(S, 0, ABCD) /\ IsAt(S, 0 + Len(ABCD), E)
  <2>1. IsAt(S, 0, ABCD \o E)
    BY <1>4, <1>5, AtStart
  <2> QED
    BY <1>3, <1>5, <2>1, AtJoin
<1>7. IsAt(S, 0, ABC) /\ IsAt(S, 0 + Len(ABC), D)
  <2>1. IsAt(S, 0, ABC \o D)
    BY <1>6 DEF ABCD
  <2> HIDE DEF ABC
  <2> QED
    BY <1>2, <1>5, <2>1, AtJoin
<1>8. IsAt(S, 0, AB) /\ IsAt(S, 0 + Len(AB), C)
  <2>1. IsAt(S, 0, AB \o C)
    BY <1>7
  <2> HIDE DEF AB
  <2> QED
    BY <1>1, <1>5, <2>1, AtJoin
<1>9. IsAt(S, 0, A) /\ IsAt(S, 0 + Len(A), B)
  BY <1>5, <1>8, AtJoin
<1> HIDE DEF AB, ABC
<1>10. Len(A) \in Nat /\ Len(B) \in Nat /\ Len(C) \in Nat /\ Len(D) \in Nat /\ Len(E) \in Nat
  BY TextParts
<1>11. k2 = 0 + Len(AB) /\ k3 = 0 + Len(ABC) /\ k4 = 0 + Len(ABCD) /\ k4 + Len(E) = Len(S)
  BY <1>1, <1>2, <1>3, <1>5, <1>10
<1> QED
  BY <1>5, <1>6, <1>7, <1>8, <1>9, <1>11 DEF AreAt

\* A number with less than 8 bits is one byte.
LEMMA SmallParsed ==
  ASSUME NEW S \in Text, NEW k, NEW p, IsView(p, S, k),
         NEW bits \in SUBSET (0..6), IsAt(S, k, <<bits>>)
  PROVE  /\ ParseInt(p).ok /\ ParseInt(p).value = bits /\ IsView(ParseInt(p).p, S, k + 1)
<1>1. bits \in SUBSET (0..(IntBits - 1)) /\ IntBits \in {32, 64}
  BY IntBitsAssumption
<1>2. ShiftRight(bits, 7 * 0) = bits
  <2>1. \A b \in 0..63 : b + 7 * 0 = b
    OBVIOUS
  <2>2. bits \subseteq 0..63
    OBVIOUS
  <2> QED
    BY <2>1, <2>2 DEF ShiftRight
<1>3. Groups(bits, 0) \in Text /\ Len(Groups(bits, 0)) = 1 /\ Groups(bits, 0)[1] = bits
  <2>1. ShiftRight(bits, 7 * 0) \subseteq 0..6
    BY <1>2
  <2>2. /\ Groups(bits, 0) \in Text /\ Len(Groups(bits, 0)) = 0 + 1
        /\ Groups(bits, 0)[0 + 1] = ShiftRight(bits, 7 * 0)
    BY <2>1, GroupsType
  <2> QED
    BY <1>2, <2>2
<1>4. Groups(bits, 0) = <<bits>>
  <2> DEFINE one == <<bits>>
             g == Groups(bits, 0)
  <2>1. one \in Seq(Byte) /\ Len(one) = 1 /\ one[1] = bits
    BY DEF Byte
  <2>2. g \in Seq(Byte) /\ Len(g) = 1 /\ g[1] = bits
    BY <1>3 DEF Text
  <2> HIDE DEF one, g
  <2>3. \A i \in 1..Len(g) : g[i] = one[i]
    <3>1. \A i \in 1..Len(g) : i = 1
      BY <2>2
    <3> QED
      BY <2>1, <2>2, <3>1
  <2>4. g = one
    BY <2>1, <2>2, <2>3, SeqEqual
  <2> QED
    BY <2>4 DEF g, one
<1>5. IsAt(S, k, Groups(bits, 0)) /\ 0 \in 0..9 /\ ShiftRight(bits, 7 * 0) \subseteq 0..6
  <2>1. IsAt(S, k, Groups(bits, 0))
    BY <1>4, Zenon
  <2>2. ShiftRight(bits, 7 * 0) \subseteq 0..6
    BY <1>2
  <2> QED
    BY <2>1, <2>2
<1>6. /\ ParseGroups(p, IntBits).ok /\ ParseGroups(p, IntBits).value = bits
      /\ IsView(ParseGroups(p, IntBits).p, S, k + (0 + 1))
  BY <1>1, <1>5, GroupsParsed
<1> QED
  BY <1>6 DEF ParseInt

\* What is next where headers begin.
LEMMA HeadersNext ==
  ASSUME NEW S \in Text, NEW k, NEW p, IsView(p, S, k), NEW headers \in Seq(Text),
         IsAt(S, k, HeaderFields(headers)), k + Len(HeaderFields(headers)) = Len(S)
  PROVE  ParseByte(p).value \in {HeaderTag, MinusOne}
<1> DEFINE fields == [i \in 1..Len(headers) |-> Field(HeaderTag, headers[i])]
           n == Len(headers)
<1>1. fields \in Seq(Text) /\ Len(fields) = n /\ HeaderFields(headers) = Joined(fields)
  BY HeadersBytes
<1>2. n \in Nat /\ k \in Nat
  BY LenProperties DEF IsAt
<1>3. \A i \in 1..n : fields[i] = Field(HeaderTag, headers[i]) /\ headers[i] \in Text
  BY ElementOfSeq
<1> HIDE DEF fields, n
<1>4. /\ Prefix(fields)[0] = <<>>
      /\ \A i \in 1..n : Prefix(fields)[i] = Prefix(fields)[i - 1] \o fields[i]
      /\ \A i \in 0..n : IsAt(S, k, Prefix(fields)[i])
  BY <1>1, PrefixType, PrefixesAt
<1>5. CASE n = 0
  <2>1. HeaderFields(headers) = <<>>
    BY <1>1, <1>4, <1>5 DEF Joined
  <2>2. k = Len(S)
    BY <1>2, <2>1, EmptySeq
  <2> QED
    BY <2>2, ViewEnd
<1>6. CASE n # 0
  <2> DEFINE s == ProtoString(headers[1])
  <2>1. 1 \in 1..n /\ 1 \in 0..n /\ 1 - 1 = 0
    BY <1>2, <1>6
  <2>2. headers[1] \in Text /\ fields[1] = <<HeaderTag>> \o s /\ s \in Text
    BY <1>3, <2>1, StringBytes DEF Field
  <2> HIDE DEF s
  <2>3. <<HeaderTag>> \o s \in Text
    BY <2>2, OneByte, TextJoin, HeaderTagIsByte
  <2>4. Prefix(fields)[1] = <<>> \o (<<HeaderTag>> \o s)
    BY <1>4, <2>1, <2>2
  <2>5. Prefix(fields)[1] = <<HeaderTag>> \o s
    BY <2>3, <2>4, ConcatEmptySeq DEF Text
  <2>6. IsAt(S, k, <<HeaderTag>> \o s)
    BY <1>4, <2>1, <2>5
  <2>7. IsAt(S, k, <<HeaderTag>>)
    BY <2>2, <2>6, TagAt, HeaderTagIsByte
  <2>8. ParseByte(p).value = HeaderTag
    BY <2>7, ByteParsed, HeaderTagIsByte
  <2> QED
    BY <2>8
<1> QED
  BY <1>5, <1>6

\* Tags are bytes.
LEMMA TagsAreBytes ==
  /\ MessageType \in Byte /\ RequestType \in Byte /\ ResponseType \in Byte
  /\ RequestTag \in Byte /\ ResponseTag \in Byte /\ VerbTag \in Byte /\ PathTag \in Byte
  /\ RequestBodyTag \in Byte /\ RequestIdTag \in Byte /\ ResponseIdTag \in Byte
  /\ CodeTag \in Byte /\ CommentTag \in Byte /\ ResponseBodyTag \in Byte
BY DEF MessageType, RequestType, ResponseType, RequestTag, ResponseTag, VerbTag, PathTag,
       RequestBodyTag, RequestIdTag, ResponseIdTag, CodeTag, CommentTag, ResponseBodyTag, Byte

\* wsReceiveRequest() finds what wsRequest() was given.
LEMMA RequestParsed ==
  ASSUME NEW m \in RequestMessage, Len(m.headers) <= MaxHeaders, FitsInt(Len(RequestBytes(m))),
         NEW chunks, IsView(Start(chunks), RequestBytes(m), 0)
  PROVE  WsReceiveRequest(chunks) = m
<1> DEFINE S == RequestBytes(m)
           A == Field(VerbTag, m.verb)
           B == Field(PathTag, m.path)
           C == OptField(RequestBodyTag, m.body)
           D == AsnField(RequestIdTag, m.context)
           E == HeaderFields(m.headers)
           start == Result({}, Start(chunks))
           verb == Expect(start, VerbTag, ParseString)
           path == Expect(verb, PathTag, ParseString)
           body == Optional(path, RequestBodyTag)
           context == Expect(body, RequestIdTag, ParseAsn)
           headers == ParseHeaders(context)
<1>1. /\ m.type = "request" /\ m.verb \in Text /\ m.path \in Text /\ m.body \in Optionally
      /\ m.context \in SUBSET (0..63) /\ m.headers \in Seq(Text)
      /\ m = [type |-> m.type, verb |-> m.verb, path |-> m.path, body |-> m.body,
              context |-> m.context, headers |-> m.headers]
  BY DEF RequestMessage
<1>2. A \in Text /\ B \in Text /\ C \in Text /\ E \in Text
  BY <1>1, FieldBytes, BodyBytes, HeadersBytes, TagsAreBytes
<1>3. D \in Text
  BY <1>1, OneByte, AsnType, TextJoin, TagsAreBytes DEF AsnField
<1>4. S = A \o B \o C \o D \o E
  BY DEF RequestBytes
<1> HIDE DEF S, A, B, C, D, E
<1> DEFINE k1 == 0 + Len(A)
           k2 == k1 + Len(B)
           k3 == k2 + Len(C)
           k4 == k3 + Len(D)
<1>4a. k1 = 0 + Len(A) /\ k2 = k1 + Len(B) /\ k3 = k2 + Len(C) /\ k4 = k3 + Len(D)
  OBVIOUS
<1> HIDE DEF k1, k2, k3, k4
<1>5. /\ S \in Text
      /\ IsAt(S, 0, A) /\ IsAt(S, k1, B) /\ IsAt(S, k2, C) /\ IsAt(S, k3, D) /\ IsAt(S, k4, E)
      /\ k4 + Len(E) = Len(S)
  <2>1. AreAt(S, A, B, C, D, E, k1, k2, k3, k4)
    BY <1>2, <1>3, <1>4, <1>4a, FiveAt
  <2> QED
    BY <2>1 DEF AreAt
<1>6. FitsInt(Len(S)) /\ IsView(Start(chunks), S, 0)
  BY DEF S
<1>7. IsResult(start, {}, S, 0)
  BY <1>6 DEF IsResult, Result
<1> HIDE DEF start
<1>8. IsResult(verb, m.verb, S, k1)
  BY <1>1, <1>5, <1>6, <1>7, StringExpected, TagsAreBytes, <1>4a DEF A
<1> HIDE DEF verb
<1>9. IsResult(path, m.path, S, k2)
  BY <1>1, <1>5, <1>6, <1>8, StringExpected, TagsAreBytes, <1>4a DEF B
<1> HIDE DEF path
<1>10. IsResult(body, m.body, S, k3)
  <2>1. ASSUME m.body = <<>> PROVE ParseByte(path.p).value # RequestBodyTag
    <3>1. Len(C) = 0 /\ k2 \in Nat
      BY <1>5, <2>1, EmptySeq DEF C, OptField, IsAt
    <3>2. IsAt(S, k2, D)
      BY <1>4a, <1>5, <3>1
    <3>3. IsAt(S, k2, <<RequestIdTag>> \o ProtoAsn(m.context, 8))
      BY <3>2 DEF D, AsnField
    <3>4. IsAt(S, k2, <<RequestIdTag>>)
      BY <1>1, <1>5, <3>3, TagAt, AsnType, TagsAreBytes
    <3>5. ParseByte(path.p).value = RequestIdTag
      BY <1>5, <1>9, <3>4, ByteParsed, TagsAreBytes DEF IsResult
    <3>6. 5 \in RequestIdTag /\ 5 \notin RequestBodyTag
      BY DEF RequestIdTag, RequestBodyTag
    <3> QED
      BY <3>5, <3>6
  <2> QED
    BY <1>1, <1>5, <1>6, <1>9, <2>1, BodyParsed, TagsAreBytes, <1>4a DEF C
<1> HIDE DEF body
<1>11. IsResult(context, m.context, S, k4)
  BY <1>1, <1>5, <1>6, <1>10, AsnExpected, TagsAreBytes, <1>4a DEF D
<1> HIDE DEF context
<1>12. headers.ok = TRUE /\ headers.value = m.headers
  BY <1>1, <1>5, <1>6, <1>11, HeadersParsed DEF E
<1> HIDE DEF headers
<1>13. verb.value = m.verb /\ path.value = m.path /\ body.value = m.body
       /\ context.value = m.context
  BY <1>8, <1>9, <1>10, <1>11 DEF IsResult
<1>14. WsReceiveRequest(chunks)
         = [type |-> "request", verb |-> verb.value, path |-> path.value, body |-> body.value,
            context |-> context.value, headers |-> headers.value]
  BY <1>12 DEF WsReceiveRequest, headers, context, body, path, verb, start
<1> QED
  BY <1>1, <1>12, <1>13, <1>14

\* wsReceiveResponse() finds what wsResponse() was given.
LEMMA ResponseParsed ==
  ASSUME NEW m \in ResponseMessage, Len(m.headers) <= MaxHeaders, FitsInt(Len(ResponseBytes(m))),
         NEW chunks, IsView(Start(chunks), ResponseBytes(m), 0)
  PROVE  WsReceiveResponse(chunks) = m
<1> DEFINE S == ResponseBytes(m)
           A == AsnField(ResponseIdTag, m.context)
           B == IntField(CodeTag, m.code)
           C == Field(CommentTag, m.comment)
           D == OptField(ResponseBodyTag, m.body)
           E == HeaderFields(m.headers)
           start == Result({}, Start(chunks))
           context == Expect(start, ResponseIdTag, ParseAsn)
           code == Expect(context, CodeTag, ParseInt)
           comment == Expect(code, CommentTag, ParseString)
           body == Optional(comment, ResponseBodyTag)
           headers == ParseHeaders(body)
<1>1. /\ m.type = "response" /\ m.context \in SUBSET (0..63)
      /\ m.code \in SUBSET (0..(IntBits - 1)) /\ m.comment \in Text /\ m.body \in Optionally
      /\ m.headers \in Seq(Text)
      /\ m = [type |-> m.type, context |-> m.context, code |-> m.code, comment |-> m.comment,
              body |-> m.body, headers |-> m.headers]
  BY DEF ResponseMessage
<1>2. A \in Text
  BY <1>1, OneByte, AsnType, TextJoin, TagsAreBytes DEF AsnField
<1>3. B \in Text
  BY <1>1, OneByte, IntType, TextJoin, TagsAreBytes DEF IntField
<1>3a. C \in Text /\ D \in Text /\ E \in Text
  BY <1>1, FieldBytes, BodyBytes, HeadersBytes, TagsAreBytes
<1>4. S = A \o B \o C \o D \o E
  BY DEF ResponseBytes
<1> HIDE DEF S, A, B, C, D, E
<1> DEFINE k1 == 0 + Len(A)
           k2 == k1 + Len(B)
           k3 == k2 + Len(C)
           k4 == k3 + Len(D)
<1>4a. k1 = 0 + Len(A) /\ k2 = k1 + Len(B) /\ k3 = k2 + Len(C) /\ k4 = k3 + Len(D)
  OBVIOUS
<1> HIDE DEF k1, k2, k3, k4
<1>5. /\ S \in Text
      /\ IsAt(S, 0, A) /\ IsAt(S, k1, B) /\ IsAt(S, k2, C) /\ IsAt(S, k3, D) /\ IsAt(S, k4, E)
      /\ k4 + Len(E) = Len(S)
  <2>1. AreAt(S, A, B, C, D, E, k1, k2, k3, k4)
    BY <1>2, <1>3, <1>3a, <1>4, <1>4a, FiveAt
  <2> QED
    BY <2>1 DEF AreAt
<1>6. FitsInt(Len(S)) /\ IsView(Start(chunks), S, 0)
  BY DEF S
<1>7. IsResult(start, {}, S, 0)
  BY <1>6 DEF IsResult, Result
<1> HIDE DEF start
<1>8. IsResult(context, m.context, S, k1)
  BY <1>1, <1>5, <1>6, <1>7, AsnExpected, TagsAreBytes, <1>4a DEF A
<1> HIDE DEF context
<1>9. IsResult(code, m.code, S, k2)
  BY <1>1, <1>5, <1>6, <1>8, IntExpected, TagsAreBytes, <1>4a DEF B
<1> HIDE DEF code
<1>10. IsResult(comment, m.comment, S, k3)
  BY <1>1, <1>5, <1>6, <1>9, StringExpected, TagsAreBytes, <1>4a DEF C
<1> HIDE DEF comment
<1>11. IsResult(body, m.body, S, k4)
  <2>1. ASSUME m.body = <<>> PROVE ParseByte(comment.p).value # ResponseBodyTag
    <3>1. Len(D) = 0 /\ k3 \in Nat
      BY <1>5, <2>1, EmptySeq DEF D, OptField, IsAt
    <3>2. IsAt(S, k3, E) /\ k3 + Len(E) = Len(S)
      BY <1>4a, <1>5, <3>1
    <3>3. ParseByte(comment.p).value \in {HeaderTag, MinusOne}
      BY <1>1, <1>5, <1>10, <3>2, HeadersNext DEF IsResult, E
    <3>4. 3 \in HeaderTag /\ 3 \in MinusOne /\ 3 \notin ResponseBodyTag
      BY IntBitsAssumption DEF HeaderTag, MinusOne, ResponseBodyTag
    <3> QED
      BY <3>3, <3>4
  <2> QED
    BY <1>1, <1>5, <1>6, <1>10, <2>1, BodyParsed, TagsAreBytes, <1>4a DEF D
<1> HIDE DEF body
<1>12. headers.ok = TRUE /\ headers.value = m.headers
  BY <1>1, <1>5, <1>6, <1>11, HeadersParsed DEF E
<1> HIDE DEF headers
<1>13. context.value = m.context /\ code.value = m.code /\ comment.value = m.comment
       /\ body.value = m.body
  BY <1>8, <1>9, <1>10, <1>11 DEF IsResult
<1>14. WsReceiveResponse(chunks)
         = [type |-> "response", context |-> context.value, code |-> code.value,
            comment |-> comment.value, body |-> body.value, headers |-> headers.value]
  BY <1>12 DEF WsReceiveResponse, headers, body, comment, code, context, start
<1> QED
  BY <1>1, <1>12, <1>13, <1>14

\* Two bytes.
LEMMA TwoBytes ==
  ASSUME NEW c \in Byte, NEW d \in Byte
  PROVE  /\ <<c, d>> \in Text /\ Len(<<c, d>>) = 2
         /\ <<c, d>>[1] = c /\ <<c, d>>[2] = d
BY DEF Text

\* Two bytes are found one after the other.
LEMMA TwoBytesAt ==
  ASSUME NEW S \in Text, NEW c \in Byte, NEW d \in Byte, IsAt(S, 0, <<c, d>>)
  PROVE  IsAt(S, 0, <<c>>) /\ IsAt(S, 1, <<d>>)
<1> DEFINE t == <<c, d>>
           u == <<c>>
           w == <<d>>
<1>1. IsAt(S, 0, t) /\ Len(t) = 2 /\ t[1] = c /\ t[2] = d
  BY TwoBytes
<1>2. u \in Text /\ Len(u) = 1 /\ u[1] = c /\ w \in Text /\ Len(w) = 1 /\ w[1] = d
  BY OneByte
<1>3. Len(S) \in Nat
  BY TextParts
<1> HIDE DEF t, u, w
<1>4. 0 + 2 <= Len(S) /\ \A i \in 1..2 : S[0 + i] = t[i]
  BY <1>1 DEF IsAt
<1>5. S[1] = c /\ S[2] = d /\ 2 <= Len(S)
  <2>1. 1 \in 1..2 /\ 2 \in 1..2 /\ 0 + 1 = 1 /\ 0 + 2 = 2
    OBVIOUS
  <2> QED
    BY <1>1, <1>4, <2>1
<1>6. \A i \in 1..1 : i = 1 /\ 0 + i = 1 /\ 1 + i = 2
  OBVIOUS
<1>7. IsAt(S, 0, u)
  BY <1>2, <1>3, <1>5, <1>6 DEF IsAt
<1>8. IsAt(S, 1, w)
  BY <1>2, <1>3, <1>5, <1>6 DEF IsAt
<1> QED
  BY <1>7, <1>8 DEF u, w

\* A message in a message.
Around(kind, tag, t) == <<MessageType, kind>> \o Field(tag, t)

\* What _receiveWsChunk() finds around a message: its kind, and the message in pieces.
Finds(chunks, kind, tag, t) ==
  LET type == Expect(Result({}, Start(chunks)), MessageType, ParseInt) IN
  /\ type.ok /\ type.value = kind
  /\ Expect(type, tag, ParseStrbuf).ok = TRUE
  /\ IsView(Start(Expect(type, tag, ParseStrbuf).value), t, 0)
  /\ FitsInt(Len(t))

\* It finds the message that was put there.
LEMMA MessageParsed ==
  ASSUME NEW kind \in {RequestType, ResponseType}, NEW tag \in Byte, NEW t \in Text,
         NEW chunks, IsView(Start(chunks), Around(kind, tag, t), 0),
         FitsInt(Len(Around(kind, tag, t)))
  PROVE  Finds(chunks, kind, tag, t)
<1> DEFINE type == Expect(Result({}, Start(chunks)), MessageType, ParseInt)
           S == Around(kind, tag, t)
           front == <<MessageType, kind>>
           field == Field(tag, t)
           r == Result({}, Start(chunks))
           p == ParseByte(r.p).p
           q == ParseInt(p)
<1>1. kind \in Byte /\ kind \in SUBSET (0..6) /\ MessageType \in Byte
  <2>1. RequestType \in SUBSET (0..6) /\ ResponseType \in SUBSET (0..6)
    BY DEF RequestType, ResponseType
  <2>2. kind = RequestType \/ kind = ResponseType
    OBVIOUS
  <2> QED
    BY <2>1, <2>2, TagsAreBytes
<1>2. front \in Text /\ Len(front) = 2
  BY <1>1, TwoBytes
<1>3. field \in Text /\ Len(field) = 1 + Len(ProtoString(t))
      /\ Len(ProtoString(t)) = Len(ProtoInt(BitsOf(Len(t)))) + Len(t)
      /\ Len(t) \in Nat /\ Len(ProtoInt(BitsOf(Len(t)))) \in Nat
  BY FieldBytes, StringBytes, TextParts
<1>4. S = front \o field
  BY DEF Around
<1>4a. IsView(Start(chunks), S, 0) /\ FitsInt(Len(S))
  OBVIOUS
<1> HIDE DEF field, S
<1>5. IsAt(S, 0, front) /\ IsAt(S, 2, field) /\ S \in Text /\ Len(S) = 2 + Len(field)
  <2> HIDE DEF front
  <2>0. S \in Text /\ Len(S) = Len(front) + Len(field)
    BY <1>2, <1>3, <1>4, TextJoin
  <2>1. S \in Text /\ Len(S) = 2 + Len(field)
    BY <1>2, <2>0
  <2>2. IsAt(S, 0, front \o field)
    BY <1>4, <2>1, AtStart
  <2>3. IsAt(S, 0, front) /\ IsAt(S, 0 + Len(front), field)
    BY <1>2, <1>3, <2>1, <2>2, AtJoin
  <2> QED
    BY <1>2, <2>1, <2>3
<1>6. FitsInt(Len(t))
  <2>1. Len(t) <= Len(S) /\ Len(S) \in Nat
    BY <1>3, <1>5
  <2> QED
    BY <1>3, <1>4a, <2>1, ShorterFits
<1>7. IsAt(S, 0, <<MessageType>>) /\ IsAt(S, 1, <<kind>>)
  BY <1>1, <1>5, TwoBytesAt
<1>8. r.ok = TRUE /\ IsView(r.p, S, 0)
  BY <1>4a DEF Result
<1> HIDE DEF r
<1>9. ParseByte(r.p).value = MessageType /\ IsView(p, S, 1)
  <2>1. ParseByte(r.p).value = MessageType /\ IsView(p, S, 0 + 1)
    BY <1>1, <1>5, <1>7, <1>8, ByteParsed
  <2> QED
    BY <2>1
<1>10. type = q
  BY <1>8, <1>9 DEF Expect, r
<1> HIDE DEF p, type
<1>11. q.ok /\ q.value = kind /\ IsView(q.p, S, 2)
  <2>1. q.ok /\ q.value = kind /\ IsView(q.p, S, 1 + 1)
    BY <1>1, <1>5, <1>7, <1>9, SmallParsed
  <2> QED
    BY <2>1
<1>12. q.ok = TRUE
  <2>1. q = IF GroupLoop(p, IntBits)[MaxGroups].more THEN [ok |-> FALSE]
            ELSE [ok |-> TRUE, value |-> GroupLoop(p, IntBits)[MaxGroups].value,
                  p |-> GroupLoop(p, IntBits)[MaxGroups].p]
    BY DEF ParseInt, ParseGroups, Grouped, Error, Result
  <2> HIDE DEF q
  <2> QED
    BY <1>11, <2>1
<1> HIDE DEF q
<1>13. IsResult(type, kind, S, 2)
  BY <1>10, <1>11, <1>12 DEF IsResult
<1>14. /\ Expect(type, tag, ParseStrbuf).ok = TRUE
       /\ IsView(Start(Expect(type, tag, ParseStrbuf).value), t, 0)
  BY <1>4a, <1>5, <1>13, StrbufExpected DEF field
<1> QED
  BY <1>6, <1>10, <1>11, <1>14 DEF Finds, type

\* What can be sent is a message, and its bytes begin with those of MessageType.
LEMMA RequestBytesType ==
  ASSUME NEW m \in RequestMessage
  PROVE  RequestBytes(m) \in Text
<1>1. /\ m.verb \in Text /\ m.path \in Text /\ m.body \in Optionally
      /\ m.context \in SUBSET (0..63) /\ m.headers \in Seq(Text)
  BY DEF RequestMessage
<1> DEFINE A == Field(VerbTag, m.verb)
           B == Field(PathTag, m.path)
           C == OptField(RequestBodyTag, m.body)
           D == AsnField(RequestIdTag, m.context)
           E == HeaderFields(m.headers)
<1>2. A \in Text /\ B \in Text /\ C \in Text /\ E \in Text
  BY <1>1, FieldBytes, BodyBytes, HeadersBytes, TagsAreBytes
<1>3. D \in Text
  BY <1>1, OneByte, AsnType, TextJoin, TagsAreBytes DEF AsnField
<1>4. RequestBytes(m) = A \o B \o C \o D \o E
  BY DEF RequestBytes
<1> HIDE DEF A, B, C, D, E
<1>5. A \o B \o C \o D \o E \in Text
  BY <1>2, <1>3, TextJoin
<1> QED
  BY <1>4, <1>5

\* The bytes of a response.
LEMMA ResponseBytesType ==
  ASSUME NEW m \in ResponseMessage
  PROVE  ResponseBytes(m) \in Text
<1>1. /\ m.context \in SUBSET (0..63)
      /\ m.code \in SUBSET (0..(IntBits - 1)) /\ m.comment \in Text /\ m.body \in Optionally
      /\ m.headers \in Seq(Text)
  BY DEF ResponseMessage
<1> DEFINE A == AsnField(ResponseIdTag, m.context)
           B == IntField(CodeTag, m.code)
           C == Field(CommentTag, m.comment)
           D == OptField(ResponseBodyTag, m.body)
           E == HeaderFields(m.headers)
<1>2. A \in Text
  BY <1>1, OneByte, AsnType, TextJoin, TagsAreBytes DEF AsnField
<1>3. B \in Text
  BY <1>1, OneByte, IntType, TextJoin, TagsAreBytes DEF IntField
<1>3a. C \in Text /\ D \in Text /\ E \in Text
  BY <1>1, FieldBytes, BodyBytes, HeadersBytes, TagsAreBytes
<1>4. ResponseBytes(m) = A \o B \o C \o D \o E
  BY DEF ResponseBytes
<1> HIDE DEF A, B, C, D, E
<1>5. A \o B \o C \o D \o E \in Text
  BY <1>2, <1>3, <1>3a, TextJoin
<1> QED
  BY <1>4, <1>5

\* What is received is what was sent.
LEMMA MessageReceived ==
  ASSUME NEW m \in Messages, NEW chunks, IsView(Start(chunks), Encoded(m), 0)
  PROVE  ReceiveWsChunk(chunks) = m
<1> DEFINE type == Expect(Result({}, Start(chunks)), MessageType, ParseInt)
           request == Expect(type, RequestTag, ParseStrbuf)
           response == Expect(type, ResponseTag, ParseStrbuf)
<1>0. /\ m \in RequestMessage \cup ResponseMessage
      /\ Len(m.headers) <= MaxHeaders /\ FitsInt(Len(Encoded(m)))
  BY MessagesAssumption
<1>1. ReceiveWsChunk(chunks)
        = IF ~ type.ok THEN Error
          ELSE IF type.value = RequestType /\ request.ok THEN WsReceiveRequest(request.value)
          ELSE IF type.value = ResponseType /\ response.ok THEN WsReceiveResponse(response.value)
          ELSE Error
  BY DEF ReceiveWsChunk
<1>2. RequestType # ResponseType
  <2>1. 0 \in RequestType /\ 0 \notin ResponseType
    BY DEF RequestType, ResponseType
  <2> QED
    BY <2>1
<1> HIDE DEF type
<1>4. CASE m \in RequestMessage
  <2> DEFINE t == RequestBytes(m)
             S == Encoded(m)
  <2>1. S = Around(RequestType, RequestTag, t)
    BY <1>4 DEF Encoded, WsRequest, RequestMessage, Around
  <2>2. t \in Text /\ RequestTag \in Byte
    BY <1>4, RequestBytesType, TagsAreBytes
  <2>3. FitsInt(Len(S)) /\ IsView(Start(chunks), S, 0)
    BY <1>0
  <2> HIDE DEF t, S
  <2>4. type.ok /\ type.value = RequestType /\ request.ok = TRUE
        /\ IsView(Start(request.value), t, 0) /\ FitsInt(Len(t))
    <3>1. Finds(chunks, RequestType, RequestTag, t)
      BY <2>1, <2>2, <2>3, MessageParsed
    <3> QED
      BY <3>1 DEF Finds, type
  <2>5. WsReceiveRequest(request.value) = m
    <3> HIDE DEF request
    <3> QED
      BY <1>0, <1>4, <2>4, RequestParsed DEF t
  <2> QED
    BY <1>1, <2>4, <2>5
<1>5. CASE m \in ResponseMessage
  <2> DEFINE t == ResponseBytes(m)
             S == Encoded(m)
  <2>1. S = Around(ResponseType, ResponseTag, t)
    BY <1>5 DEF Encoded, WsResponse, ResponseMessage, Around
  <2>2. t \in Text /\ ResponseTag \in Byte
    BY <1>5, ResponseBytesType, TagsAreBytes
  <2>3. FitsInt(Len(S)) /\ IsView(Start(chunks), S, 0)
    BY <1>0
  <2> HIDE DEF t, S
  <2>4. type.ok /\ type.value = ResponseType /\ response.ok = TRUE
        /\ IsView(Start(response.value), t, 0) /\ FitsInt(Len(t))
    <3>1. Finds(chunks, ResponseType, ResponseTag, t)
      BY <2>1, <2>2, <2>3, MessageParsed
    <3> QED
      BY <3>1 DEF Finds, type
  <2>5. WsReceiveResponse(response.value) = m
    <3> HIDE DEF response
    <3> QED
      BY <1>0, <1>5, <2>4, ResponseParsed DEF t
  <2> QED
    BY <1>1, <1>2, <2>4, <2>5
<1> QED
  BY <1>0, <1>4, <1>5

\* A message has bytes.
LEMMA EncodedType ==
  ASSUME NEW m \in Messages
  PROVE  Encoded(m) \in Text /\ Len(Encoded(m)) > 0
<1>0. m \in RequestMessage \cup ResponseMessage
  BY MessagesAssumption
<1>1. ASSUME NEW kind \in {RequestType, ResponseType}, NEW tag \in Byte, NEW t \in Text
      PROVE  Around(kind, tag, t) \in Text /\ Len(Around(kind, tag, t)) > 0
  <2> DEFINE front == <<MessageType, kind>>
             field == Field(tag, t)
  <2>1. front \in Text /\ Len(front) = 2
    BY TwoBytes, TagsAreBytes
  <2>2. field \in Text /\ Len(field) \in Nat
    BY FieldBytes, TextParts
  <2> HIDE DEF front, field
  <2>3. front \o field \in Text /\ Len(front \o field) = Len(front) + Len(field)
    BY <2>1, <2>2, TextJoin
  <2>4. front \o field \in Text /\ Len(front \o field) > 0
    BY <2>1, <2>2, <2>3
  <2> QED
    BY <2>4 DEF front, field, Around
<1>2. CASE m \in RequestMessage
  <2>1. Encoded(m) = Around(RequestType, RequestTag, RequestBytes(m))
    BY <1>2 DEF Encoded, WsRequest, RequestMessage, Around
  <2> QED
    BY <1>1, <1>2, <2>1, RequestBytesType, TagsAreBytes
<1>3. CASE m \in ResponseMessage
  <2>1. Encoded(m) = Around(ResponseType, ResponseTag, ResponseBytes(m))
    BY <1>3 DEF Encoded, WsResponse, ResponseMessage, Around
  <2> QED
    BY <1>1, <1>3, <2>1, ResponseBytesType, TagsAreBytes
<1> QED
  BY <1>0, <1>2, <1>3

\* A parser of a string that was cut up is at its beginning.
LEMMA CutUpView ==
  ASSUME NEW t \in Text, Len(t) > 0, NEW cut \in Cuts
  PROVE  IsView(Start(CutUp(t, cut)), t, 0)
<1> DEFINE N == {i \in 1..(Len(cut) + 1) : i <= Len(cut) => cut[i] >= Len(t)}
           n == First(N)
           lo(i) == IF i = 1 THEN 1 ELSE cut[i - 1] + 1
           hi(i) == IF i < n THEN cut[i] ELSE Len(t)
           pieces == [i \in 1..n |-> SubSeq(t, lo(i), hi(i))]
           b == [i \in 0..n |-> IF i = 0 THEN 0 ELSE hi(i)]
<1>1. cut \in Seq(Nat \ {0}) /\ \A i, j \in 1..Len(cut) : i < j => cut[i] < cut[j]
  BY CutsAssumption
<1>2. Len(cut) \in Nat /\ (\A i \in 1..Len(cut) : cut[i] \in Nat \ {0}) /\ Len(t) \in Nat
      /\ \A i \in 1..Len(t) : t[i] \in Byte
  BY <1>1, LenProperties, ElementOfSeq, TextParts
<1>3. n \in N /\ \A i \in N : n <= i
  <2>1. Len(cut) + 1 \in N
    BY <1>2
  <2>2. N \subseteq Nat
    BY <1>2
  <2> HIDE DEF N
  <2> QED
    BY <2>1, <2>2, FirstIs
<1>4. CutUp(t, cut) = pieces
  BY DEF CutUp
<1> HIDE DEF n
<1>5. n \in 1..(Len(cut) + 1) /\ \A i \in 1..(n - 1) : i \in 1..Len(cut) /\ cut[i] < Len(t)
  <2>1. n \in 1..(Len(cut) + 1)
    BY <1>3
  <2>2. ASSUME NEW i \in 1..(n - 1) PROVE i \in 1..Len(cut) /\ cut[i] < Len(t)
    <3>1. i \in 1..Len(cut) /\ i \in 1..(Len(cut) + 1) /\ ~ (n <= i)
      BY <1>2, <2>1
    <3>2. ~ (cut[i] >= Len(t)) /\ cut[i] \in Nat
      BY <1>2, <1>3, <3>1
    <3> QED
      BY <1>2, <3>1, <3>2
  <2> QED
    BY <2>1, <2>2
<1> HIDE DEF N
<1>6. n \in Nat /\ n >= 1
  BY <1>2, <1>5
<1>7. \A i \in 1..n : hi(i) \in 1..Len(t)
  <2>1. ASSUME NEW i \in 1..n PROVE hi(i) \in 1..Len(t)
    <3>1. CASE i < n
      <4>1. i \in 1..(n - 1)
        BY <1>6, <3>1
      <4>2. cut[i] \in Nat \ {0} /\ cut[i] < Len(t)
        BY <1>2, <1>5, <4>1
      <4> QED
        BY <1>2, <3>1, <4>2
    <3>2. CASE ~ (i < n)
      BY <1>2, <3>2
    <3> QED
      BY <3>1, <3>2
  <2> QED
    BY <2>1
<1>8. ASSUME NEW i \in 1..n
      PROVE  b[i - 1] < b[i] /\ b[i] = hi(i) /\ lo(i) = b[i - 1] + 1 /\ b[i - 1] \in 0..Len(t)
  <2>1. i \in 0..n /\ i - 1 \in 0..n /\ i # 0
    BY <1>6
  <2>2. b[i] = hi(i) /\ b[i - 1] = IF i - 1 = 0 THEN 0 ELSE hi(i - 1)
    BY <2>1
  <2>3. CASE i = 1
    BY <1>2, <1>7, <2>2, <2>3
  <2>4. CASE i # 1
    <3>1. i - 1 \in 1..n /\ i - 1 \in 1..(n - 1) /\ i - 1 < n /\ i - 1 # 0
      BY <1>6, <2>4
    <3>2. b[i - 1] = cut[i - 1] /\ cut[i - 1] < Len(t) /\ cut[i - 1] \in Nat
      BY <1>2, <1>5, <2>2, <3>1
    <3>3. lo(i) = b[i - 1] + 1
      BY <2>4, <3>2
    <3>4. CASE i < n
      <4>1. i \in 1..(n - 1) /\ i - 1 < i
        BY <1>6, <3>4
      <4>2. i \in 1..Len(cut) /\ i - 1 \in 1..Len(cut)
        BY <1>5, <3>1, <4>1
      <4>3. cut[i - 1] < cut[i] /\ hi(i) = cut[i]
        BY <1>1, <3>4, <4>1, <4>2
      <4> QED
        BY <1>2, <2>2, <3>2, <3>3, <4>3
    <3>5. CASE ~ (i < n)
      BY <1>2, <2>2, <3>2, <3>3, <3>5
    <3> QED
      BY <3>4, <3>5
  <2> QED
    BY <2>3, <2>4
<1>9. b \in [0..n -> Nat] /\ b[0] = 0 /\ b[n] = Len(t)
  <2>1. \A i \in 1..n : hi(i) \in Nat
    BY <1>7
  <2>2. \A i \in 0..n : (IF i = 0 THEN 0 ELSE hi(i)) \in Nat
    BY <1>6, <2>1
  <2>3. b[0] = 0
    BY <1>6
  <2>4. b[n] = hi(n) /\ hi(n) = Len(t)
    BY <1>6
  <2> QED
    BY <2>2, <2>3, <2>4
<1> HIDE DEF lo, hi, b
<1>10. ASSUME NEW i \in 1..n
       PROVE  /\ SubSeq(t, lo(i), hi(i)) \in Text
              /\ Len(SubSeq(t, lo(i), hi(i))) = b[i] - b[i - 1]
              /\ \A j \in 1..(b[i] - b[i - 1]) : SubSeq(t, lo(i), hi(i))[j] = t[b[i - 1] + j]
  <2>1. b[i - 1] < b[i] /\ b[i] = hi(i) /\ lo(i) = b[i - 1] + 1 /\ b[i - 1] \in 0..Len(t)
        /\ hi(i) \in 1..Len(t)
    BY <1>7, <1>8
  <2>2. lo(i) \in Int /\ hi(i) \in Int /\ \A j \in lo(i)..hi(i) : t[j] \in Byte
    BY <1>2, <2>1
  <2>3. /\ SubSeq(t, lo(i), hi(i)) \in Seq(Byte)
        /\ Len(SubSeq(t, lo(i), hi(i))) = IF lo(i) <= hi(i) THEN hi(i) - lo(i) + 1 ELSE 0
        /\ \A j \in 1..(hi(i) - lo(i) + 1) : SubSeq(t, lo(i), hi(i))[j] = t[lo(i) + j - 1]
    BY <2>2, SubSeqProperties
  <2>4. lo(i) <= hi(i) /\ hi(i) - lo(i) + 1 = b[i] - b[i - 1]
    BY <2>1
  <2>5. \A j \in 1..(b[i] - b[i - 1]) : lo(i) + j - 1 = b[i - 1] + j
    BY <2>1
  <2> QED
    BY <2>3, <2>4, <2>5 DEF Text
<1>11. pieces \in [1..n -> Text]
  BY <1>10
<1>12. \A i \in 1..n : pieces[i] = SubSeq(t, lo(i), hi(i))
  OBVIOUS
<1> HIDE DEF pieces
<1>13. pieces \in Seq(Text) /\ Len(pieces) = n
  BY <1>6, <1>11, FunctionIsSequence
<1>14. ASSUME NEW i \in 1..n
       PROVE  /\ b[i - 1] <= b[i] /\ (i # 1 => b[i - 1] < b[i])
              /\ Len(pieces[i]) = b[i] - b[i - 1]
              /\ \A j \in 1..Len(pieces[i]) : pieces[i][j] = t[b[i - 1] + j]
              /\ pieces[i] # <<>>
  <2>1. b[i - 1] < b[i] /\ b[i] \in Nat /\ b[i - 1] \in Nat
    <3>1. i \in 0..n
      BY <1>6
    <3> QED
      BY <1>8, <1>9, <3>1
  <2>2. /\ Len(pieces[i]) = b[i] - b[i - 1]
        /\ \A j \in 1..(b[i] - b[i - 1]) : pieces[i][j] = t[b[i - 1] + j]
    BY <1>10, <1>12
  <2>3. pieces[i] # <<>>
    <3>1. Len(pieces[i]) # 0
      BY <2>1, <2>2
    <3> QED
      BY <3>1, EmptySeq
  <2> QED
    BY <2>1, <2>2, <2>3
<1>15. IsPiecesTo(pieces, t, Len(t), b)
  BY <1>9, <1>13, <1>14 DEF IsPiecesTo
<1>16. IsPieces(pieces, t, Len(t))
  <2>1. Len(t) \in 0..Len(t)
    BY <1>2
  <2> QED
    BY <1>13, <1>15, <2>1 DEF IsPieces
<1>17. \A i \in 1..Len(pieces) : pieces[i] # <<>>
  BY <1>13, <1>14
<1> QED
  BY <1>4, <1>16, <1>17, PiecesView

(***************************************************************************)
(* Protocol buffers: what is parsed is what was sent                       *)
(***************************************************************************)

\* Until it is received, the message is on the wire, cut up in one way or another.
OnWire ==
  /\ wire # <<>> => message \in Messages /\ \E cut \in Cuts : wire = CutUp(Encoded(message), cut)
  /\ RoundTrip

\* What is parsed is what was sent: for every message and all places to cut it up.
THEOREM MessagesSurvive == ProtoSpec => []RoundTrip
<1>1. ProtoInit => OnWire
  BY DEF ProtoInit, OnWire, RoundTrip
<1>2. OnWire /\ [ProtoNext]_protoVars => OnWire'
  <2> SUFFICES ASSUME OnWire, [ProtoNext]_protoVars PROVE OnWire'
    OBVIOUS
  <2>1. ASSUME NEW m \in Messages, Send(m) PROVE OnWire'
    <3>1. message' = m /\ parsed' = parsed /\ \E cut \in Cuts : wire' = CutUp(Encoded(m), cut)
      BY <2>1 DEF Send
    <3>2. parsed = None
      BY <2>1 DEF Send, OnWire, RoundTrip
    <3> QED
      BY <3>1, <3>2 DEF OnWire, RoundTrip
  <2>2. ASSUME Receive PROVE OnWire'
    <3>1. message \in Messages /\ \E cut \in Cuts : wire = CutUp(Encoded(message), cut)
      BY <2>2 DEF Receive, OnWire
    <3>2. PICK cut \in Cuts : wire = CutUp(Encoded(message), cut)
      BY <3>1
    <3>3. Encoded(message) \in Text /\ Len(Encoded(message)) > 0
      BY <3>1, EncodedType
    <3>4. IsView(Start(wire), Encoded(message), 0)
      BY <3>2, <3>3, CutUpView
    <3>5. ReceiveWsChunk(wire) = message
      BY <3>1, <3>4, MessageReceived
    <3> QED
      BY <2>2, <3>5 DEF Receive, OnWire, RoundTrip
  <2>3. CASE UNCHANGED protoVars
    BY <2>3 DEF protoVars, OnWire, RoundTrip
  <2> QED
    BY <2>1, <2>2, <2>3 DEF ProtoNext
<1>3. OnWire => RoundTrip
  BY DEF OnWire
<1> QED
  BY <1>1, <1>2, <1>3, PTL DEF ProtoSpec
==============================================================================
