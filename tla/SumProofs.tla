------------------------------ MODULE SumProofs ------------------------------
(***************************************************************************)
(* Facts about Sum, by induction.  The induction theorems of the library   *)
(* are about operators, which the provers cannot instantiate, so Induction *)
(* is about a set; it follows from the pigeonhole principle.               *)
(***************************************************************************)
EXTENDS Sums, SequenceTheorems, FiniteSetTheorems, TLAPS

(* A set that contains 0, and n + 1 with every n, contains every number:   *)
(* otherwise adding 1 would map its members up to the first missing number *)
(* n into themselves without 0.                                            *)
LEMMA Induction ==
    ASSUME NEW S, 0 \in S, \A n \in Nat : n \in S => n + 1 \in S
    PROVE  \A n \in Nat : n \in S
  <1> SUFFICES ASSUME NEW n \in Nat, n \notin S PROVE FALSE
    OBVIOUS
  <1> DEFINE I == 0 .. n
             T == I \cap S
             U == T \ {0}
             next == [i \in T |-> i + 1]
  <1>1. IsFiniteSet(I)
    BY FS_Interval
  <1>2. IsFiniteSet(T)
    <2> HIDE DEF I
    <2> QED BY <1>1, FS_Intersection
  <1>3. Cardinality(T) \in Nat
    <2> HIDE DEF T
    <2> QED BY <1>2, FS_CardinalityType
  <1>4. IsFiniteSet(U) /\ Cardinality(U) = Cardinality(T) - 1
    <2>1. 0 \in T
      OBVIOUS
    <2> HIDE DEF T
    <2> QED BY <2>1, <1>2, FS_RemoveElement
  <1>5. next \in [T -> U]
    <2> SUFFICES ASSUME NEW i \in T PROVE i + 1 \in U
      OBVIOUS
    <2> QED OBVIOUS
  <1>6. PICK x, y \in T : x # y /\ next[x] = next[y]
    <2> HIDE DEF T, U, next
    <2> QED BY <1>2, <1>3, <1>4, <1>5, FS_PigeonHole
  <1> QED BY <1>6

(* An interval that starts at 0, as a bound.  The provers take long over   *)
(* a wide interval of literals, and no time over this.                     *)
LEMMA WideInterval ==
    ASSUME NEW top \in Nat
    PROVE  \A n : n \in 0 .. top <=> n \in Nat /\ n <= top
  OBVIOUS

(* A function of that form exists for every length.                        *)
LEMMA TotalsExist ==
    ASSUME NEW s, NEW n \in Nat
    PROVE  \E g : g = [i \in 0 .. n |-> IF i = 0 THEN 0 ELSE g[i - 1] + s[i]]
  <1> DEFINE P(k, g) == g = [i \in 0 .. k |-> IF i = 0 THEN 0 ELSE g[i - 1] + s[i]]
             S == {k \in Nat : \E g : P(k, g)}
  <1>1. 0 \in S
    <2>1. P(0, [i \in 0 .. 0 |-> 0])
      OBVIOUS
    <2> QED BY <2>1
  <1>2. ASSUME NEW k \in Nat, k \in S PROVE k + 1 \in S
    <2>1. PICK g : P(k, g)
      BY <1>2
    <2> DEFINE h == [i \in 0 .. k + 1 |-> IF i = k + 1 THEN g[k] + s[k + 1] ELSE g[i]]
    <2>2. P(k + 1, h)
      <3>1. ASSUME NEW i \in 0 .. k + 1
            PROVE  h[i] = IF i = 0 THEN 0 ELSE h[i - 1] + s[i]
        BY <2>1
      <3> HIDE DEF h
      <3> QED BY <3>1 DEF h
    <2>3. \E f : P(k + 1, f)
      <3> HIDE DEF P, h
      <3> QED BY <2>2
    <2> QED BY <2>3
  <1> HIDE DEF S
  <1>3. n \in S
    BY <1>1, <1>2, Induction
  <1> QED BY <1>3 DEF S

LEMMA TotalsDef ==
    ASSUME NEW s, Len(s) \in Nat
    PROVE  Totals(s) = [i \in 0 .. Len(s) |->
                           IF i = 0 THEN 0 ELSE Totals(s)[i - 1] + s[i]]
  <1> DEFINE P(g) == g = [i \in 0 .. Len(s) |-> IF i = 0 THEN 0 ELSE g[i - 1] + s[i]]
  <1>1. Totals(s) = CHOOSE g : P(g)
    BY DEF Totals
  <1>2. \E g : P(g)
    BY TotalsExist
  <1>3. P(Totals(s))
    <2> HIDE DEF P
    <2> QED BY <1>1, <1>2
  <1> QED BY <1>3

LEMMA TotalsStep ==
    ASSUME NEW s, Len(s) \in Nat
    PROVE  /\ Totals(s)[0] = 0
           /\ \A k \in Nat : k + 1 <= Len(s) =>
                 Totals(s)[k + 1] = Totals(s)[k] + s[k + 1]
  <1>1. \A i \in 0 .. Len(s) :
           Totals(s)[i] = IF i = 0 THEN 0 ELSE Totals(s)[i - 1] + s[i]
    BY TotalsDef
  <1>2. ASSUME NEW k \in Nat, k + 1 <= Len(s)
        PROVE  Totals(s)[k + 1] = Totals(s)[k] + s[k + 1]
    <2>1. k + 1 \in 0 .. Len(s) /\ k + 1 # 0 /\ (k + 1) - 1 = k
      BY <1>2
    <2> QED BY <1>1, <2>1
  <1> QED BY <1>1, <1>2

(* The totals of natural numbers are natural numbers.                      *)
LEMMA TotalsType ==
    ASSUME NEW s \in Seq(Nat)
    PROVE  Totals(s) \in [0 .. Len(s) -> Nat]
  <1> DEFINE S == {k \in Nat : k <= Len(s) => Totals(s)[k] \in Nat}
  <1>1. 0 \in S
    BY TotalsDef
  <1>2. ASSUME NEW k \in Nat, k \in S PROVE k + 1 \in S
    BY <1>2, TotalsDef
  <1> HIDE DEF S
  <1>3. \A k \in Nat : k \in S
    BY <1>1, <1>2, Induction
  <1> QED BY <1>3, TotalsDef DEF S

LEMMA SumType ==
    ASSUME NEW s \in Seq(Nat)
    PROVE  Sum(s) \in Nat
  BY TotalsType DEF Sum

(* Sequences that agree on a prefix agree on its total.                    *)
LEMMA TotalsOfPrefix ==
    ASSUME NEW s \in Seq(Nat), NEW t \in Seq(Nat), NEW n \in Nat,
           n <= Len(s), n <= Len(t), \A i \in 1 .. n : s[i] = t[i]
    PROVE  Totals(s)[n] = Totals(t)[n]
  <1> DEFINE S == {k \in Nat : k <= n => Totals(s)[k] = Totals(t)[k]}
  <1>1. 0 \in S
    BY TotalsDef
  <1>2. ASSUME NEW k \in Nat, k \in S PROVE k + 1 \in S
    <2> SUFFICES ASSUME k + 1 <= n
                 PROVE  Totals(s)[k + 1] = Totals(t)[k + 1]
      OBVIOUS
    <2>1. Totals(s)[k] = Totals(t)[k]
      BY <1>2
    <2>2. Totals(s)[k + 1] = Totals(s)[k] + s[k + 1]
      BY TotalsStep, LenProperties
    <2>3. Totals(t)[k + 1] = Totals(t)[k] + t[k + 1]
      BY TotalsStep, LenProperties
    <2> QED BY <2>1, <2>2, <2>3
  <1> HIDE DEF S
  <1>3. n \in S
    BY <1>1, <1>2, Induction
  <1> QED BY <1>3 DEF S

LEMMA SumEmpty == Sum(<<>>) = 0
  BY TotalsDef DEF Sum

LEMMA SumAppend ==
    ASSUME NEW s \in Seq(Nat), NEW e \in Nat
    PROVE  Sum(Append(s, e)) = Sum(s) + e
  <1> DEFINE t == Append(s, e)
  <1>1. t \in Seq(Nat) /\ Len(t) = Len(s) + 1 /\ t[Len(s) + 1] = e
        /\ \A i \in 1 .. Len(s) : t[i] = s[i]
    BY AppendProperties
  <1> HIDE DEF t
  <1>2. Totals(t)[Len(s)] = Totals(s)[Len(s)]
    <2>1. Len(s) \in Nat /\ Len(s) <= Len(t)
      BY <1>1, LenProperties
    <2>2. \A n \in Nat : /\ n <= Len(t)
                         /\ n <= Len(s)
                         /\ \A i \in 1 .. n : t[i] = s[i]
                         => Totals(t)[n] = Totals(s)[n]
      BY <1>1, TotalsOfPrefix
    <2> QED BY <1>1, <2>1, <2>2
  <1>3. Totals(t)[Len(s) + 1] = Totals(t)[Len(s)] + t[Len(s) + 1]
    BY <1>1, TotalsStep, LenProperties
  <1>4. Sum(t) = Sum(s) + e
    BY <1>1, <1>2, <1>3 DEF Sum
  <1> QED BY <1>4 DEF t

(* Sequences that differ in one element only differ by it in their sums.   *)
LEMMA SumOfOneChange ==
    ASSUME NEW s \in Seq(Nat), NEW t \in Seq(Nat), Len(s) = Len(t),
           NEW b \in 1 .. Len(s),
           \A i \in 1 .. Len(s) : i # b => s[i] = t[i]
    PROVE  Sum(s) + t[b] = Sum(t) + s[b]
  <1> DEFINE f == Totals(s)
             g == Totals(t)
             n == Len(s)
             S == {k \in Nat : k <= n =>
                     IF k < b THEN f[k] = g[k] ELSE f[k] + t[b] = g[k] + s[b]}
  <1>1. /\ n \in Nat /\ b \in 1 .. n
        /\ f[0] = 0 /\ g[0] = 0
        /\ \A k \in Nat : k + 1 <= n => f[k + 1] = f[k] + s[k + 1]
        /\ \A k \in Nat : k + 1 <= n => g[k + 1] = g[k] + t[k + 1]
    BY TotalsStep, LenProperties
  <1>2. \A k \in Nat : k <= n => f[k] \in Nat /\ g[k] \in Nat
    <2>1. f \in [0 .. n -> Nat]
      BY TotalsType
    <2>2. g \in [0 .. n -> Nat]
      BY TotalsType
    <2> HIDE DEF f, g, n
    <2>3. ASSUME NEW k \in Nat, k <= n PROVE k \in 0 .. n
      BY <1>1, <2>3
    <2>4. \A k \in Nat : k <= n => f[k] \in Nat
      BY <2>1, <2>3
    <2>5. \A k \in Nat : k <= n => g[k] \in Nat
      BY <2>2, <2>3
    <2> QED BY <2>4, <2>5
  <1>3. \A i \in 1 .. n : s[i] \in Nat /\ t[i] \in Nat
    BY ElementOfSeq
  <1>4. \A i \in 1 .. n : i # b => s[i] = t[i]
    OBVIOUS
  <1> HIDE DEF f, g, n
  <1>5. 0 \in S
    BY <1>1
  <1>6. ASSUME NEW k \in Nat, k \in S PROVE k + 1 \in S
    <2> SUFFICES ASSUME k + 1 <= n
                 PROVE  IF k + 1 < b THEN f[k + 1] = g[k + 1]
                        ELSE f[k + 1] + t[b] = g[k + 1] + s[b]
      OBVIOUS
    <2>1. k + 1 \in 1 .. n /\ k <= n /\ f[k] \in Nat /\ g[k] \in Nat
      BY <1>1, <1>2
    <2>2. f[k + 1] = f[k] + s[k + 1] /\ g[k + 1] = g[k] + t[k + 1]
      BY <1>1
    <2>3. /\ s[k + 1] \in Nat /\ t[k + 1] \in Nat /\ s[b] \in Nat /\ t[b] \in Nat
      BY <1>1, <1>3, <2>1
    <2>4. CASE k + 1 < b
      <3>1. f[k] = g[k] /\ s[k + 1] = t[k + 1]
        BY <1>1, <1>4, <1>6, <2>1, <2>4
      <3> QED BY <2>2, <2>4, <3>1
    <2>5. CASE k + 1 = b
      <3>1. f[k] = g[k]
        BY <1>6, <2>1, <2>5
      <3> QED BY <2>1, <2>2, <2>3, <2>5, <3>1
    <2>6. CASE k + 1 > b
      <3>1. f[k] + t[b] = g[k] + s[b] /\ s[k + 1] = t[k + 1]
        BY <1>1, <1>4, <1>6, <2>1, <2>6
      <3> DEFINE u == f[k]
                 v == t[b]
                 w == g[k]
                 x == s[b]
                 y == s[k + 1]
      <3>2. /\ u \in Nat /\ v \in Nat /\ w \in Nat /\ x \in Nat /\ y \in Nat
            /\ u + v = w + x
        BY <2>1, <2>3, <3>1
      <3>3. f[k + 1] = u + y /\ g[k + 1] = w + y
        BY <2>2, <3>1
      <3> HIDE DEF u, v, w, x, y
      <3>4. (u + y) + v = (w + y) + x
        <4>1. (u + y) + v = (u + v) + y /\ (w + y) + x = (w + x) + y
          BY <3>2
        <4>2. u + v = w + x
          BY <3>2
        <4> QED BY <4>1, <4>2
      <3>5. f[k + 1] + v = g[k + 1] + x
        BY <3>3, <3>4
      <3>6. f[k + 1] + t[b] = g[k + 1] + s[b]
        BY <3>5 DEF v, x
      <3> QED BY <1>1, <2>6, <3>6
    <2> QED BY <1>1, <2>4, <2>5, <2>6
  <1> HIDE DEF S
  <1>7. n \in S
    BY <1>1, <1>5, <1>6, Induction
  <1>8. f[n] + t[b] = g[n] + s[b]
    BY <1>1, <1>7 DEF S
  <1> QED BY <1>8 DEF f, g, n, Sum

(* A sequence that is nowhere above another one and has its sum is equal.  *)
LEMMA SumOfBelow ==
    ASSUME NEW s \in Seq(Nat), NEW t \in Seq(Nat), Len(s) = Len(t),
           \A i \in 1 .. Len(s) : s[i] <= t[i], Sum(s) = Sum(t)
    PROVE  \A i \in 1 .. Len(s) : s[i] = t[i]
  <1> DEFINE f == Totals(s)
             g == Totals(t)
             n == Len(s)
             S == {k \in Nat : k <= n =>
                     /\ f[k] <= g[k]
                     /\ f[k] = g[k] => \A i \in 1 .. k : s[i] = t[i]}
  <1>1. /\ n \in Nat /\ f[0] = 0 /\ g[0] = 0
        /\ \A k \in Nat : k + 1 <= n => f[k + 1] = f[k] + s[k + 1]
        /\ \A k \in Nat : k + 1 <= n => g[k + 1] = g[k] + t[k + 1]
    BY TotalsStep, LenProperties
  <1>2. \A k \in Nat : k <= n => f[k] \in Nat /\ g[k] \in Nat
    <2>1. f \in [0 .. n -> Nat]
      BY TotalsType
    <2>2. g \in [0 .. n -> Nat]
      BY TotalsType
    <2> HIDE DEF f, g, n
    <2>3. ASSUME NEW k \in Nat, k <= n PROVE k \in 0 .. n
      BY <1>1, <2>3
    <2>4. \A k \in Nat : k <= n => f[k] \in Nat
      BY <2>1, <2>3
    <2>5. \A k \in Nat : k <= n => g[k] \in Nat
      BY <2>2, <2>3
    <2> QED BY <2>4, <2>5
  <1>3. \A i \in 1 .. n : s[i] \in Nat /\ t[i] \in Nat /\ s[i] <= t[i]
    BY ElementOfSeq
  <1>4. f[n] = g[n]
    BY DEF Sum
  <1> HIDE DEF f, g, n
  <1>5. 0 \in S
    BY <1>1
  <1>6. ASSUME NEW k \in Nat, k \in S PROVE k + 1 \in S
    <2> SUFFICES ASSUME k + 1 <= n
                 PROVE  /\ f[k + 1] <= g[k + 1]
                        /\ f[k + 1] = g[k + 1] => \A i \in 1 .. k + 1 : s[i] = t[i]
      OBVIOUS
    <2>1. k + 1 \in 1 .. n /\ k <= n /\ f[k] \in Nat /\ g[k] \in Nat
      BY <1>1, <1>2
    <2>2. f[k + 1] = f[k] + s[k + 1] /\ g[k + 1] = g[k] + t[k + 1]
      BY <1>1
    <2>3. s[k + 1] \in Nat /\ t[k + 1] \in Nat /\ s[k + 1] <= t[k + 1]
      BY <1>3, <2>1
    <2>4. f[k] <= g[k] /\ (f[k] = g[k] => \A i \in 1 .. k : s[i] = t[i])
      BY <1>6, <2>1
    <2>5. f[k + 1] <= g[k + 1]
      <3> DEFINE u == f[k]
                 v == g[k]
                 x == s[k + 1]
                 y == t[k + 1]
      <3>1. /\ u \in Nat /\ v \in Nat /\ x \in Nat /\ y \in Nat
            /\ u <= v /\ x <= y
        BY <2>1, <2>3, <2>4
      <3>2. f[k + 1] = u + x /\ g[k + 1] = v + y
        BY <2>2
      <3> HIDE DEF u, v, x, y
      <3>3. u + x <= v + y
        BY <3>1
      <3> QED BY <3>2, <3>3
    <2>6. ASSUME f[k + 1] = g[k + 1] PROVE \A i \in 1 .. k + 1 : s[i] = t[i]
      <3> DEFINE u == f[k]
                 v == g[k]
                 x == s[k + 1]
                 y == t[k + 1]
      <3>1. u \in Nat /\ v \in Nat /\ x \in Nat /\ y \in Nat /\ x <= y
        BY <2>1, <2>3
      <3>2. u <= v /\ u + x = v + y
        BY <2>2, <2>4, <2>6
      <3> HIDE DEF u, v, x, y
      <3>3. u = v /\ x = y
        BY <3>1, <3>2
      <3>4. f[k] = g[k] /\ s[k + 1] = t[k + 1]
        BY <3>3 DEF u, v, x, y
      <3>5. \A i \in 1 .. k : s[i] = t[i]
        BY <2>4, <3>4
      <3> QED BY <3>4, <3>5
    <2> QED BY <2>5, <2>6
  <1> HIDE DEF S
  <1>7. n \in S
    BY <1>1, <1>5, <1>6, Induction
  <1>8. \A i \in 1 .. n : s[i] = t[i]
    BY <1>1, <1>4, <1>7 DEF S
  <1> QED BY <1>8 DEF n

(* Elements of at most m add up to at most m times their number.           *)
LEMMA SumBound ==
    ASSUME NEW s \in Seq(Nat), NEW m \in Nat,
           \A i \in 1 .. Len(s) : s[i] <= m
    PROVE  Sum(s) <= m * Len(s)
  <1> DEFINE f == Totals(s)
             n == Len(s)
             S == {k \in Nat : k <= n => f[k] <= m * k}
  <1>1. /\ n \in Nat /\ f[0] = 0
        /\ \A k \in Nat : k + 1 <= n => f[k + 1] = f[k] + s[k + 1]
    BY TotalsStep, LenProperties
  <1>2. \A k \in Nat : k <= n => f[k] \in Nat
    BY TotalsType, LenProperties
  <1>3. \A i \in 1 .. n : s[i] \in Nat /\ s[i] <= m
    BY ElementOfSeq
  <1> HIDE DEF f, n
  <1>4. 0 \in S
    BY <1>1
  <1>5. ASSUME NEW k \in Nat, k \in S PROVE k + 1 \in S
    <2> SUFFICES ASSUME k + 1 <= n PROVE f[k + 1] <= m * (k + 1)
      OBVIOUS
    <2>1. k + 1 \in 1 .. n /\ k <= n /\ f[k] \in Nat
      BY <1>1, <1>2
    <2>2. f[k + 1] = f[k] + s[k + 1] /\ s[k + 1] \in Nat /\ s[k + 1] <= m
      BY <1>1, <1>3, <2>1
    <2>3. f[k] <= m * k
      BY <1>5, <2>1
    <2>4. m * (k + 1) = m * k + m /\ m * k \in Nat
      OBVIOUS
    <2> QED BY <2>1, <2>2, <2>3, <2>4
  <1> HIDE DEF S
  <1>6. n \in S
    BY <1>1, <1>4, <1>5, Induction
  <1>7. f[n] <= m * n
    BY <1>1, <1>6 DEF S
  <1> QED BY <1>7 DEF f, n, Sum

=============================================================================
