---------------------------- MODULE AddressProofs ----------------------------
(***************************************************************************)
(* AddressIsNoName, QuadParsed and V6Parsed, for texts of any length.      *)
(***************************************************************************)
EXTENDS Addresses, SumProofs

Text == Seq(0 .. 18)

LEMMA TextSeq ==
    ASSUME NEW s \in Text
    PROVE  s \in Seq(Nat)
  BY DEF Text

-----------------------------------------------------------------------------
(* The functions that the definitions choose.                              *)

(* The parts of a text after another character.                            *)
SplitNext(c, sep, p) ==
    IF c = sep THEN Append(p, <<>>) ELSE [p EXCEPT ![Len(p)] = Append(@, c)]

Splits(s, sep) ==
    CHOOSE g : g = [i \in 0 .. Len(s) |->
                       IF i = 0 THEN << <<>> >> ELSE SplitNext(s[i], sep, g[i - 1])]

LEMMA SplitsDef ==
    ASSUME NEW s, Len(s) \in Nat, NEW sep
    PROVE  /\ Split(s, sep) = Splits(s, sep)[Len(s)]
           /\ Splits(s, sep)[0] = << <<>> >>
           /\ \A i \in 1 .. Len(s) :
                 Splits(s, sep)[i] = SplitNext(s[i], sep, Splits(s, sep)[i - 1])
  <1> DEFINE base == << <<>> >>
             P(k, g) == g = [i \in 0 .. k |->
                                IF i = 0 THEN base ELSE SplitNext(s[i], sep, g[i - 1])]
             S == {k \in Nat : \E g : P(k, g)}
             step == Splits(s, sep)
  <1>1. Split(s, sep) = step[Len(s)]
    BY DEF Split, Splits, SplitNext
  <1>2. step = CHOOSE g : P(Len(s), g)
    BY DEF Splits
  <1> HIDE DEF base, step
  <1>3. 0 \in S
    <2>1. P(0, [i \in 0 .. 0 |-> base])
      OBVIOUS
    <2> HIDE DEF P
    <2> QED BY <2>1
  <1>4. ASSUME NEW k \in Nat, k \in S PROVE k + 1 \in S
    <2>1. PICK g : P(k, g)
      BY <1>4
    <2> DEFINE h == [i \in 0 .. k + 1 |-> IF i = 0 THEN base ELSE SplitNext(s[i], sep, g[i - 1])]
    <2>2. ASSUME NEW i \in 0 .. k + 1
          PROVE  h[i] = IF i = 0 THEN base ELSE SplitNext(s[i], sep, h[i - 1])
      <3>1. CASE i = 0
        BY <3>1
      <3>2. CASE i # 0
        <4>1. i - 1 \in 0 .. k /\ i - 1 \in 0 .. k + 1
          BY <3>2
        <4>2. g[i - 1] = IF i - 1 = 0 THEN base ELSE SplitNext(s[i - 1], sep, g[(i - 1) - 1])
          BY <2>1, <4>1
        <4>3. h[i - 1] = g[i - 1]
          BY <4>1, <4>2
        <4>4. h[i] = SplitNext(s[i], sep, g[i - 1])
          BY <3>2
        <4> HIDE DEF h
        <4> QED BY <3>2, <4>3, <4>4
      <3> QED BY <3>1, <3>2
    <2>3. h = [i \in 0 .. k + 1 |-> h[i]]
      OBVIOUS
    <2> HIDE DEF h
    <2>4. P(k + 1, h)
      BY <2>2, <2>3
    <2> HIDE DEF P
    <2> QED BY <2>4
  <1> HIDE DEF S
  <1>5. Len(s) \in S
    BY <1>3, <1>4, Induction
  <1>6. P(Len(s), step)
    <2> HIDE DEF P
    <2> QED BY <1>2, <1>5 DEF S
  <1>7. \A i \in 0 .. Len(s) :
           step[i] = IF i = 0 THEN base ELSE SplitNext(s[i], sep, step[i - 1])
    BY <1>6
  <1> HIDE DEF P
  <1>8. step[0] = base
    BY <1>7
  <1>9. \A i \in 1 .. Len(s) : step[i] = SplitNext(s[i], sep, step[i - 1])
    BY <1>7
  <1> QED BY <1>1, <1>8, <1>9 DEF base, step

(* The value of the digits up to the i-th.                                 *)
Values(part, base) ==
    CHOOSE v : v = [i \in 0 .. Len(part) |-> IF i = 0 THEN 0 ELSE v[i - 1] * base + part[i]]

LEMMA ValuesDef ==
    ASSUME NEW part, Len(part) \in Nat, NEW base
    PROVE  /\ Value(part, base) = Values(part, base)[Len(part)]
           /\ Values(part, base)[0] = 0
           /\ \A i \in 1 .. Len(part) :
                 Values(part, base)[i] = Values(part, base)[i - 1] * base + part[i]
  <1> DEFINE P(k, g) == g = [i \in 0 .. k |-> IF i = 0 THEN 0 ELSE g[i - 1] * base + part[i]]
             S == {k \in Nat : \E g : P(k, g)}
             v == Values(part, base)
  <1>1. Value(part, base) = v[Len(part)]
    BY DEF Value, Values
  <1>2. v = CHOOSE g : P(Len(part), g)
    BY DEF Values
  <1> HIDE DEF v
  <1>3. 0 \in S
    <2>1. P(0, [i \in 0 .. 0 |-> 0])
      OBVIOUS
    <2> HIDE DEF P
    <2> QED BY <2>1
  <1>4. ASSUME NEW k \in Nat, k \in S PROVE k + 1 \in S
    <2>1. PICK g : P(k, g)
      BY <1>4
    <2> DEFINE h == [i \in 0 .. k + 1 |-> IF i = 0 THEN 0 ELSE g[i - 1] * base + part[i]]
    <2>2. ASSUME NEW i \in 0 .. k + 1
          PROVE  h[i] = IF i = 0 THEN 0 ELSE h[i - 1] * base + part[i]
      <3>1. CASE i = 0
        BY <3>1
      <3>2. CASE i # 0
        <4>1. i - 1 \in 0 .. k /\ i - 1 \in 0 .. k + 1
          BY <3>2
        <4>2. g[i - 1] = IF i - 1 = 0 THEN 0 ELSE g[(i - 1) - 1] * base + part[i - 1]
          BY <2>1, <4>1
        <4>3. h[i - 1] = g[i - 1]
          BY <4>1, <4>2
        <4>4. h[i] = g[i - 1] * base + part[i]
          BY <3>2
        <4> HIDE DEF h
        <4> QED BY <3>2, <4>3, <4>4
      <3> QED BY <3>1, <3>2
    <2>3. h = [i \in 0 .. k + 1 |-> h[i]]
      OBVIOUS
    <2> HIDE DEF h
    <2>4. P(k + 1, h)
      BY <2>2, <2>3
    <2> HIDE DEF P
    <2> QED BY <2>4
  <1> HIDE DEF S
  <1>5. Len(part) \in S
    BY <1>3, <1>4, Induction
  <1>6. P(Len(part), v)
    <2> HIDE DEF P
    <2> QED BY <1>2, <1>5 DEF S
  <1>7. \A i \in 0 .. Len(part) : v[i] = IF i = 0 THEN 0 ELSE v[i - 1] * base + part[i]
    BY <1>6
  <1> HIDE DEF P
  <1> QED BY <1>1, <1>7 DEF v

LEMMA Elements ==
    ASSUME NEW S, NEW s \in Seq(S)
    PROVE  \A i \in 1 .. Len(s) : s[i] \in S
  OBVIOUS

LEMMA ValueEmpty ==
    ASSUME NEW base
    PROVE  Value(<<>>, base) = 0
  <1>1. Len(<<>>) = 0 /\ Len(<<>>) \in Nat
    OBVIOUS
  <1> QED BY <1>1, ValuesDef

LEMMA ValueType ==
    ASSUME NEW part \in Seq(Nat), NEW base \in Nat
    PROVE  \A i \in 0 .. Len(part) : Values(part, base)[i] \in Nat
  <1> DEFINE v == Values(part, base)
             n == Len(part)
             S == {k \in Nat : k <= n => v[k] \in Nat}
  <1>1. n \in Nat
    OBVIOUS
  <1>2. v[0] = 0 /\ \A i \in 1 .. n : v[i] = v[i - 1] * base + part[i]
    BY <1>1, ValuesDef
  <1> HIDE DEF v
  <1>3. 0 \in S
    BY <1>2
  <1>4. ASSUME NEW k \in Nat, k \in S PROVE k + 1 \in S
    <2> SUFFICES ASSUME k + 1 <= n PROVE v[k + 1] \in Nat
      OBVIOUS
    <2>1. k + 1 \in 1 .. n /\ (k + 1) - 1 = k /\ k <= n
      BY <1>1
    <2> DEFINE x == v[k]
               y == part[k + 1]
    <2>2. x \in Nat /\ y \in Nat
      BY <1>4, <2>1
    <2>3. v[k + 1] = x * base + y
      BY <1>2, <2>1
    <2> HIDE DEF x, y
    <2>4. x * base \in Nat
      BY <2>2
    <2> QED BY <2>2, <2>3, <2>4
  <1> HIDE DEF S
  <1>5. \A k \in Nat : k \in S
    BY <1>3, <1>4, Induction
  <1> QED BY <1>1, <1>5 DEF S, v

LEMMA ValueAppend ==
    ASSUME NEW part \in Seq(Nat), NEW c \in Nat, NEW base \in Nat
    PROVE  /\ Value(part, base) \in Nat
           /\ Value(Append(part, c), base) = Value(part, base) * base + c
  <1> DEFINE more == Append(part, c)
             v == Values(part, base)
             w == Values(more, base)
             n == Len(part)
             S == {k \in Nat : k <= n => w[k] = v[k]}
  <1>1. n \in Nat /\ Len(more) = n + 1 /\ more[n + 1] = c /\ \A i \in 1 .. n : more[i] = part[i]
    OBVIOUS
  <1>2. v[0] = 0 /\ \A i \in 1 .. n : v[i] = v[i - 1] * base + part[i]
    BY <1>1, ValuesDef
  <1>3. w[0] = 0 /\ \A i \in 1 .. n + 1 : w[i] = w[i - 1] * base + more[i]
    <2>1. Len(more) \in Nat
      BY <1>1
    <2> HIDE DEF more
    <2> QED BY <1>1, <2>1, ValuesDef
  <1>4. Value(part, base) = v[n] /\ Value(more, base) = w[n + 1]
    <2>1. Len(more) \in Nat
      BY <1>1
    <2> HIDE DEF more
    <2> QED BY <1>1, <2>1, ValuesDef
  <1>5. v[n] \in Nat
    BY <1>1, ValueType
  <1> HIDE DEF v, w, more, n
  <1>6. 0 \in S
    BY <1>2, <1>3
  <1>7. ASSUME NEW k \in Nat, k \in S PROVE k + 1 \in S
    <2> SUFFICES ASSUME k + 1 <= n PROVE w[k + 1] = v[k + 1]
      OBVIOUS
    <2>1. k + 1 \in 1 .. n /\ k + 1 \in 1 .. n + 1 /\ (k + 1) - 1 = k /\ k <= n
      BY <1>1
    <2>2. w[k] = v[k]
      BY <1>7, <2>1
    <2>3. w[k + 1] = w[k] * base + part[k + 1] /\ v[k + 1] = v[k] * base + part[k + 1]
      BY <1>1, <1>2, <1>3, <2>1
    <2> QED BY <2>2, <2>3
  <1> HIDE DEF S
  <1>8. w[n] = v[n]
    <2>1. n \in S
      BY <1>1, <1>6, <1>7, Induction
    <2> QED BY <1>1, <2>1 DEF S
  <1>9. w[n + 1] = w[n] * base + c
    <2>1. n + 1 \in 1 .. n + 1 /\ (n + 1) - 1 = n
      BY <1>1
    <2> QED BY <1>1, <1>3, <2>1
  <1> QED BY <1>4, <1>5, <1>8, <1>9 DEF more

-----------------------------------------------------------------------------
(* inet_pton4.                                                             *)

QuadStart == [ok |-> TRUE, saw_digit |-> 0, octets |-> 0, tmp |-> <<0>>]

QuadNext(c, p) ==
    LET n == Len(p.tmp)
    IN  IF /\ p.ok /\ c \in Digit
           /\ p.saw_digit <= 3
           /\ p.tmp[n] * 10 + c <= 255
           /\ p.saw_digit = 0 => p.octets < 4
        THEN [p EXCEPT !.tmp[n] = @ * 10 + c, !.saw_digit = @ + 1,
                       !.octets = IF p.saw_digit = 0 THEN @ + 1 ELSE @]
        ELSE IF p.ok /\ c = Dot /\ p.saw_digit > 0 /\ p.octets # 4
        THEN [p EXCEPT !.tmp = Append(@, 0), !.saw_digit = 0]
        ELSE [p EXCEPT !.ok = FALSE]

QuadSteps(s) ==
    CHOOSE g : g = [i \in 0 .. Len(s) |-> IF i = 0 THEN QuadStart ELSE QuadNext(s[i], g[i - 1])]

LEMMA QuadStepsDef ==
    ASSUME NEW s, Len(s) \in Nat
    PROVE  /\ inet_pton4(s) = IF /\ QuadSteps(s)[Len(s)].ok
                                 /\ QuadSteps(s)[Len(s)].octets = 4
                              THEN QuadSteps(s)[Len(s)].tmp ELSE Failed
           /\ QuadSteps(s)[0] = QuadStart
           /\ \A i \in 1 .. Len(s) : QuadSteps(s)[i] = QuadNext(s[i], QuadSteps(s)[i - 1])
  <1> DEFINE P(k, g) == g = [i \in 0 .. k |->
                                IF i = 0 THEN QuadStart ELSE QuadNext(s[i], g[i - 1])]
             S == {k \in Nat : \E g : P(k, g)}
             step == QuadSteps(s)
  <1>1. inet_pton4(s) = IF step[Len(s)].ok /\ step[Len(s)].octets = 4
                        THEN step[Len(s)].tmp ELSE Failed
    BY DEF inet_pton4, QuadSteps, QuadNext, QuadStart
  <1>2. step = CHOOSE g : P(Len(s), g)
    BY DEF QuadSteps
  <1> HIDE DEF step
  <1>3. 0 \in S
    <2>1. P(0, [i \in 0 .. 0 |-> QuadStart])
      OBVIOUS
    <2> HIDE DEF P
    <2> QED BY <2>1
  <1>4. ASSUME NEW k \in Nat, k \in S PROVE k + 1 \in S
    <2>1. PICK g : P(k, g)
      BY <1>4
    <2> DEFINE h == [i \in 0 .. k + 1 |-> IF i = 0 THEN QuadStart ELSE QuadNext(s[i], g[i - 1])]
    <2>2. ASSUME NEW i \in 0 .. k + 1
          PROVE  h[i] = IF i = 0 THEN QuadStart ELSE QuadNext(s[i], h[i - 1])
      <3>1. CASE i = 0
        BY <3>1
      <3>2. CASE i # 0
        <4>1. i - 1 \in 0 .. k /\ i - 1 \in 0 .. k + 1
          BY <3>2
        <4>2. g[i - 1] = IF i - 1 = 0 THEN QuadStart ELSE QuadNext(s[i - 1], g[(i - 1) - 1])
          BY <2>1, <4>1
        <4>3. h[i - 1] = g[i - 1]
          BY <4>1, <4>2
        <4>4. h[i] = QuadNext(s[i], g[i - 1])
          BY <3>2
        <4> HIDE DEF h
        <4> QED BY <3>2, <4>3, <4>4
      <3> QED BY <3>1, <3>2
    <2>3. h = [i \in 0 .. k + 1 |-> h[i]]
      OBVIOUS
    <2> HIDE DEF h
    <2>4. P(k + 1, h)
      BY <2>2, <2>3
    <2> HIDE DEF P
    <2> QED BY <2>4
  <1> HIDE DEF S
  <1>5. Len(s) \in S
    BY <1>3, <1>4, Induction
  <1>6. P(Len(s), step)
    <2> HIDE DEF P
    <2> QED BY <1>2, <1>5 DEF S
  <1>7. \A i \in 0 .. Len(s) :
           step[i] = IF i = 0 THEN QuadStart ELSE QuadNext(s[i], step[i - 1])
    BY <1>6
  <1> HIDE DEF P
  <1>8. step[0] = QuadStart
    BY <1>7
  <1>9. \A i \in 1 .. Len(s) : step[i] = QuadNext(s[i], step[i - 1])
    BY <1>7
  <1> QED BY <1>1, <1>8, <1>9 DEF step

(* An octet as far as it is read, and whether the parts of a text are.     *)
Octet(part) ==
    /\ \A i \in 1 .. Len(part) : part[i] \in Digit
    /\ Len(part) <= 4
    /\ Value(part, 10) <= 255

GoodParts(parts) ==
    /\ Len(parts) <= 4
    /\ \A k \in 1 .. Len(parts) : Octet(parts[k])
    /\ \A k \in 1 .. Len(parts) - 1 : parts[k] # <<>>

(* The loop invariant: the parser goes on as long as the parts are octets, *)
(* and has their values.                                                   *)
QuadInv(p, parts) ==
    LET n == Len(parts)
    IN  /\ p \in [ok : BOOLEAN, saw_digit : Nat, octets : Nat, tmp : Seq(Nat)]
        /\ parts \in Seq(Seq(Nat)) /\ n >= 1
        /\ p.ok <=> GoodParts(parts)
        /\ Len(p.tmp) >= 1
        /\ p.ok =>
              /\ Len(p.tmp) = n
              /\ \A k \in 1 .. n : p.tmp[k] = Value(parts[k], 10)
              /\ p.saw_digit = Len(parts[n])
              /\ p.octets = IF parts[n] = <<>> THEN n - 1 ELSE n

LEMMA OctetEmpty == Octet(<<>>)
  BY ValueEmpty DEF Octet

LEMMA OctetAppend ==
    ASSUME NEW part \in Seq(Nat), NEW c \in Nat
    PROVE  Octet(Append(part, c)) <=>
               Octet(part) /\ c \in Digit /\ Len(part) <= 3 /\ Value(part, 10) * 10 + c <= 255
  <1> DEFINE more == Append(part, c)
             n == Len(part)
             v == Value(part, 10)
  <1>1. /\ n \in Nat /\ Len(more) = n + 1 /\ more[n + 1] = c
        /\ \A i \in 1 .. n : more[i] = part[i]
    OBVIOUS
  <1>2. v \in Nat /\ Value(more, 10) = v * 10 + c
    BY ValueAppend
  <1> HIDE DEF more, n, v
  <1>3. (\A i \in 1 .. n + 1 : more[i] \in Digit) <=> (\A i \in 1 .. n : part[i] \in Digit) /\ c \in Digit
    <2>1. ASSUME \A i \in 1 .. n + 1 : more[i] \in Digit
          PROVE  (\A i \in 1 .. n : part[i] \in Digit) /\ c \in Digit
      <3>1. n + 1 \in 1 .. n + 1 /\ \A i \in 1 .. n : i \in 1 .. n + 1
        BY <1>1
      <3> QED BY <1>1, <2>1, <3>1
    <2>2. ASSUME \A i \in 1 .. n : part[i] \in Digit, c \in Digit
          PROVE  \A i \in 1 .. n + 1 : more[i] \in Digit
      <3>1. \A i \in 1 .. n + 1 : i \in 1 .. n \/ i = n + 1
        BY <1>1
      <3> QED BY <1>1, <2>2, <3>1
    <2> QED BY <2>1, <2>2
  <1>4. n + 1 <= 4 <=> n <= 3
    BY <1>1
  <1>5. v * 10 + c <= 255 => v <= 255
    BY <1>2
  <1>6. n <= 3 => n <= 4
    BY <1>1
  <1>7. Octet(more) <=> (\A i \in 1 .. n + 1 : more[i] \in Digit) /\ n + 1 <= 4 /\ v * 10 + c <= 255
    BY <1>1, <1>2 DEF Octet
  <1>8. Octet(part) <=> (\A i \in 1 .. n : part[i] \in Digit) /\ n <= 4 /\ v <= 255
    BY DEF Octet, n, v
  <1> QED BY <1>3, <1>4, <1>5, <1>6, <1>7, <1>8 DEF more, n, v

(* The parts after another character.                                      *)
Added(new, parts, c) ==
    /\ new \in Seq(Seq(Nat)) /\ Len(new) = Len(parts)
    /\ \A k \in 1 .. Len(parts) - 1 : new[k] = parts[k]
    /\ new[Len(parts)] = Append(parts[Len(parts)], c)

LEMMA SplitAdds ==
    ASSUME NEW parts \in Seq(Seq(Nat)), Len(parts) >= 1, NEW c \in Nat, NEW sep, c # sep,
           NEW new, new = SplitNext(c, sep, parts)
    PROVE  Added(new, parts, c)
  <1> DEFINE n == Len(parts)
             last == Append(parts[n], c)
  <1>1. n \in Nat /\ n \in 1 .. n
    OBVIOUS
  <1>2. last \in Seq(Nat)
    BY <1>1
  <1>3. new = [parts EXCEPT ![n] = last]
    BY DEF SplitNext
  <1> HIDE DEF last
  <1>4. new \in Seq(Seq(Nat)) /\ Len(new) = n
    BY <1>1, <1>2, <1>3
  <1>5. new[n] = last
    BY <1>1, <1>3
  <1>6. \A k \in 1 .. n - 1 : new[k] = parts[k]
    BY <1>1, <1>3
  <1> QED BY <1>4, <1>5, <1>6 DEF last, Added

LEMMA SplitCuts ==
    ASSUME NEW parts \in Seq(Seq(Nat)), NEW sep,
           NEW new, new = SplitNext(sep, sep, parts)
    PROVE  /\ new \in Seq(Seq(Nat)) /\ Len(new) = Len(parts) + 1
           /\ \A k \in 1 .. Len(parts) : new[k] = parts[k]
           /\ new[Len(parts) + 1] = <<>>
  <1>1. <<>> \in Seq(Nat)
    OBVIOUS
  <1>2. new = Append(parts, <<>>)
    BY DEF SplitNext
  <1> QED BY <1>1, <1>2

LEMMA OctetsAdd ==
    ASSUME NEW parts \in Seq(Seq(Nat)), Len(parts) >= 1, NEW c \in Nat, c # Dot,
           NEW new, new = SplitNext(c, Dot, parts),
           NEW last, last = parts[Len(parts)]
    PROVE  GoodParts(new) <=>
               /\ GoodParts(parts) /\ c \in Digit /\ Len(last) <= 3
               /\ Value(last, 10) * 10 + c <= 255
  <1> DEFINE n == Len(parts)
             more == Append(last, c)
             Fits == c \in Digit /\ Len(last) <= 3 /\ Value(last, 10) * 10 + c <= 255
  <1>1. n \in Nat /\ n >= 1 /\ n \in 1 .. n /\ \A k \in 1 .. n : k \in 1 .. n - 1 \/ k = n
    OBVIOUS
  <1>2. Len(new) = n /\ (\A k \in 1 .. n - 1 : new[k] = parts[k]) /\ new[n] = more
    <2>1. Added(new, parts, c)
      BY SplitAdds
    <2> QED BY <2>1 DEF Added
  <1>3. Octet(more) <=> Octet(last) /\ Fits
    <2>1. last \in Seq(Nat)
      OBVIOUS
    <2> QED BY <2>1, OctetAppend
  <1>4. \A k \in 1 .. n - 1 : k \in 1 .. n
    BY <1>1
  <1> HIDE DEF n, more, Fits
  <1>5. (\A k \in 1 .. n : Octet(new[k])) <=> (\A k \in 1 .. n - 1 : Octet(parts[k])) /\ Octet(more)
    BY <1>1, <1>2, <1>4
  <1>6. (\A k \in 1 .. n : Octet(parts[k])) <=> (\A k \in 1 .. n - 1 : Octet(parts[k])) /\ Octet(last)
    BY <1>1, <1>4 DEF n
  <1>7. (\A k \in 1 .. n - 1 : new[k] # <<>>) <=> (\A k \in 1 .. n - 1 : parts[k] # <<>>)
    BY <1>2
  <1>8. GoodParts(new) <=> n <= 4 /\ (\A k \in 1 .. n : Octet(new[k])) /\ (\A k \in 1 .. n - 1 : new[k] # <<>>)
    BY <1>2 DEF GoodParts
  <1>9. GoodParts(parts) <=> n <= 4 /\ (\A k \in 1 .. n : Octet(parts[k])) /\ (\A k \in 1 .. n - 1 : parts[k] # <<>>)
    BY DEF GoodParts, n
  <1>10. GoodParts(new) <=> GoodParts(parts) /\ Fits
    BY <1>3, <1>5, <1>6, <1>7, <1>8, <1>9
  <1> QED BY <1>10 DEF Fits

LEMMA OctetsCut ==
    ASSUME NEW parts \in Seq(Seq(Nat)), Len(parts) >= 1,
           NEW new, new = SplitNext(Dot, Dot, parts)
    PROVE  GoodParts(new) <=> GoodParts(parts) /\ Len(parts) # 4 /\ parts[Len(parts)] # <<>>
  <1> DEFINE n == Len(parts)
  <1>1. n \in Nat /\ n >= 1 /\ n \in 1 .. n /\ \A k \in 1 .. n : k \in 1 .. n - 1 \/ k = n
    OBVIOUS
  <1>2. Len(new) = n + 1 /\ (\A k \in 1 .. n : new[k] = parts[k]) /\ new[n + 1] = <<>>
    BY SplitCuts
  <1>3. \A k \in 1 .. n - 1 : k \in 1 .. n
    BY <1>1
  <1>4. \A k \in 1 .. n + 1 : k \in 1 .. n \/ k = n + 1
    BY <1>1
  <1> HIDE DEF n
  <1>5. /\ (n + 1) - 1 = n
        /\ n + 1 <= 4 <=> n <= 4 /\ n # 4
        /\ n + 1 \in 1 .. n + 1
        /\ \A k \in 1 .. n : k \in 1 .. n + 1
    <2>1. (n + 1) - 1 = n /\ n + 1 \in 1 .. n + 1 /\ \A k \in 1 .. n : k \in 1 .. n + 1
      BY <1>1
    <2>2. n + 1 <= 4 <=> n <= 4 /\ n # 4
      BY <1>1
    <2> QED BY <2>1, <2>2
  <1>6. (\A k \in 1 .. n + 1 : Octet(new[k])) <=> (\A k \in 1 .. n : Octet(parts[k]))
    BY <1>2, <1>4, <1>5, OctetEmpty
  <1>7. (\A k \in 1 .. n : new[k] # <<>>) <=>
            (\A k \in 1 .. n - 1 : parts[k] # <<>>) /\ parts[n] # <<>>
    BY <1>1, <1>2, <1>3
  <1>8. GoodParts(new) <=> n + 1 <= 4 /\ (\A k \in 1 .. n + 1 : Octet(new[k])) /\ (\A k \in 1 .. n : new[k] # <<>>)
    BY <1>2, <1>5 DEF GoodParts
  <1>9. GoodParts(parts) <=> n <= 4 /\ (\A k \in 1 .. n : Octet(parts[k])) /\ (\A k \in 1 .. n - 1 : parts[k] # <<>>)
    BY DEF GoodParts, n
  <1>10. GoodParts(new) <=> GoodParts(parts) /\ n # 4 /\ parts[n] # <<>>
    BY <1>5, <1>6, <1>7, <1>8, <1>9
  <1> QED BY <1>10 DEF n

QuadState == [ok : BOOLEAN, saw_digit : Nat, octets : Nat, tmp : Seq(Nat)]

LEMMA QuadDot ==
    ASSUME NEW p \in QuadState, NEW q, NEW t \in Seq(Nat), t = Append(p.tmp, 0),
           q = [p EXCEPT !.tmp = Append(@, 0), !.saw_digit = 0]
    PROVE  /\ q \in QuadState
           /\ q.ok = p.ok /\ q.tmp = t /\ q.saw_digit = 0 /\ q.octets = p.octets
  <1>1. q \in [ok : BOOLEAN, saw_digit : Nat, octets : Nat, tmp : {t}]
    BY DEF QuadState
  <1>2. q.ok = p.ok /\ q.octets = p.octets /\ q.tmp = t /\ q.saw_digit = 0
    BY DEF QuadState
  <1> QED BY <1>1, <1>2 DEF QuadState

LEMMA QuadGoesOn ==
    ASSUME NEW p, NEW parts, QuadInv(p, parts), NEW c \in Nat
    PROVE  QuadInv(QuadNext(c, p), SplitNext(c, Dot, parts))
  <1> DEFINE n == Len(parts)
             last == parts[n]
             size == Len(last)
             new == SplitNext(c, Dot, parts)
             q == QuadNext(c, p)
             v == p.tmp[Len(p.tmp)]
             digit == [p EXCEPT !.tmp[Len(p.tmp)] = @ * 10 + c, !.saw_digit = @ + 1,
                                !.octets = IF p.saw_digit = 0 THEN @ + 1 ELSE @]
             dot == [p EXCEPT !.tmp = Append(@, 0), !.saw_digit = 0]
             no == [p EXCEPT !.ok = FALSE]
             State == [ok : BOOLEAN, saw_digit : Nat, octets : Nat, tmp : Seq(Nat)]
  <1>0. p \in QuadState /\ QuadState = State
    BY DEF QuadInv, QuadState
  <1>1. /\ p \in State
        /\ parts \in Seq(Seq(Nat)) /\ n >= 1 /\ n \in Nat
        /\ p.ok <=> GoodParts(parts)
        /\ Len(p.tmp) >= 1 /\ Len(p.tmp) \in Nat /\ p.tmp \in Seq(Nat)
    BY DEF QuadInv
  <1>2. p.ok => /\ Len(p.tmp) = n
                /\ \A k \in 1 .. n : p.tmp[k] = Value(parts[k], 10)
                /\ p.saw_digit = size
                /\ p.octets = IF last = <<>> THEN n - 1 ELSE n
    BY DEF QuadInv
  <1>3. last \in Seq(Nat) /\ size \in Nat /\ (size = 0 <=> last = <<>>)
    BY <1>1
  <1>4. v \in Nat
    BY <1>1
  <1>5. new \in Seq(Seq(Nat)) /\ Len(new) >= 1
    <2>1. CASE c = Dot
      BY <1>1, <2>1, SplitCuts
    <2>2. CASE c # Dot
      <3>1. Added(new, parts, c)
        BY <1>1, <2>2, SplitAdds
      <3> QED BY <1>1, <3>1 DEF Added
    <2> QED BY <2>1, <2>2
  <1>6. p.ok => n <= 4
    BY <1>1 DEF GoodParts
  <1>7. no \in State /\ no.tmp = p.tmp /\ ~no.ok
    BY <1>1
  <1>8. ASSUME q = no, ~GoodParts(new) PROVE QuadInv(q, new)
    <2> HIDE DEF q, no, new
    <2> QED BY <1>1, <1>5, <1>7, <1>8 DEF QuadInv
  <1>9. ASSUME ~p.ok PROVE QuadInv(q, new)
    <2>1. q = no
      BY <1>9 DEF QuadNext
    <2>2. ~GoodParts(new)
      <3>1. ~GoodParts(parts)
        BY <1>1, <1>9
      <3>2. CASE c = Dot
        BY <1>1, <3>1, <3>2, OctetsCut
      <3>3. CASE c # Dot
        BY <1>1, <3>1, <3>3, OctetsAdd
      <3> QED BY <3>2, <3>3
    <2> QED BY <1>8, <2>1, <2>2
  <1>10. ASSUME p.ok, c # Dot PROVE QuadInv(q, new)
    <2> DEFINE Fits == c \in Digit /\ size <= 3 /\ v * 10 + c <= 255
    <2>1. v = Value(last, 10)
      BY <1>1, <1>2, <1>10
    <2>2. GoodParts(new) <=> Fits
      <3>1. GoodParts(new) <=> /\ GoodParts(parts) /\ c \in Digit /\ Len(last) <= 3
                            /\ Value(last, 10) * 10 + c <= 255
        BY <1>1, <1>10, OctetsAdd
      <3> HIDE DEF v, last
      <3> QED BY <1>1, <1>10, <2>1, <3>1
    <2>3. p.saw_digit = 0 => p.octets < 4
      BY <1>1, <1>2, <1>3, <1>6, <1>10
    <2>4. CASE ~Fits
      <3>1. q = no
        BY <1>2, <1>10, <2>4 DEF QuadNext
      <3> QED BY <1>8, <2>2, <2>4, <3>1
    <2>5. CASE Fits
      <3>1. q = digit
        BY <1>2, <1>10, <2>3, <2>5 DEF QuadNext
      <3> DEFINE t == [p.tmp EXCEPT ![Len(p.tmp)] = v * 10 + c]
      <3>2. v * 10 + c \in Nat
        BY <1>4
      <3>3. t \in Seq(Nat) /\ Len(t) = Len(p.tmp) /\ t[Len(p.tmp)] = v * 10 + c
            /\ \A k \in 1 .. Len(p.tmp) - 1 : t[k] = p.tmp[k]
        <4> DEFINE x == v * 10 + c
                   u == p.tmp
                   m == Len(u)
        <4>1. x \in Nat /\ u \in Seq(Nat) /\ m \in Nat /\ m >= 1 /\ m = Len(u)
          BY <1>1, <3>2
        <4> HIDE DEF x, u
        <4>2. /\ [u EXCEPT ![m] = x] \in Seq(Nat) /\ Len([u EXCEPT ![m] = x]) = m
              /\ [u EXCEPT ![m] = x][m] = x
              /\ \A k \in 1 .. m - 1 : [u EXCEPT ![m] = x][k] = u[k]
          BY <4>1
        <4> QED BY <4>2 DEF x, u
      <3>4. /\ digit \in QuadState
            /\ digit.ok = p.ok /\ digit.tmp = t /\ digit.saw_digit = p.saw_digit + 1
            /\ digit.octets = IF p.saw_digit = 0 THEN p.octets + 1 ELSE p.octets
        <4> DEFINE a == p.saw_digit + 1
                   b == IF p.saw_digit = 0 THEN p.octets + 1 ELSE p.octets
                   d == digit
        <4>1. a \in Nat /\ b \in Nat
          BY <1>0 DEF QuadState
        <4>2. d = [p EXCEPT !.tmp = t, !.saw_digit = a, !.octets = b]
          OBVIOUS
        <4>3. p \in QuadState /\ t \in Seq(Nat)
          BY <1>0, <3>3
        <4> HIDE DEF a, b, d, t
        <4>4. d \in QuadState
          BY ONLY <4>1, <4>2, <4>3 DEF QuadState
        <4>5. d.ok = p.ok /\ d.tmp = t /\ d.saw_digit = a /\ d.octets = b
          BY ONLY <4>1, <4>2, <4>3 DEF QuadState
        <4> QED BY ONLY <4>4, <4>5 DEF a, b, d
      <3> HIDE DEF t
      <3>5. /\ q.ok /\ q.tmp = t /\ q.saw_digit = size + 1
            /\ q.octets = IF size = 0 THEN p.octets + 1 ELSE p.octets
            /\ q \in State
        <4> HIDE DEF digit, q, State
        <4> QED BY <1>0, <1>2, <1>10, <3>1, <3>4
      <3>6. /\ Len(new) = n
            /\ \A k \in 1 .. n - 1 : new[k] = parts[k]
            /\ new[n] = Append(last, c)
        <4> DEFINE w == new
        <4>1. w = SplitNext(c, Dot, parts) /\ parts \in Seq(Seq(Nat)) /\ Len(parts) >= 1
              /\ c \in Nat /\ c # Dot
          BY <1>1, <1>10
        <4> HIDE DEF w
        <4>2. /\ Len(w) = Len(parts)
              /\ \A k \in 1 .. Len(parts) - 1 : w[k] = parts[k]
              /\ w[Len(parts)] = Append(parts[Len(parts)], c)
          <5>1. Added(w, parts, c)
            BY ONLY <4>1, SplitAdds
          <5> QED BY ONLY <5>1 DEF Added
        <4> QED BY ONLY <4>2 DEF w
      <3>7. Value(new[n], 10) = v * 10 + c /\ Len(new[n]) = size + 1 /\ new[n] # <<>>
        <4>1. Value(Append(last, c), 10) = Value(last, 10) * 10 + c
          BY <1>3, ValueAppend
        <4>2. Len(Append(last, c)) = size + 1
          BY <1>3
        <4>3. Append(last, c) # <<>>
          BY <1>3
        <4> HIDE DEF new, v, last, size
        <4> QED BY <2>1, <3>6, <4>1, <4>2, <4>3
      <3>8. q.octets = n
        <4>1. p.octets = IF size = 0 THEN n - 1 ELSE n
          BY <1>2, <1>3, <1>10
        <4> HIDE DEF q, size
        <4> QED BY <1>1, <3>5, <4>1
      <3>9. \A k \in 1 .. n : t[k] = Value(new[k], 10)
        <4>1. ASSUME NEW k \in 1 .. n - 1 PROVE t[k] = Value(new[k], 10)
          <5>1. k \in 1 .. n
            BY <1>1
          <5> QED BY <1>2, <1>10, <3>3, <3>6, <4>1, <5>1
        <4>2. t[n] = Value(new[n], 10)
          BY <1>2, <1>10, <3>3, <3>7
        <4>3. \A k \in 1 .. n : k \in 1 .. n - 1 \/ k = n
          BY <1>1
        <4> QED BY <4>1, <4>2, <4>3
      <3>10. GoodParts(new)
        BY <2>2, <2>5
      <3>11. Len(t) = n /\ Len(t) >= 1
        BY <1>1, <1>2, <1>10, <3>3
      <3> HIDE DEF q, new, State
      <3> QED BY <1>5, <3>5, <3>6, <3>7, <3>8, <3>9, <3>10, <3>11 DEF QuadInv, State
    <2> QED BY <2>4, <2>5
  <1>11. ASSUME p.ok, c = Dot PROVE QuadInv(q, new)
    <2> DEFINE Fits == n # 4 /\ last # <<>>
    <2>0. c \notin Digit
      BY <1>11 DEF Digit, Dot
    <2>1. GoodParts(new) <=> Fits
      BY <1>1, <1>11, OctetsCut
    <2>2. Fits <=> p.saw_digit > 0 /\ p.octets # 4
      <3>1. p.saw_digit = size /\ p.octets = IF last = <<>> THEN n - 1 ELSE n
        BY <1>2, <1>11
      <3> HIDE DEF last, size
      <3> QED BY <1>1, <1>3, <3>1
    <2>3. CASE ~Fits
      <3>1. q = no
        <4> HIDE DEF Fits
        <4> QED BY <1>11, <2>0, <2>2, <2>3 DEF QuadNext
      <3> QED BY <1>8, <2>1, <2>3, <3>1
    <2>4. CASE Fits
      <3>1. q = dot
        <4> HIDE DEF Fits
        <4> QED BY <1>11, <2>0, <2>2, <2>4 DEF QuadNext
      <3> DEFINE t == Append(p.tmp, 0)
      <3>2. /\ t \in Seq(Nat) /\ Len(t) = Len(p.tmp) + 1 /\ t[Len(p.tmp) + 1] = 0
            /\ \A k \in 1 .. Len(p.tmp) : t[k] = p.tmp[k]
        BY <1>1
      <3>3. /\ dot \in QuadState
            /\ dot.ok = p.ok /\ dot.tmp = t /\ dot.saw_digit = 0 /\ dot.octets = p.octets
        BY <1>0, <3>2, QuadDot
      <3> HIDE DEF t
      <3>4. q.ok /\ q.tmp = t /\ q.saw_digit = 0 /\ q.octets = n /\ q \in State
        <4>1. p.octets = n /\ p.octets \in Nat
          BY <1>1, <1>2, <1>11, <2>4
        <4> HIDE DEF dot, q, State
        <4> QED BY <1>0, <1>11, <3>1, <3>3, <4>1
      <3>5. /\ Len(new) = n + 1 /\ new[n + 1] = <<>>
            /\ \A k \in 1 .. n : new[k] = parts[k]
        BY <1>1, <1>11, SplitCuts
      <3>6. Len(p.tmp) = n /\ \A k \in 1 .. n : p.tmp[k] = Value(parts[k], 10)
        BY <1>2, <1>11
      <3>7. \A k \in 1 .. n + 1 : t[k] = Value(new[k], 10)
        <4>1. \A k \in 1 .. n : t[k] = Value(new[k], 10)
          BY <3>2, <3>5, <3>6
        <4>2. t[n + 1] = Value(new[n + 1], 10)
          BY <3>2, <3>5, <3>6, ValueEmpty
        <4>3. \A k \in 1 .. n + 1 : k \in 1 .. n \/ k = n + 1
          BY <1>1
        <4> QED BY <4>1, <4>2, <4>3
      <3>8. GoodParts(new)
        BY <2>1, <2>4
      <3>9. Len(t) = n + 1 /\ Len(t) >= 1 /\ (n + 1) - 1 = n /\ Len(<<>>) = 0
        BY <1>1, <3>2, <3>6
      <3> HIDE DEF q, new, State, Fits
      <3> QED BY <1>5, <3>4, <3>5, <3>7, <3>8, <3>9 DEF QuadInv, State
    <2> QED BY <2>3, <2>4
  <1> QED BY <1>9, <1>10, <1>11

LEMMA QuadLoop ==
    ASSUME NEW s \in Seq(Nat)
    PROVE  /\ \A k \in 0 .. Len(s) : QuadInv(QuadSteps(s)[k], Splits(s, Dot)[k])
           /\ QuadInv(QuadSteps(s)[Len(s)], Split(s, Dot))
  <1> DEFINE g == QuadSteps(s)
             h == Splits(s, Dot)
             n == Len(s)
             S == {k \in Nat : k <= n => QuadInv(g[k], h[k])}
  <1>1. n \in Nat
    OBVIOUS
  <1>2. g[0] = QuadStart /\ \A i \in 1 .. n : g[i] = QuadNext(s[i], g[i - 1])
    BY <1>1, QuadStepsDef
  <1>3. /\ h[0] = << <<>> >> /\ (\A i \in 1 .. n : h[i] = SplitNext(s[i], Dot, h[i - 1]))
        /\ Split(s, Dot) = h[n]
    BY <1>1, SplitsDef
  <1> HIDE DEF g, h
  <1>4. 0 \in S
    <2> DEFINE parts == << <<>> >>
    <2>1. parts \in Seq(Seq(Nat)) /\ Len(parts) = 1 /\ parts[1] = <<>>
      OBVIOUS
    <2> HIDE DEF parts
    <2>2. GoodParts(parts)
      <3>1. \A k \in 1 .. 1 : k = 1
        OBVIOUS
      <3> QED BY <2>1, <3>1, OctetEmpty DEF GoodParts
    <2>3. QuadInv(QuadStart, parts)
      <3>1. \A k \in 1 .. 1 : <<0>>[k] = Value(parts[k], 10)
        BY <2>1, ValueEmpty
      <3> QED BY <2>1, <2>2, <3>1 DEF QuadInv, QuadStart
    <2> QED BY <1>2, <1>3, <2>3 DEF parts
  <1>5. ASSUME NEW k \in Nat, k \in S PROVE k + 1 \in S
    <2> SUFFICES ASSUME k + 1 <= n PROVE QuadInv(g[k + 1], h[k + 1])
      OBVIOUS
    <2>1. k + 1 \in 1 .. n /\ (k + 1) - 1 = k /\ k <= n
      BY <1>1
    <2>2. s[k + 1] \in Nat
      BY <2>1
    <2>3. QuadInv(g[k], h[k])
      BY <1>5, <2>1
    <2>4. g[k + 1] = QuadNext(s[k + 1], g[k]) /\ h[k + 1] = SplitNext(s[k + 1], Dot, h[k])
      BY <1>2, <1>3, <2>1
    <2> QED BY <2>2, <2>3, <2>4, QuadGoesOn
  <1> HIDE DEF S
  <1>6. \A k \in Nat : k \in S
    BY <1>4, <1>5, Induction
  <1>7. \A k \in 0 .. n : QuadInv(g[k], h[k])
    BY <1>1, <1>6 DEF S
  <1>8. n \in 0 .. n
    BY <1>1
  <1> QED BY <1>3, <1>7, <1>8 DEF g, h

(* What inet_pton4 takes: the dotted quads of up to four digits.           *)
LEMMA QuadIs ==
    ASSUME NEW s \in Seq(Nat)
    PROVE  inet_pton4(s) = Quad(s, 4)
  <1> DEFINE p == QuadSteps(s)[Len(s)]
             parts == Split(s, Dot)
             n == Len(parts)
             Taken == n = 4 /\ \A k \in 1 .. 4 : Numbers(parts[k], Digit, 4) /\ Value(parts[k], 10) <= 255
  <1>1. inet_pton4(s) = IF p.ok /\ p.octets = 4 THEN p.tmp ELSE Failed
    BY QuadStepsDef
  <1>2. QuadInv(p, parts)
    BY QuadLoop
  <1> HIDE DEF p, parts
  <1>3. /\ parts \in Seq(Seq(Nat)) /\ n \in Nat /\ n >= 1
        /\ p.ok <=> GoodParts(parts)
        /\ p.ok => /\ Len(p.tmp) = n /\ p.tmp \in Seq(Nat)
                   /\ \A k \in 1 .. n : p.tmp[k] = Value(parts[k], 10)
                   /\ p.octets = IF parts[n] = <<>> THEN n - 1 ELSE n
    BY <1>2 DEF QuadInv
  <1>4. \A x \in Seq(Nat) : Numbers(x, Digit, 4) /\ Value(x, 10) <= 255 <=> Octet(x) /\ x # <<>>
    <2> SUFFICES ASSUME NEW x \in Seq(Nat)
                 PROVE  Numbers(x, Digit, 4) /\ Value(x, 10) <= 255 <=> Octet(x) /\ x # <<>>
      OBVIOUS
    <2>1. Len(x) \in Nat /\ (x # <<>> <=> Len(x) >= 1)
      OBVIOUS
    <2> DEFINE size == Len(x)
    <2>2. size \in Nat /\ (x # <<>> <=> size >= 1)
      BY <2>1
    <2> HIDE DEF size
    <2>3. size \in 1 .. 4 <=> size <= 4 /\ size >= 1
      BY <2>2
    <2> QED BY <2>2, <2>3 DEF Numbers, Octet, size
  <1>5. p.ok /\ p.octets = 4 <=> Taken
    <2>1. ASSUME p.ok, p.octets = 4 PROVE Taken
      <3>1. n <= 4 /\ (\A k \in 1 .. n : Octet(parts[k])) /\ \A k \in 1 .. n - 1 : parts[k] # <<>>
        BY <1>3, <2>1 DEF GoodParts
      <3>0. n \in Nat /\ 4 = IF parts[n] = <<>> THEN n - 1 ELSE n
        BY <1>3, <2>1
      <3>2. n = 4 /\ parts[n] # <<>>
        <4> DEFINE e == parts[n] = <<>>
        <4>1. n \in Nat /\ n <= 4 /\ 4 = IF e THEN n - 1 ELSE n
          BY <3>0, <3>1
        <4> HIDE DEF n, e
        <4>2. n = 4 /\ ~e
          BY <4>1
        <4> QED BY <4>2 DEF e
      <3>3. \A k \in 1 .. 4 : Octet(parts[k]) /\ parts[k] # <<>>
        <4>1. \A k \in 1 .. 4 : k \in 1 .. 3 \/ k = 4
          OBVIOUS
        <4> HIDE DEF n
        <4> QED BY <3>1, <3>2, <4>1
      <3>4. \A k \in 1 .. n : parts[k] \in Seq(Nat)
        BY <1>3
      <3> HIDE DEF n
      <3> QED BY <1>4, <3>2, <3>3, <3>4
    <2>2. ASSUME Taken PROVE p.ok /\ p.octets = 4
      <3>1. \A k \in 1 .. 4 : parts[k] \in Seq(Nat)
        <4>1. \A k \in 1 .. n : parts[k] \in Seq(Nat)
          BY <1>3
        <4> HIDE DEF n
        <4> QED BY <2>2, <4>1
      <3>2. \A k \in 1 .. 4 : Octet(parts[k]) /\ parts[k] # <<>>
        BY <1>4, <2>2, <3>1
      <3>3. n = 4
        BY <2>2
      <3> HIDE DEF n
      <3>4. GoodParts(parts)
        <4>1. \A k \in 1 .. 4 - 1 : k \in 1 .. 4
          OBVIOUS
        <4> QED BY <3>2, <3>3, <4>1 DEF GoodParts, n
      <3> QED BY <1>3, <3>2, <3>3, <3>4
    <2> HIDE DEF Taken
    <2> QED BY <2>1, <2>2
  <1>6. ASSUME p.ok, p.octets = 4 PROVE p.tmp = [k \in 1 .. 4 |-> Value(parts[k], 10)]
    <2>1. n = 4
      BY <1>5, <1>6
    <2>2. Len(p.tmp) = 4 /\ p.tmp \in Seq(Nat) /\ \A k \in 1 .. 4 : p.tmp[k] = Value(parts[k], 10)
      BY <1>3, <1>6, <2>1
    <2> DEFINE u == p.tmp
               w == [k \in 1 .. 4 |-> Value(parts[k], 10)]
    <2>3. \A k \in 1 .. 4 : w[k] = Value(parts[k], 10)
      OBVIOUS
    <2>4. w = [k \in 1 .. 4 |-> u[k]]
      BY <2>2
    <2>5. u \in Seq(Nat) /\ Len(u) = 4
      BY <2>2
    <2> HIDE DEF u, w
    <2>6. u = [k \in 1 .. 4 |-> u[k]]
      BY <2>5
    <2> QED BY <2>4, <2>6 DEF u, w
  <1>7. Quad(s, 4) = IF Taken THEN [k \in 1 .. 4 |-> Value(parts[k], 10)] ELSE Failed
    BY DEF Quad, parts
  <1> DEFINE values == [k \in 1 .. 4 |-> Value(parts[k], 10)]
  <1>8. p.ok /\ p.octets = 4 => p.tmp = values
    BY <1>6
  <1>9. Quad(s, 4) = IF Taken THEN values ELSE Failed
    BY <1>7
  <1> HIDE DEF Taken, values
  <1> QED BY ONLY <1>1, <1>5, <1>8, <1>9

(* Parts of up to three digits: four digits are not more than three.       *)
LEMMA QuadThree ==
    ASSUME NEW s \in Seq(Nat), ShortOctets(s)
    PROVE  Quad(s, 4) = Quad(s, 3)
  <1> DEFINE parts == Split(s, Dot)
             n == Len(parts)
             Is(k, most) == Numbers(parts[k], Digit, most) /\ Value(parts[k], 10) <= 255
             values == [k \in 1 .. 4 |-> Value(parts[k], 10)]
             Quad4 == n = 4 /\ \A k \in 1 .. 4 : Is(k, 4)
             Quad3 == n = 4 /\ \A k \in 1 .. 4 : Is(k, 3)
  <1>1. n = 4 => \A k \in 1 .. 4 : Len(parts[k]) \in 0 .. 3
    <2>1. parts \in Seq(Seq(Nat))
      BY QuadLoop DEF QuadInv
    <2>2. n = 4 => \A k \in 1 .. 4 : Len(parts[k]) <= 3
      BY DEF ShortOctets
    <2> HIDE DEF parts
    <2>3. \A k \in 1 .. n : Len(parts[k]) \in Nat
      BY <2>1
    <2>4. ASSUME n = 4, NEW k \in 1 .. 4 PROVE Len(parts[k]) \in 0 .. 3
      <3>1. Len(parts[k]) \in Nat /\ Len(parts[k]) <= 3
        BY <2>2, <2>3, <2>4
      <3>2. \A x \in Nat : x <= 3 => x \in 0 .. 3
        OBVIOUS
      <3> QED BY <3>1, <3>2
    <2> QED BY <2>4
  <1>2. Quad(s, 4) = IF Quad4 THEN values ELSE Failed
    BY DEF Quad
  <1>3. Quad(s, 3) = IF Quad3 THEN values ELSE Failed
    BY DEF Quad
  <1>4. \A x : x \in 0 .. 3 => (x \in 1 .. 4 <=> x \in 1 .. 3)
    OBVIOUS
  <1>5. n = 4 => \A k \in 1 .. 4 : Is(k, 4) <=> Is(k, 3)
    <2> HIDE DEF parts, n
    <2> QED BY <1>1, <1>4 DEF Numbers
  <1>6. Quad4 <=> Quad3
    <2> HIDE DEF Is, n
    <2> QED BY <1>5
  <1> HIDE DEF Quad4, Quad3, values
  <1> QED BY <1>2, <1>3, <1>6

LEMMA ValueOfThree ==
    ASSUME NEW part \in Seq(Nat), Len(part) = 3
    PROVE  Value(part, 10) = part[1] * 100 + part[2] * 10 + part[3]
  <1> DEFINE v == Values(part, 10)
             a == part[1]
             b == part[2]
             c == part[3]
  <1>1. a \in Nat /\ b \in Nat /\ c \in Nat /\ Len(part) \in Nat
    <2>1. \A i \in 1 .. Len(part) : part[i] \in Nat
      BY Elements
    <2>2. 1 \in 1 .. Len(part) /\ 2 \in 1 .. Len(part) /\ 3 \in 1 .. Len(part)
      OBVIOUS
    <2> QED BY <2>1, <2>2
  <1>2. Value(part, 10) = v[3] /\ v[0] = 0 /\ \A i \in 1 .. 3 : v[i] = v[i - 1] * 10 + part[i]
    <2>1. /\ Value(part, 10) = v[Len(part)] /\ v[0] = 0
          /\ \A i \in 1 .. Len(part) : v[i] = v[i - 1] * 10 + part[i]
      BY <1>1, ValuesDef
    <2>2. Len(part) = 3
      OBVIOUS
    <2> HIDE DEF v
    <2> QED BY ONLY <2>1, <2>2
  <1>3. 1 \in 1 .. 3 /\ 2 \in 1 .. 3 /\ 3 \in 1 .. 3 /\ 1 - 1 = 0 /\ 2 - 1 = 1 /\ 3 - 1 = 2
    OBVIOUS
  <1> HIDE DEF v
  <1>4. v[1] = 0 * 10 + a /\ v[2] = v[1] * 10 + b /\ v[3] = v[2] * 10 + c
    <2>1. v[1] = v[1 - 1] * 10 + part[1] /\ v[2] = v[2 - 1] * 10 + part[2] /\ v[3] = v[3 - 1] * 10 + part[3]
      BY ONLY <1>2, <1>3
    <2> QED BY ONLY <1>2, <1>3, <2>1 DEF a, b, c
  <1> HIDE DEF a, b, c
  <1>5. v[1] = a
    BY ONLY <1>1, <1>4
  <1>6. v[2] = a * 10 + b
    BY ONLY <1>4, <1>5
  <1>7. v[3] = (a * 10 + b) * 10 + c
    BY ONLY <1>4, <1>6
  <1>8. (a * 10 + b) * 10 + c = a * 100 + b * 10 + c
    BY ONLY <1>1
  <1>9. Value(part, 10) = a * 100 + b * 10 + c
    BY ONLY <1>2, <1>7, <1>8
  <1> QED BY ONLY <1>9 DEF a, b, c

(* Three more digits.                                                      *)
WithThree(w, u, part, n) ==
    /\ w \in Seq(Nat) /\ Len(w) = n + 3
    /\ \A i \in 1 .. n : w[i] = u[i]
    /\ w[n + 1] = part[1] /\ w[n + 2] = part[2] /\ w[n + 3] = part[3]

LEMMA ThreeMore ==
    ASSUME NEW u \in Seq(Nat), NEW part \in Seq(Nat), Len(part) = 3,
           NEW n \in Nat, n = Len(u)
    PROVE  WithThree(u \o part, u, part, n)
  <1> DEFINE w == u \o part
  <1>1. /\ w \in Seq(Nat) /\ Len(w) = Len(u) + Len(part)
        /\ \A i \in 1 .. Len(u) + Len(part) :
              w[i] = IF i <= Len(u) THEN u[i] ELSE part[i - Len(u)]
    BY ConcatProperties
  <1> HIDE DEF w
  <1>2. w \in Seq(Nat) /\ Len(w) = n + 3
    BY <1>1
  <1>3. \A i \in 1 .. n + 3 : w[i] = IF i <= n THEN u[i] ELSE part[i - n]
    BY <1>1
  <1>4. n \in Nat
    OBVIOUS
  <1>5. /\ \A i \in 1 .. n : i \in 1 .. n + 3 /\ i <= n
        /\ n + 1 \in 1 .. n + 3 /\ ~(n + 1 <= n) /\ (n + 1) - n = 1
        /\ n + 2 \in 1 .. n + 3 /\ ~(n + 2 <= n) /\ (n + 2) - n = 2
        /\ n + 3 \in 1 .. n + 3 /\ ~(n + 3 <= n) /\ (n + 3) - n = 3
    BY ONLY <1>4
  <1>6. \A i \in 1 .. n : w[i] = u[i]
    BY ONLY <1>3, <1>5
  <1>7. w[n + 1] = part[1] /\ w[n + 2] = part[2] /\ w[n + 3] = part[3]
    BY ONLY <1>3, <1>5
  <1> QED BY ONLY <1>2, <1>6, <1>7 DEF w, WithThree

(* Four times three digits are the number of a telephone.                  *)
Twelve(s, p1, p2, p3, p4) ==
    /\ s[1] = p1[1] /\ s[2] = p1[2] /\ s[3] = p1[3]
    /\ s[4] = p2[1] /\ s[5] = p2[2] /\ s[6] = p2[3]
    /\ s[7] = p3[1] /\ s[8] = p3[2] /\ s[9] = p3[3]
    /\ s[10] = p4[1] /\ s[11] = p4[2] /\ s[12] = p4[3]

LEMMA TwelveDigits ==
    ASSUME NEW p1 \in Seq(Nat), NEW p2 \in Seq(Nat), NEW p3 \in Seq(Nat), NEW p4 \in Seq(Nat),
           Len(p1) = 3, Len(p2) = 3, Len(p3) = 3, Len(p4) = 3
    PROVE  Twelve(p1 \o p2 \o p3 \o p4, p1, p2, p3, p4)
  <1> DEFINE u == p1 \o p2
             w == u \o p3
             s == w \o p4
  <1>1. /\ u \in Seq(Nat) /\ Len(u) = 6
        /\ \A i \in 1 .. 3 : u[i] = p1[i]
        /\ u[4] = p2[1] /\ u[5] = p2[2] /\ u[6] = p2[3]
    <2>0. 3 = Len(p1) /\ 3 \in Nat /\ Len(p2) = 3 /\ p1 \in Seq(Nat) /\ p2 \in Seq(Nat)
      OBVIOUS
    <2>1. WithThree(p1 \o p2, p1, p2, 3)
      BY ONLY <2>0, ThreeMore
    <2>3. /\ u \in Seq(Nat) /\ Len(u) = 3 + 3
          /\ \A i \in 1 .. 3 : u[i] = p1[i]
          /\ u[3 + 1] = p2[1] /\ u[3 + 2] = p2[2] /\ u[3 + 3] = p2[3]
      BY ONLY <2>1 DEF u, WithThree
    <2> HIDE DEF u
    <2> QED BY ONLY <2>3
  <1> HIDE DEF u
  <1>2. /\ w \in Seq(Nat) /\ Len(w) = 9
        /\ \A i \in 1 .. 6 : w[i] = u[i]
        /\ w[7] = p3[1] /\ w[8] = p3[2] /\ w[9] = p3[3]
    <2>0. 6 = Len(u) /\ 6 \in Nat /\ Len(p3) = 3 /\ u \in Seq(Nat) /\ p3 \in Seq(Nat)
      BY <1>1
    <2>1. WithThree(u \o p3, u, p3, 6)
      BY ONLY <2>0, ThreeMore
    <2>3. /\ w \in Seq(Nat) /\ Len(w) = 6 + 3
          /\ \A i \in 1 .. 6 : w[i] = u[i]
          /\ w[6 + 1] = p3[1] /\ w[6 + 2] = p3[2] /\ w[6 + 3] = p3[3]
      BY ONLY <2>1 DEF w, WithThree
    <2> HIDE DEF w
    <2> QED BY ONLY <2>3
  <1> HIDE DEF w
  <1>4. /\ \A i \in 1 .. 9 : s[i] = w[i]
        /\ s[10] = p4[1] /\ s[11] = p4[2] /\ s[12] = p4[3]
    <2>0. 9 = Len(w) /\ 9 \in Nat /\ Len(p4) = 3 /\ w \in Seq(Nat) /\ p4 \in Seq(Nat)
      BY <1>2
    <2> DEFINE z == w \o p4
    <2>1. WithThree(w \o p4, w, p4, 9)
      BY ONLY <2>0, ThreeMore
    <2>3. /\ z \in Seq(Nat) /\ Len(z) = 9 + 3
          /\ \A i \in 1 .. 9 : z[i] = w[i]
          /\ z[9 + 1] = p4[1] /\ z[9 + 2] = p4[2] /\ z[9 + 3] = p4[3]
      BY ONLY <2>1 DEF z, WithThree
    <2>2. s = z
      OBVIOUS
    <2> HIDE DEF z, s
    <2> QED BY ONLY <2>3, <2>2
  <1> HIDE DEF s
  <1>5. s[1] = w[1] /\ s[2] = w[2] /\ s[3] = w[3] /\ s[4] = w[4] /\ s[5] = w[5] /\ s[6] = w[6]
        /\ s[7] = w[7] /\ s[8] = w[8] /\ s[9] = w[9]
    BY ONLY <1>4
  <1>6. w[1] = u[1] /\ w[2] = u[2] /\ w[3] = u[3] /\ w[4] = u[4] /\ w[5] = u[5] /\ w[6] = u[6]
    BY ONLY <1>2
  <1>7. u[1] = p1[1] /\ u[2] = p1[2] /\ u[3] = p1[3]
    BY ONLY <1>1
  <1>8. Twelve(s, p1, p2, p3, p4)
    BY ONLY <1>1, <1>2, <1>4, <1>5, <1>6, <1>7 DEF Twelve
  <1> QED BY ONLY <1>8 DEF s, w, u

(* They are read as the dotted quad of the four parts.                     *)
LEMMA PhoneIsQuad ==
    ASSUME NEW s \in Seq(Nat), NEW parts \in Seq(Seq(Nat)), parts = Split(s, Dot),
           Len(parts) = 4, \A k \in 1 .. 4 : Len(parts[k]) = 3
    PROVE  mobile_parse_phoneaddr(parts[1] \o parts[2] \o parts[3] \o parts[4]) = Quad(s, 4)
  <1> DEFINE w == parts[1] \o parts[2] \o parts[3] \o parts[4]
             octet(y) == w[3 * y - 2] * 100 + w[3 * y - 1] * 10 + w[3 * y]
             Phone == /\ \A i \in 1 .. 12 : w[i] \in Digit
                      /\ \A y \in 1 .. 4 : octet(y) <= 255
             Dotted == \A k \in 1 .. 4 : Numbers(parts[k], Digit, 4) /\ Value(parts[k], 10) <= 255
             o == [y \in 1 .. 4 |-> octet(y)]
             v == [k \in 1 .. 4 |-> Value(parts[k], 10)]
  <1>1. mobile_parse_phoneaddr(w) = IF Phone THEN o ELSE Failed
    BY DEF mobile_parse_phoneaddr
  <1>2. Quad(s, 4) = IF Dotted THEN v ELSE Failed
    BY DEF Quad
  <1>3. \A k \in 1 .. 4 : parts[k] \in Seq(Nat) /\ Len(parts[k]) = 3
    <2>1. \A k \in 1 .. Len(parts) : parts[k] \in Seq(Nat)
      BY Elements
    <2> QED BY <2>1
  <1>4. /\ w[1] = parts[1][1] /\ w[2] = parts[1][2] /\ w[3] = parts[1][3]
        /\ w[4] = parts[2][1] /\ w[5] = parts[2][2] /\ w[6] = parts[2][3]
        /\ w[7] = parts[3][1] /\ w[8] = parts[3][2] /\ w[9] = parts[3][3]
        /\ w[10] = parts[4][1] /\ w[11] = parts[4][2] /\ w[12] = parts[4][3]
    <2> DEFINE p1 == parts[1]
               p2 == parts[2]
               p3 == parts[3]
               p4 == parts[4]
    <2>1. /\ p1 \in Seq(Nat) /\ p2 \in Seq(Nat) /\ p3 \in Seq(Nat) /\ p4 \in Seq(Nat)
          /\ Len(p1) = 3 /\ Len(p2) = 3 /\ Len(p3) = 3 /\ Len(p4) = 3
      BY <1>3
    <2>2. w = p1 \o p2 \o p3 \o p4
      OBVIOUS
    <2> HIDE DEF p1, p2, p3, p4, w
    <2>4. Twelve(p1 \o p2 \o p3 \o p4, p1, p2, p3, p4)
      BY ONLY <2>1, TwelveDigits, Zenon
    <2>3. /\ w[1] = p1[1] /\ w[2] = p1[2] /\ w[3] = p1[3]
          /\ w[4] = p2[1] /\ w[5] = p2[2] /\ w[6] = p2[3]
          /\ w[7] = p3[1] /\ w[8] = p3[2] /\ w[9] = p3[3]
          /\ w[10] = p4[1] /\ w[11] = p4[2] /\ w[12] = p4[3]
      BY ONLY <2>2, <2>4 DEF Twelve
    <2> QED BY ONLY <2>3 DEF p1, p2, p3, p4
  <1> HIDE DEF w
  <1>5. \A y \in 1 .. 4 :
           w[3 * y - 2] = parts[y][1] /\ w[3 * y - 1] = parts[y][2] /\ w[3 * y] = parts[y][3]
    <2> SUFFICES ASSUME NEW y \in 1 .. 4
                 PROVE  w[3 * y - 2] = parts[y][1] /\ w[3 * y - 1] = parts[y][2] /\ w[3 * y] = parts[y][3]
      OBVIOUS
    <2>1. CASE y = 1
      <3>1. 3 * y - 2 = 1 /\ 3 * y - 1 = 2 /\ 3 * y = 3
        BY <2>1
      <3> QED BY ONLY <1>4, <2>1, <3>1
    <2>2. CASE y = 2
      <3>1. 3 * y - 2 = 4 /\ 3 * y - 1 = 5 /\ 3 * y = 6
        BY <2>2
      <3> QED BY ONLY <1>4, <2>2, <3>1
    <2>3. CASE y = 3
      <3>1. 3 * y - 2 = 7 /\ 3 * y - 1 = 8 /\ 3 * y = 9
        BY <2>3
      <3> QED BY ONLY <1>4, <2>3, <3>1
    <2>4. CASE y = 4
      <3>1. 3 * y - 2 = 10 /\ 3 * y - 1 = 11 /\ 3 * y = 12
        BY <2>4
      <3> QED BY ONLY <1>4, <2>4, <3>1
    <2>5. y = 1 \/ y = 2 \/ y = 3 \/ y = 4
      OBVIOUS
    <2> QED BY <2>1, <2>2, <2>3, <2>4, <2>5
  <1>6. \A y \in 1 .. 4 : octet(y) = Value(parts[y], 10)
    <2> SUFFICES ASSUME NEW y \in 1 .. 4 PROVE octet(y) = Value(parts[y], 10)
      OBVIOUS
    <2>1. Value(parts[y], 10) = parts[y][1] * 100 + parts[y][2] * 10 + parts[y][3]
      BY <1>3, ValueOfThree
    <2> QED BY ONLY <1>5, <2>1, y \in 1 .. 4
  <1>7. (\A i \in 1 .. 12 : w[i] \in Digit) <=>
            \A y \in 1 .. 4 : parts[y][1] \in Digit /\ parts[y][2] \in Digit /\ parts[y][3] \in Digit
    <2>1. (\A i \in 1 .. 12 : w[i] \in Digit) <=>
              /\ w[1] \in Digit /\ w[2] \in Digit /\ w[3] \in Digit
              /\ w[4] \in Digit /\ w[5] \in Digit /\ w[6] \in Digit
              /\ w[7] \in Digit /\ w[8] \in Digit /\ w[9] \in Digit
              /\ w[10] \in Digit /\ w[11] \in Digit /\ w[12] \in Digit
      <3>1. \A i \in 1 .. 12 : i \in {1, 2, 3, 4, 5, 6, 7, 8, 9, 10, 11, 12}
        OBVIOUS
      <3>2. \A i \in {1, 2, 3, 4, 5, 6, 7, 8, 9, 10, 11, 12} : i \in 1 .. 12
        OBVIOUS
      <3> QED BY ONLY <3>1, <3>2
    <2>2. \A y \in 1 .. 4 : y \in {1, 2, 3, 4}
      OBVIOUS
    <2>3. 1 \in 1 .. 4 /\ 2 \in 1 .. 4 /\ 3 \in 1 .. 4 /\ 4 \in 1 .. 4
      OBVIOUS
    <2>4. (\A y \in 1 .. 4 : parts[y][1] \in Digit /\ parts[y][2] \in Digit /\ parts[y][3] \in Digit) <=>
              /\ parts[1][1] \in Digit /\ parts[1][2] \in Digit /\ parts[1][3] \in Digit
              /\ parts[2][1] \in Digit /\ parts[2][2] \in Digit /\ parts[2][3] \in Digit
              /\ parts[3][1] \in Digit /\ parts[3][2] \in Digit /\ parts[3][3] \in Digit
              /\ parts[4][1] \in Digit /\ parts[4][2] \in Digit /\ parts[4][3] \in Digit
      BY ONLY <2>2, <2>3
    <2> QED BY ONLY <1>4, <2>1, <2>4
  <1>8. \A y \in 1 .. 4 : Numbers(parts[y], Digit, 4) <=>
            parts[y][1] \in Digit /\ parts[y][2] \in Digit /\ parts[y][3] \in Digit
    <2>1. 3 \in 1 .. 4 /\ (\A i \in 1 .. 3 : i = 1 \/ i = 2 \/ i = 3) /\ 1 \in 1 .. 3 /\ 2 \in 1 .. 3 /\ 3 \in 1 .. 3
      OBVIOUS
    <2> QED BY ONLY <1>3, <2>1 DEF Numbers
  <1>9. o = v
    <2> HIDE DEF octet
    <2> QED BY <1>6
  <1>10. Phone <=> Dotted
    <2> HIDE DEF octet
    <2> QED BY ONLY <1>6, <1>7, <1>8 DEF Phone, Dotted
  <1> HIDE DEF Phone, Dotted, o, v
  <1>11. mobile_parse_phoneaddr(w) = Quad(s, 4)
    BY ONLY <1>1, <1>2, <1>9, <1>10
  <1> QED BY <1>11 DEF w

(* A dotted quad has no other characters than digits and dots: any other   *)
(* character ends the loop with a failure.                                 *)
LEMMA QuadCharacters ==
    ASSUME NEW s \in Seq(Nat), inet_pton4(s) # Failed
    PROVE  \A i \in 1 .. Len(s) : s[i] \in Digit \cup {Dot}
  <1> DEFINE h == Splits(s, Dot)
             n == Len(s)
             Good(i) == s[i] \in Digit \cup {Dot}
             S == {k \in Nat : k <= n => (GoodParts(h[k]) => \A i \in 1 .. k : Good(i))}
  <1>1. s \in Seq(Nat) /\ n \in Nat
    OBVIOUS
  <1>2. \A i \in 1 .. n : h[i] = SplitNext(s[i], Dot, h[i - 1])
    BY <1>1, SplitsDef
  <1>3. \A k \in 0 .. n : h[k] \in Seq(Seq(Nat)) /\ Len(h[k]) >= 1
    BY <1>1, QuadLoop DEF QuadInv
  <1>4. GoodParts(h[n])
    <2>1. QuadSteps(s)[n].ok
      BY <1>1, QuadStepsDef
    <2>2. QuadInv(QuadSteps(s)[n], h[n])
      BY <1>1, QuadLoop
    <2> HIDE DEF h, n
    <2> QED BY <2>1, <2>2 DEF QuadInv
  <1> HIDE DEF h, n
  <1>5. 0 \in S
    OBVIOUS
  <1>6. ASSUME NEW k \in Nat, k \in S PROVE k + 1 \in S
    <2> SUFFICES ASSUME k + 1 <= n, GoodParts(h[k + 1])
                 PROVE  \A i \in 1 .. k + 1 : Good(i)
      OBVIOUS
    <2> DEFINE c == s[k + 1]
               p == h[k]
               q == h[k + 1]
    <2>1. k + 1 \in 1 .. n /\ (k + 1) - 1 = k /\ k \in 0 .. n /\ k <= n
      BY <1>1
    <2>2. c \in Nat /\ q = SplitNext(c, Dot, p) /\ p \in Seq(Seq(Nat)) /\ Len(p) >= 1 /\ GoodParts(q)
      <3>1. c \in Nat
        BY <1>1, <2>1 DEF n
      <3> QED BY <1>2, <1>3, <2>1, <3>1
    <2> HIDE DEF c, p, q
    <2>3. GoodParts(p) /\ (c \in Digit \/ c = Dot)
      <3>1. CASE c = Dot
        BY <2>2, <3>1, OctetsCut
      <3>2. CASE c # Dot
        BY <2>2, <3>2, OctetsAdd
      <3> QED BY <3>1, <3>2
    <2>4. Good(k + 1)
      BY <2>3 DEF c
    <2>5. \A i \in 1 .. k : Good(i)
      BY <1>6, <2>1, <2>3 DEF p
    <2>6. \A i \in 1 .. k + 1 : i \in 1 .. k \/ i = k + 1
      OBVIOUS
    <2> HIDE DEF Good
    <2> QED BY <2>4, <2>5, <2>6
  <1> HIDE DEF S
  <1>7. n \in S
    BY <1>1, <1>5, <1>6, Induction
  <1> QED BY <1>1, <1>4, <1>7 DEF S, n

-----------------------------------------------------------------------------
(* Where a character stands: in which part, and after how many characters  *)
(* of it.                                                                  *)
Part(s, sep, i) == Len(Splits(s, sep)[i])

Depth(s, sep, i) == Len(Splits(s, sep)[i][Part(s, sep, i)])

LEMMA SplitsType ==
    ASSUME NEW s \in Seq(Nat), NEW sep
    PROVE  \A i \in 0 .. Len(s) : Splits(s, sep)[i] \in Seq(Seq(Nat)) /\ Len(Splits(s, sep)[i]) >= 1
  <1> DEFINE h == Splits(s, sep)
             n == Len(s)
             Typed(p) == p \in Seq(Seq(Nat)) /\ Len(p) >= 1
             S == {k \in Nat : k <= n => Typed(h[k])}
  <1>1. n \in Nat /\ \A i \in 1 .. n : s[i] \in Nat
    OBVIOUS
  <1>2. h[0] = << <<>> >> /\ \A i \in 1 .. n : h[i] = SplitNext(s[i], sep, h[i - 1])
    BY <1>1, SplitsDef
  <1> HIDE DEF h, n
  <1>3. 0 \in S
    <2>1. Typed(<< <<>> >>)
      OBVIOUS
    <2> HIDE DEF Typed
    <2> QED BY <1>2, <2>1
  <1>4. ASSUME NEW k \in Nat, k \in S PROVE k + 1 \in S
    <2> SUFFICES ASSUME k + 1 <= n PROVE Typed(h[k + 1])
      OBVIOUS
    <2> DEFINE p == h[k]
               q == h[k + 1]
               c == s[k + 1]
    <2>1. k + 1 \in 1 .. n /\ (k + 1) - 1 = k /\ k <= n
      BY <1>1
    <2>2. c \in Nat /\ Typed(p) /\ q = SplitNext(c, sep, p)
      BY <1>1, <1>2, <1>4, <2>1
    <2> HIDE DEF p, q, c
    <2>3. CASE c = sep
      <3>1. q = SplitNext(sep, sep, p) /\ p \in Seq(Seq(Nat))
        BY <2>2, <2>3
      <3>2. q \in Seq(Seq(Nat)) /\ Len(q) = Len(p) + 1
        BY <3>1, SplitCuts
      <3> QED BY <2>2, <3>2 DEF q
    <2>4. CASE c # sep
      <3>1. q \in Seq(Seq(Nat)) /\ Len(q) = Len(p)
        <4>1. Added(q, p, c)
          BY <2>2, <2>4, SplitAdds
        <4> QED BY <4>1 DEF Added
      <3> QED BY <2>2, <3>1 DEF q
    <2> QED BY <2>3, <2>4
  <1> HIDE DEF S
  <1>5. \A k \in Nat : k \in S
    BY <1>3, <1>4, Induction
  <1> QED BY <1>1, <1>5 DEF S, h, n

(* What later characters leave of the parts.                               *)
Keeps(a, b) ==
    /\ Len(a) <= Len(b)
    /\ \A k \in 1 .. Len(a) - 1 : b[k] = a[k]
    /\ Len(a[Len(a)]) <= Len(b[Len(a)])
    /\ \A k \in 1 .. Len(a[Len(a)]) : b[Len(a)][k] = a[Len(a)][k]

LEMMA KeepsNext ==
    ASSUME NEW a \in Seq(Seq(Nat)), Len(a) >= 1, NEW b \in Seq(Seq(Nat)), Len(b) >= 1,
           Keeps(a, b), NEW sep, NEW c \in Nat,
           NEW new, new = SplitNext(c, sep, b)
    PROVE  Keeps(a, new)
  <1> DEFINE n == Len(a)
             m == Len(b)
             x == a[n]
             y == b[n]
             z == new[n]
             w == new[m]
  <1>1. n \in Nat /\ m \in Nat /\ n >= 1 /\ n <= m /\ x \in Seq(Nat) /\ Len(x) \in Nat
    BY DEF Keeps
  <1>2. /\ \A k \in 1 .. n - 1 : b[k] = a[k]
        /\ Len(x) <= Len(y) /\ \A k \in 1 .. Len(x) : y[k] = x[k]
    BY DEF Keeps
  <1>3. y \in Seq(Nat) /\ Len(y) \in Nat
    BY <1>1
  <1>4. CASE c = sep
    <2>1. new = SplitNext(sep, sep, b)
      BY <1>4
    <2>2. Len(new) = m + 1 /\ \A k \in 1 .. m : new[k] = b[k]
      BY <2>1, SplitCuts
    <2> HIDE DEF n, m, x, y
    <2>3. n <= m + 1 /\ n \in 1 .. m /\ \A k \in 1 .. n - 1 : k \in 1 .. m
      BY <1>1
    <2>4. z = y /\ \A k \in 1 .. n - 1 : new[k] = a[k]
      BY <1>2, <2>2, <2>3 DEF y
    <2> QED BY <1>2, <2>2, <2>3, <2>4 DEF Keeps, n, x, y
  <1>5. CASE c # sep
    <2>1. /\ Len(new) = m
          /\ \A k \in 1 .. m - 1 : new[k] = b[k]
          /\ new[m] = Append(b[m], c)
      <3>1. b \in Seq(Seq(Nat)) /\ Len(b) >= 1 /\ c \in Nat /\ c # sep /\ new = SplitNext(c, sep, b)
        BY ONLY <1>5, b \in Seq(Seq(Nat)), Len(b) >= 1, c \in Nat, new = SplitNext(c, sep, b)
      <3>2. Added(new, b, c)
        BY ONLY <3>1, SplitAdds
      <3> QED BY ONLY <3>2 DEF Added
    <2>2. Len(x) <= Len(z) /\ \A k \in 1 .. Len(x) : z[k] = x[k]
      <3>1. CASE n = m
        <4>1. z = Append(y, c)
          BY <2>1, <3>1
        <4>2. Len(z) = Len(y) + 1 /\ \A k \in 1 .. Len(y) : z[k] = y[k]
          BY <1>3, <4>1
        <4> HIDE DEF n, m, x, y, z
        <4>3. \A k \in 1 .. Len(x) : k \in 1 .. Len(y)
          BY <1>1, <1>2, <1>3
        <4>4. Len(x) <= Len(y) + 1
          BY <1>1, <1>2, <1>3
        <4> QED BY <1>2, <4>2, <4>3, <4>4
      <3>2. CASE n # m
        <4>1. n \in 1 .. m - 1
          BY <1>1, <3>2
        <4>2. z = y
          BY <2>1, <4>1
        <4> HIDE DEF n, m, x, y, z
        <4> QED BY <1>2, <4>2
      <3> QED BY <3>1, <3>2
    <2> HIDE DEF n, m, x, z
    <2>3. \A k \in 1 .. n - 1 : k \in 1 .. m - 1
      BY <1>1
    <2>4. n <= Len(new) /\ \A k \in 1 .. n - 1 : new[k] = a[k]
      BY <1>1, <1>2, <2>1, <2>3
    <2> QED BY <2>2, <2>4 DEF Keeps, n, x, z
  <1> QED BY <1>4, <1>5

LEMMA SplitsKeep ==
    ASSUME NEW s \in Seq(Nat), NEW sep, NEW i \in 0 .. Len(s)
    PROVE  Keeps(Splits(s, sep)[i], Split(s, sep))
  <1> DEFINE h == Splits(s, sep)
             n == Len(s)
             S == {k \in Nat : i + k <= n => Keeps(h[i], h[i + k])}
  <1>1. n \in Nat /\ i \in Nat /\ i <= n /\ \A j \in 1 .. n : s[j] \in Nat
    OBVIOUS
  <1>2. Split(s, sep) = h[n] /\ \A j \in 1 .. n : h[j] = SplitNext(s[j], sep, h[j - 1])
    BY <1>1, SplitsDef
  <1>3. \A j \in 0 .. n : h[j] \in Seq(Seq(Nat)) /\ Len(h[j]) >= 1
    BY SplitsType
  <1> HIDE DEF h, n
  <1>4. 0 \in S
    <2>1. h[i] \in Seq(Seq(Nat)) /\ Len(h[i]) \in Nat /\ Len(h[i]) >= 1 /\ h[i][Len(h[i])] \in Seq(Nat)
      BY <1>1, <1>3
    <2>2. Keeps(h[i], h[i])
      BY <2>1 DEF Keeps
    <2>3. i + 0 = i
      BY <1>1
    <2> QED BY <2>2, <2>3
  <1>5. ASSUME NEW k \in Nat, k \in S PROVE k + 1 \in S
    <2> SUFFICES ASSUME i + (k + 1) <= n PROVE Keeps(h[i], h[i + (k + 1)])
      OBVIOUS
    <2> DEFINE j == i + k
    <2>1. j \in 0 .. n /\ j + 1 \in 1 .. n /\ (j + 1) - 1 = j /\ i + (k + 1) = j + 1 /\ i + k <= n /\ i \in 0 .. n
      BY <1>1
    <2>2. Keeps(h[i], h[j])
      BY <1>5, <2>1
    <2> HIDE DEF j
    <2>3. h[j + 1] = SplitNext(s[j + 1], sep, h[j]) /\ s[j + 1] \in Nat
      BY <1>1, <1>2, <2>1
    <2>4. Keeps(h[i], h[j + 1])
      BY <1>3, <2>1, <2>2, <2>3, KeepsNext
    <2> QED BY <2>1, <2>4
  <1> HIDE DEF S
  <1>6. n - i \in S
    <2>1. n - i \in Nat
      BY <1>1
    <2> QED BY <1>4, <1>5, <2>1, Induction
  <1>7. i + (n - i) = n
    BY <1>1
  <1> QED BY <1>1, <1>2, <1>6, <1>7 DEF S, h

(* A walk over a text, a character at a time, in terms of its parts.       *)
LEMMA Walk ==
    ASSUME NEW s \in Seq(Nat), NEW sep
    PROVE  LET parts == Split(s, sep)
           IN  /\ parts \in Seq(Seq(Nat)) /\ Len(parts) >= 1
               /\ Part(s, sep, 0) = 1 /\ Depth(s, sep, 0) = 0
               /\ \A i \in 0 .. Len(s) :
                     /\ Part(s, sep, i) \in 1 .. Len(parts)
                     /\ Depth(s, sep, i) \in 0 .. Len(parts[Part(s, sep, i)])
               /\ Part(s, sep, Len(s)) = Len(parts)
               /\ Depth(s, sep, Len(s)) = Len(parts[Len(parts)])
               /\ \A i \in 0 .. Len(s) - 1 :
                     IF s[i + 1] = sep
                     THEN /\ Part(s, sep, i + 1) = Part(s, sep, i) + 1
                          /\ Depth(s, sep, i + 1) = 0
                          /\ Depth(s, sep, i) = Len(parts[Part(s, sep, i)])
                     ELSE /\ Part(s, sep, i + 1) = Part(s, sep, i)
                          /\ Depth(s, sep, i + 1) = Depth(s, sep, i) + 1
                          /\ parts[Part(s, sep, i)][Depth(s, sep, i) + 1] = s[i + 1]
  <1> DEFINE h == Splits(s, sep)
             n == Len(s)
             parts == Split(s, sep)
             m(i) == Part(s, sep, i)
             t(i) == Depth(s, sep, i)
  <1>1. n \in Nat /\ \A j \in 1 .. n : s[j] \in Nat
    OBVIOUS
  <1>2. /\ parts = h[n] /\ h[0] = << <<>> >>
        /\ \A j \in 1 .. n : h[j] = SplitNext(s[j], sep, h[j - 1])
    BY <1>1, SplitsDef
  <1>3. \A j \in 0 .. n : h[j] \in Seq(Seq(Nat)) /\ Len(h[j]) >= 1 /\ Keeps(h[j], parts)
    BY SplitsType, SplitsKeep
  <1>4. \A i : m(i) = Len(h[i]) /\ t(i) = Len(h[i][m(i)])
    BY DEF Part, Depth
  <1> HIDE DEF h, n, m, t, parts
  <1>5. parts \in Seq(Seq(Nat)) /\ Len(parts) >= 1 /\ m(n) = Len(parts) /\ t(n) = Len(parts[Len(parts)])
    BY <1>1, <1>2, <1>3, <1>4
  <1>6. m(0) = 1 /\ t(0) = 0
    <2>1. Len(<< <<>> >>) = 1 /\ << <<>> >>[1] = <<>> /\ Len(<<>>) = 0
      OBVIOUS
    <2> QED BY ONLY <1>2, <1>4, <2>1
  <1>7. ASSUME NEW i \in 0 .. n
        PROVE  m(i) \in 1 .. Len(parts) /\ t(i) \in 0 .. Len(parts[m(i)])
    <2>1. h[i] \in Seq(Seq(Nat)) /\ m(i) \in Nat /\ m(i) >= 1 /\ m(i) <= Len(parts)
      BY <1>3, <1>4 DEF Keeps
    <2>2. h[i][m(i)] \in Seq(Nat)
      BY <1>4, <2>1
    <2>3. t(i) \in Nat /\ t(i) <= Len(parts[m(i)])
      BY <1>3, <1>4, <2>2 DEF Keeps
    <2>4. Len(parts) \in Nat /\ m(i) \in 1 .. Len(parts)
      BY <1>5, <2>1
    <2>5. Len(parts[m(i)]) \in Nat
      BY <1>5, <2>4
    <2> QED BY <2>3, <2>4, <2>5
  <1>8. ASSUME NEW i \in 0 .. n - 1
        PROVE  IF s[i + 1] = sep
               THEN m(i + 1) = m(i) + 1 /\ t(i + 1) = 0 /\ t(i) = Len(parts[m(i)])
               ELSE m(i + 1) = m(i) /\ t(i + 1) = t(i) + 1 /\ parts[m(i)][t(i) + 1] = s[i + 1]
    <2> DEFINE p == h[i]
               q == h[i + 1]
               c == s[i + 1]
               k == m(i)
    <2>1. i \in 0 .. n /\ i + 1 \in 1 .. n /\ i + 1 \in 0 .. n /\ (i + 1) - 1 = i
      BY <1>1
    <2>2. /\ p \in Seq(Seq(Nat)) /\ Len(p) >= 1 /\ c \in Nat /\ q = SplitNext(c, sep, p)
          /\ Keeps(q, parts) /\ k = Len(p) /\ t(i) = Len(p[k])
          /\ m(i + 1) = Len(q) /\ t(i + 1) = Len(q[Len(q)])
      BY <1>1, <1>2, <1>3, <1>4, <2>1
    <2>3. k \in Nat /\ k >= 1 /\ p[k] \in Seq(Nat) /\ t(i) \in Nat
      BY <2>2
    <2> HIDE DEF p, q, c, k
    <2>4. CASE c = sep
      <3>1. q = SplitNext(sep, sep, p)
        BY <2>2, <2>4
      <3>6. Len(q) = Len(p) + 1 /\ (\A j \in 1 .. Len(p) : q[j] = p[j]) /\ q[Len(p) + 1] = <<>>
        <4>1. p \in Seq(Seq(Nat)) /\ Len(p) >= 1
          BY ONLY <2>2
        <4> QED BY ONLY <4>1, <3>1, SplitCuts
      <3>2. Len(q) = k + 1 /\ (\A j \in 1 .. k : q[j] = p[j]) /\ q[k + 1] = <<>>
        BY ONLY <2>2, <3>6
      <3>3. k \in 1 .. k /\ k \in 1 .. (k + 1) - 1
        BY <2>3
      <3>4. parts[k] = q[k] /\ q[k] = p[k]
        BY <2>2, <3>2, <3>3 DEF Keeps
      <3>5. m(i + 1) = k + 1 /\ t(i + 1) = 0 /\ t(i) = Len(parts[k])
        BY <2>2, <3>2, <3>4
      <3> QED BY <2>4, <3>5 DEF c, k
    <2>5. CASE c # sep
      <3>7. Len(q) = Len(p) /\ q[Len(p)] = Append(p[Len(p)], c)
        <4>1. p \in Seq(Seq(Nat)) /\ Len(p) >= 1 /\ c \in Nat /\ q = SplitNext(c, sep, p)
          BY ONLY <2>2
        <4>2. Added(q, p, c)
          BY ONLY <4>1, <2>5, SplitAdds
        <4> QED BY ONLY <4>2 DEF Added
      <3>1. Len(q) = k /\ q[k] = Append(p[k], c)
        BY ONLY <2>2, <3>7
      <3> DEFINE x == p[k]
                 y == q[k]
                 z == t(i) + 1
      <3>2. x \in Seq(Nat) /\ y = Append(x, c) /\ z = Len(x) + 1
        BY <2>2, <2>3, <3>1
      <3>3. Len(y) = z /\ y[z] = c /\ z \in 1 .. z
        BY <2>2, <3>2
      <3>4. \A j \in 1 .. Len(y) : parts[k][j] = y[j]
        BY <2>2, <3>1 DEF Keeps
      <3>5. parts[k][z] = c
        BY <3>3, <3>4
      <3>6. m(i + 1) = k /\ t(i + 1) = z
        BY <2>2, <3>1, <3>3
      <3> HIDE DEF x, y
      <3> QED BY <2>5, <3>5, <3>6 DEF c, k
    <2> QED BY <2>4, <2>5
  <1>9. /\ parts \in Seq(Seq(Nat)) /\ Len(parts) >= 1
        /\ m(0) = 1 /\ t(0) = 0
        /\ \A i \in 0 .. n : m(i) \in 1 .. Len(parts) /\ t(i) \in 0 .. Len(parts[m(i)])
        /\ m(n) = Len(parts)
        /\ t(n) = Len(parts[Len(parts)])
        /\ \A i \in 0 .. n - 1 :
               IF s[i + 1] = sep
               THEN m(i + 1) = m(i) + 1 /\ t(i + 1) = 0 /\ t(i) = Len(parts[m(i)])
               ELSE m(i + 1) = m(i) /\ t(i + 1) = t(i) + 1 /\ parts[m(i)][t(i) + 1] = s[i + 1]
    BY <1>5, <1>6, <1>7, <1>8
  <1> QED BY <1>9 DEF m, t, parts, n

(* The characters of a part are the last ones.                             *)
LEMMA Position ==
    ASSUME NEW s \in Seq(Nat), NEW sep
    PROVE  \A i \in 0 .. Len(s) :
              /\ Depth(s, sep, i) <= i
              /\ \A k \in 1 .. Depth(s, sep, i) :
                    Split(s, sep)[Part(s, sep, i)][k] = s[i - Depth(s, sep, i) + k]
  <1> DEFINE n == Len(s)
             parts == Split(s, sep)
             m(i) == Part(s, sep, i)
             t(i) == Depth(s, sep, i)
             At(i) == t(i) <= i /\ \A k \in 1 .. t(i) : parts[m(i)][k] = s[i - t(i) + k]
             S == {i \in Nat : i <= n => At(i)}
  <1>1. n \in Nat
    OBVIOUS
  <1>2. /\ t(0) = 0
        /\ \A i \in 0 .. n : t(i) \in 0 .. Len(parts[m(i)]) /\ parts[m(i)] \in Seq(Nat)
        /\ \A i \in 0 .. n - 1 :
               IF s[i + 1] = sep
               THEN t(i + 1) = 0
               ELSE m(i + 1) = m(i) /\ t(i + 1) = t(i) + 1 /\ parts[m(i)][t(i) + 1] = s[i + 1]
    <2>1. parts \in Seq(Seq(Nat)) /\ \A i \in 0 .. n : m(i) \in 1 .. Len(parts)
      BY Walk
    <2>2. \A i \in 0 .. n : parts[m(i)] \in Seq(Nat)
      <3> HIDE DEF parts, n, m
      <3> QED BY <2>1
    <2>3. /\ t(0) = 0 /\ \A i \in 0 .. n : t(i) \in 0 .. Len(parts[m(i)])
          /\ \A i \in 0 .. n - 1 :
               IF s[i + 1] = sep
               THEN m(i + 1) = m(i) + 1 /\ t(i + 1) = 0 /\ t(i) = Len(parts[m(i)])
               ELSE m(i + 1) = m(i) /\ t(i + 1) = t(i) + 1 /\ parts[m(i)][t(i) + 1] = s[i + 1]
      BY Walk
    <2> HIDE DEF n, parts, m, t
    <2> QED BY <2>2, <2>3
  <1> HIDE DEF n, parts, m, t
  <1>3. \A i \in 0 .. n : t(i) \in Nat
    <2> SUFFICES ASSUME NEW i \in 0 .. n PROVE t(i) \in Nat
      OBVIOUS
    <2>1. parts[m(i)] \in Seq(Nat) /\ t(i) \in 0 .. Len(parts[m(i)])
      BY <1>2
    <2>2. Len(parts[m(i)]) \in Nat
      BY <2>1
    <2> QED BY <2>1, <2>2
  <1>4. 0 \in S
    BY <1>2
  <1>5. ASSUME NEW i \in Nat, i \in S PROVE i + 1 \in S
    <2> SUFFICES ASSUME i + 1 <= n PROVE At(i + 1)
      OBVIOUS
    <2>1. i \in 0 .. n - 1 /\ i \in 0 .. n /\ i <= n
      BY <1>1
    <2>2. CASE s[i + 1] = sep
      <3>1. t(i + 1) = 0
        BY <1>2, <2>1, <2>2
      <3> QED BY <3>1
    <2>3. CASE s[i + 1] # sep
      <3> DEFINE d == t(i)
                 part == parts[m(i)]
      <3>1. d \in Nat /\ m(i + 1) = m(i) /\ t(i + 1) = d + 1 /\ part[d + 1] = s[i + 1]
        BY <1>2, <1>3, <2>1, <2>3
      <3>2. d <= i /\ \A k \in 1 .. d : part[k] = s[i - d + k]
        BY <1>5, <2>1
      <3> HIDE DEF d
      <3>3. d + 1 <= i + 1
        BY <3>1, <3>2
      <3>4. ASSUME NEW k \in 1 .. d + 1 PROVE part[k] = s[(i + 1) - (d + 1) + k]
        <4>1. (i + 1) - (d + 1) + k = i - d + k
          BY <3>1
        <4>2. CASE k = d + 1
          <5>1. i - d + k = i + 1
            BY <3>1, <4>2
          <5> QED BY <3>1, <4>1, <4>2, <5>1
        <4>3. CASE k # d + 1
          <5>1. k \in 1 .. d
            BY <3>1, <4>3
          <5> QED BY <3>2, <4>1, <5>1
        <4> QED BY <4>2, <4>3
      <3> QED BY <3>1, <3>3, <3>4
    <2> QED BY <2>2, <2>3
  <1> HIDE DEF S
  <1>6. \A i \in Nat : i \in S
    BY <1>4, <1>5, Induction
  <1>7. \A i \in 0 .. n : At(i)
    BY <1>1, <1>6 DEF S
  <1> QED BY <1>7 DEF n, parts, m, t

(* Without a separator the part goes on; with one it ends.                 *)
LEMMA Stays ==
    ASSUME NEW s \in Seq(Nat), NEW sep, NEW i \in 0 .. Len(s), NEW j \in 0 .. Len(s), i <= j
    PROVE  \/ /\ Part(s, sep, j) = Part(s, sep, i)
              /\ Depth(s, sep, j) = Depth(s, sep, i) + (j - i)
              /\ \A k \in i + 1 .. j : s[k] # sep
           \/ /\ Part(s, sep, j) > Part(s, sep, i)
              /\ \E k \in i + 1 .. j : s[k] = sep
  <1> DEFINE n == Len(s)
             m(k) == Part(s, sep, k)
             t(k) == Depth(s, sep, k)
             In(l) == m(l) = m(i) /\ t(l) = t(i) + (l - i) /\ \A k \in i + 1 .. l : s[k] # sep
             Past(l) == m(l) > m(i) /\ \E k \in i + 1 .. l : s[k] = sep
             S == {k \in Nat : i + k <= n => In(i + k) \/ Past(i + k)}
  <1>1. n \in Nat /\ i \in Nat /\ j \in Nat /\ i <= n /\ j <= n
    OBVIOUS
  <1>2. /\ \A k \in 0 .. n : m(k) \in Nat /\ t(k) \in Nat
        /\ \A k \in 0 .. n - 1 :
               IF s[k + 1] = sep THEN m(k + 1) = m(k) + 1
               ELSE m(k + 1) = m(k) /\ t(k + 1) = t(k) + 1
    <2> DEFINE parts == Split(s, sep)
    <2>1. /\ parts \in Seq(Seq(Nat))
          /\ \A k \in 0 .. n : m(k) \in 1 .. Len(parts) /\ t(k) \in 0 .. Len(parts[m(k)])
          /\ \A k \in 0 .. n - 1 :
                 IF s[k + 1] = sep
                 THEN m(k + 1) = m(k) + 1 /\ t(k + 1) = 0 /\ t(k) = Len(parts[m(k)])
                 ELSE m(k + 1) = m(k) /\ t(k + 1) = t(k) + 1 /\ parts[m(k)][t(k) + 1] = s[k + 1]
      BY Walk
    <2> HIDE DEF parts, n, m, t
    <2>2. ASSUME NEW k \in 0 .. n PROVE m(k) \in Nat /\ t(k) \in Nat
      <3>1. m(k) \in 1 .. Len(parts) /\ t(k) \in 0 .. Len(parts[m(k)]) /\ Len(parts) \in Nat
        BY <2>1
      <3>2. Len(parts[m(k)]) \in Nat
        BY <2>1, <3>1
      <3> QED BY <3>1, <3>2
    <2> QED BY <2>1, <2>2
  <1> HIDE DEF n, m, t
  <1>3. 0 \in S
    <2>1. i + 0 = i /\ i \in 0 .. n /\ t(i) + (i - i) = t(i) /\ \A k \in i + 1 .. i : FALSE
      BY <1>1, <1>2
    <2> QED BY <2>1
  <1>4. ASSUME NEW k \in Nat, k \in S PROVE k + 1 \in S
    <2> SUFFICES ASSUME i + (k + 1) <= n PROVE In(i + (k + 1)) \/ Past(i + (k + 1))
      OBVIOUS
    <2> DEFINE l == i + k
    <2>1. l \in 0 .. n - 1 /\ l \in 0 .. n /\ i + (k + 1) = l + 1 /\ i + k <= n /\ l \in Nat /\ i <= l
          /\ i \in 0 .. n /\ l + 1 \in 0 .. n
      BY <1>1
    <2>2. In(l) \/ Past(l)
      BY <1>4, <2>1
    <2> HIDE DEF l, S
    <2>3. \A x \in i + 1 .. l + 1 : x \in i + 1 .. l \/ x = l + 1
      BY <1>1, <2>1
    <2>4. l + 1 \in i + 1 .. l + 1 /\ \A x \in i + 1 .. l : x \in i + 1 .. l + 1
      BY <1>1, <2>1
    <2>5. m(i) \in Nat /\ t(i) \in Nat /\ m(l) \in Nat
      BY <1>2, <2>1
    <2>6. CASE s[l + 1] = sep
      <3>1. m(l + 1) = m(l) + 1
        BY <1>2, <2>1, <2>6
      <3>2. m(l) >= m(i)
        BY <2>2, <2>5
      <3>3. m(l + 1) > m(i)
        BY <2>5, <3>1, <3>2
      <3> QED BY <2>1, <2>4, <2>6, <3>3
    <2>7. CASE s[l + 1] # sep
      <3>1. m(l + 1) = m(l) /\ t(l + 1) = t(l) + 1
        BY <1>2, <2>1, <2>7
      <3>2. ASSUME In(l) PROVE In(l + 1)
        <4>1. t(l + 1) = t(i) + ((l + 1) - i)
          BY <1>1, <2>1, <2>5, <3>1, <3>2
        <4>2. \A x \in i + 1 .. l + 1 : s[x] # sep
          BY <2>3, <2>7, <3>2
        <4> QED BY <3>1, <3>2, <4>1, <4>2
      <3>3. ASSUME Past(l) PROVE Past(l + 1)
        BY <2>4, <3>1, <3>3
      <3> HIDE DEF In, Past
      <3> QED BY <2>1, <2>2, <3>2, <3>3
    <2> QED BY <2>6, <2>7
  <1> HIDE DEF S
  <1>5. j - i \in S
    <2>1. j - i \in Nat
      BY <1>1
    <2> QED BY <1>3, <1>4, <2>1, Induction
  <1>6. i + (j - i) = j
    BY <1>1
  <1>7. In(j) \/ Past(j)
    BY <1>1, <1>5, <1>6 DEF S
  <1> QED BY <1>7 DEF m, t

(* The last part is what is left of the text.                              *)
LEMMA LastPart ==
    ASSUME NEW s \in Seq(Nat), NEW sep, NEW i \in 0 .. Len(s)
    PROVE  LET parts == Split(s, sep)
           IN  IF Part(s, sep, i) = Len(parts)
               THEN SubSeq(s, i + 1 - Depth(s, sep, i), Len(s)) = parts[Len(parts)]
               ELSE \E k \in i + 1 .. Len(s) : s[k] = sep
  <1> DEFINE n == Len(s)
             parts == Split(s, sep)
             m(k) == Part(s, sep, k)
             t(k) == Depth(s, sep, k)
             size == Len(parts)
             last == parts[size]
             a == i + 1 - t(i)
  <1>1. n \in Nat /\ i \in Nat /\ i <= n /\ n \in 0 .. n
    OBVIOUS
  <1>2. /\ parts \in Seq(Seq(Nat)) /\ size >= 1 /\ m(n) = size /\ t(n) = Len(last)
        /\ m(i) \in 1 .. size /\ t(i) \in 0 .. Len(parts[m(i)])
    BY <1>1, Walk
  <1>3. \/ m(n) = m(i) /\ t(n) = t(i) + (n - i)
        \/ m(n) > m(i) /\ \E k \in i + 1 .. n : s[k] = sep
    BY <1>1, Stays
  <1>4. \A k \in 1 .. t(n) : parts[m(n)][k] = s[n - t(n) + k]
    BY <1>1, Position
  <1>5. t(i) <= i
    BY Position
  <1>6. size \in Nat /\ last \in Seq(Nat)
    BY <1>2
  <1>7. CASE m(i) = size
    <2> HIDE DEF n, parts, m, t, size
    <2>1. t(n) = t(i) + (n - i)
      BY <1>2, <1>3, <1>6, <1>7
    <2>2. t(i) \in Nat
      <3>1. Len(last) \in Nat
        BY <1>6
      <3> QED BY <1>2, <1>7, <3>1
    <2>3. a \in Nat /\ a >= 1 /\ a <= n + 1 /\ Len(last) = n - a + 1
      BY <1>1, <1>2, <1>5, <2>1, <2>2
    <2> DEFINE d == t(i)
    <2>4. \A k \in 1 .. Len(last) : last[k] = s[a + k - 1]
      <3> SUFFICES ASSUME NEW k \in 1 .. Len(last) PROVE last[k] = s[a + k - 1]
        OBVIOUS
      <3>1. last[k] = s[n - t(n) + k]
        BY <1>2, <1>4
      <3>2. k \in Nat
        OBVIOUS
      <3>3. n - t(n) + k = a + k - 1
        BY <1>1, <2>1, <2>2, <3>2
      <3> QED BY <3>1, <3>3
    <2> HIDE DEF a, last
    <2> DEFINE rest == SubSeq(s, a, n)
    <2>5. s \in Seq(Nat) /\ Len(s) = n
      BY DEF n
    <2>6. \A k \in a .. n : s[k] \in Nat
      BY <2>3, <2>5
    <2>7. rest \in Seq(Nat) /\ Len(rest) = n - a + 1 /\ \A k \in 1 .. n - a + 1 : rest[k] = s[a + k - 1]
      BY <1>1, <2>3, <2>5, <2>6, SubSeqProperties
    <2> HIDE DEF rest
    <2>9. last \in Seq(Nat) /\ Len(last) = Len(rest) /\ \A k \in 1 .. Len(last) : last[k] = rest[k]
      BY <1>6, <2>3, <2>4, <2>7
    <2>8. rest = last
      BY ONLY <2>7, <2>9, SeqEqual
    <2> QED BY <1>7, <2>8 DEF rest, last, a, n, parts, size, m, t
  <1>8. CASE m(i) # size
    <2>1. \E k \in i + 1 .. n : s[k] = sep
      BY <1>2, <1>3, <1>8
    <2> QED BY <1>8, <2>1
  <1> QED BY <1>7, <1>8

-----------------------------------------------------------------------------
(* What V6 makes of the parts.                                             *)
Empties(parts, k) == {i \in 1 .. k : parts[i] = <<>>}

LastQuad(parts) == Quad(parts[Len(parts)], 4)

IsLastQuad(parts, i) == i = Len(parts) /\ LastQuad(parts) # Failed

Group(part) == Numbers(part, 0 .. 15, 4)

V6Bytes(parts, i) ==
    IF parts[i] = <<>> THEN <<>>
    ELSE IF IsLastQuad(parts, i) THEN LastQuad(parts)
    ELSE <<Value(parts[i], 16) \div 256, Value(parts[i], 16) % 256>>

Uptos(parts) ==
    CHOOSE g : g = [i \in 0 .. Len(parts) |-> IF i = 0 THEN <<>> ELSE g[i - 1] \o V6Bytes(parts, i)]

Gap(empty, n) ==
    \/ empty \in {{1, 2}, {n - 1, n}} /\ n > 2
    \/ empty = {1, 2, 3} /\ n = 3
    \/ \E i \in 2 .. n - 1 : empty = {i}

V6Of(parts) ==
    LET n == Len(parts)
        empty == Empties(parts, n)
        u == Uptos(parts)
        before == u[CHOOSE i \in empty : i - 1 \notin empty \/ i = 1]
        zeros == In6Size - Len(u[n])
    IN  IF \E i \in (1 .. n) \ empty : ~IsLastQuad(parts, i) /\ ~Group(parts[i]) THEN Failed
        ELSE IF empty = {} THEN IF zeros = 0 THEN u[n] ELSE Failed
        ELSE IF Gap(empty, n) /\ zeros >= 2
        THEN before \o Zeros(zeros) \o SubSeq(u[n], Len(before) + 1, Len(u[n]))
        ELSE Failed

LEMMA V6Def ==
    ASSUME NEW s
    PROVE  V6(s, 4) = V6Of(Split(s, Colon))
  BY DEF V6, V6Groups, LastQuad, V6Of, Uptos, V6Bytes, IsLastQuad, Group, Gap, Empties

LEMMA UptosDef ==
    ASSUME NEW parts, Len(parts) \in Nat
    PROVE  /\ Uptos(parts)[0] = <<>>
           /\ \A i \in 1 .. Len(parts) : Uptos(parts)[i] = Uptos(parts)[i - 1] \o V6Bytes(parts, i)
  <1> DEFINE P(k, g) == g = [i \in 0 .. k |->
                                IF i = 0 THEN <<>> ELSE g[i - 1] \o V6Bytes(parts, i)]
             S == {k \in Nat : \E g : P(k, g)}
             u == Uptos(parts)
  <1>1. u = CHOOSE g : P(Len(parts), g)
    BY DEF Uptos
  <1> HIDE DEF u
  <1>2. 0 \in S
    <2>1. P(0, [i \in 0 .. 0 |-> <<>>])
      OBVIOUS
    <2> HIDE DEF P
    <2> QED BY <2>1
  <1>3. ASSUME NEW k \in Nat, k \in S PROVE k + 1 \in S
    <2>1. PICK g : P(k, g)
      BY <1>3
    <2> DEFINE h == [i \in 0 .. k + 1 |-> IF i = 0 THEN <<>> ELSE g[i - 1] \o V6Bytes(parts, i)]
    <2>2. ASSUME NEW i \in 0 .. k + 1
          PROVE  h[i] = IF i = 0 THEN <<>> ELSE h[i - 1] \o V6Bytes(parts, i)
      <3>1. CASE i = 0
        BY <3>1
      <3>2. CASE i # 0
        <4>1. i - 1 \in 0 .. k /\ i - 1 \in 0 .. k + 1
          BY <3>2
        <4>2. g[i - 1] = IF i - 1 = 0 THEN <<>> ELSE g[(i - 1) - 1] \o V6Bytes(parts, i - 1)
          BY <2>1, <4>1
        <4>3. h[i - 1] = g[i - 1]
          BY <4>1, <4>2
        <4>4. h[i] = g[i - 1] \o V6Bytes(parts, i)
          BY <3>2
        <4> HIDE DEF h
        <4> QED BY <3>2, <4>3, <4>4
      <3> QED BY <3>1, <3>2
    <2>3. h = [i \in 0 .. k + 1 |-> h[i]]
      OBVIOUS
    <2> HIDE DEF h
    <2>4. P(k + 1, h)
      BY <2>2, <2>3
    <2> HIDE DEF P
    <2> QED BY <2>4
  <1> HIDE DEF S
  <1>4. Len(parts) \in S
    BY <1>2, <1>3, Induction
  <1>5. P(Len(parts), u)
    <2> HIDE DEF P
    <2> QED BY <1>1, <1>4 DEF S
  <1>6. \A i \in 0 .. Len(parts) : u[i] = IF i = 0 THEN <<>> ELSE u[i - 1] \o V6Bytes(parts, i)
    BY <1>5
  <1> HIDE DEF P
  <1>7. u[0] = <<>>
    BY <1>6
  <1>8. \A i \in 1 .. Len(parts) : u[i] = u[i - 1] \o V6Bytes(parts, i)
    <2> SUFFICES ASSUME NEW i \in 1 .. Len(parts) PROVE u[i] = u[i - 1] \o V6Bytes(parts, i)
      OBVIOUS
    <2> DEFINE more == u[i - 1] \o V6Bytes(parts, i)
    <2>1. i \in 0 .. Len(parts) /\ i # 0
      OBVIOUS
    <2>2. u[i] = IF i = 0 THEN <<>> ELSE more
      BY <1>6, <2>1, Zenon
    <2> HIDE DEF more
    <2>3. u[i] = more
      BY <2>1, <2>2
    <2> QED BY <2>3 DEF more
  <1> QED BY <1>7, <1>8 DEF u

LEMMA QuadType ==
    ASSUME NEW s \in Seq(Nat), Quad(s, 4) # Failed
    PROVE  Quad(s, 4) \in Seq(Nat) /\ Len(Quad(s, 4)) = 4
  <1> DEFINE parts == Split(s, Dot)
             values == [n \in 1 .. 4 |-> Value(parts[n], 10)]
  <1>1. Quad(s, 4) = values /\ Len(parts) = 4
    BY DEF Quad
  <1>2. \A n \in 1 .. 4 : Value(parts[n], 10) \in Nat
    <2>1. parts \in Seq(Seq(Nat))
      BY Walk
    <2> SUFFICES ASSUME NEW n \in 1 .. 4 PROVE Value(parts[n], 10) \in Nat
      OBVIOUS
    <2> HIDE DEF parts
    <2>2. parts[n] \in Seq(Nat)
      <3>1. n \in 1 .. Len(parts)
        BY <1>1
      <3> QED BY ONLY <2>1, <3>1, Elements
    <2>3. Len(parts[n]) \in Nat /\ 10 \in Nat
      BY <2>2
    <2>4. Values(parts[n], 10)[Len(parts[n])] \in Nat
      BY <2>2, <2>3, ValueType
    <2> QED BY <2>3, <2>4, ValuesDef
  <1> HIDE DEF parts
  <1>3. values \in Seq(Nat) /\ Len(values) = 4
    BY <1>2
  <1> QED BY <1>1, <1>3

(* The bytes of a part: two, or four of a quad, or none.                   *)
LEMMA V6BytesType ==
    ASSUME NEW parts \in Seq(Seq(Nat)), NEW i \in 1 .. Len(parts)
    PROVE  /\ V6Bytes(parts, i) \in Seq(Nat)
           /\ Len(V6Bytes(parts, i)) = IF parts[i] = <<>> THEN 0
                                       ELSE IF IsLastQuad(parts, i) THEN 4 ELSE 2
  <1> DEFINE part == parts[i]
             v == Value(part, 16)
  <1>1. part \in Seq(Nat)
    OBVIOUS
  <1>2. v \in Nat
    <2>1. Len(part) \in Nat /\ 16 \in Nat
      BY <1>1
    <2>2. Values(part, 16)[Len(part)] \in Nat
      BY <1>1, <2>1, ValueType
    <2> QED BY <2>1, <2>2, ValuesDef
  <1>3. v \div 256 \in Nat /\ v % 256 \in Nat
    <2> HIDE DEF v
    <2> QED BY <1>2
  <1> DEFINE two == <<v \div 256, v % 256>>
  <1>4. two \in Seq(Nat) /\ Len(two) = 2
    <2> DEFINE a == v \div 256
               b == v % 256
    <2>1. a \in Nat /\ b \in Nat
      BY <1>3
    <2> HIDE DEF a, b
    <2>2. <<a, b>> \in Seq(Nat) /\ Len(<<a, b>>) = 2
      BY <2>1
    <2> QED BY <2>2 DEF a, b
  <1>5. V6Bytes(parts, i) = IF part = <<>> THEN <<>>
                            ELSE IF IsLastQuad(parts, i) THEN Quad(part, 4) ELSE two
    <2>1. IsLastQuad(parts, i) => LastQuad(parts) = Quad(part, 4)
      BY DEF LastQuad, IsLastQuad
    <2>2. V6Bytes(parts, i) = IF part = <<>> THEN <<>>
                              ELSE IF IsLastQuad(parts, i) THEN LastQuad(parts) ELSE two
      BY DEF V6Bytes
    <2> HIDE DEF part, two
    <2> QED BY ONLY <2>1, <2>2
  <1>6. IsLastQuad(parts, i) => Quad(part, 4) \in Seq(Nat) /\ Len(Quad(part, 4)) = 4
    BY <1>1, QuadType DEF LastQuad, IsLastQuad
  <1>7. <<>> \in Seq(Nat) /\ Len(<<>>) = 0
    OBVIOUS
  <1> HIDE DEF two
  <1> QED BY <1>4, <1>5, <1>6, <1>7 DEF part

(* The bytes so far are those before, and more.                            *)
Begins(a, b) ==
    /\ Len(a) <= Len(b)
    /\ \A k \in 1 .. Len(a) : b[k] = a[k]

LEMMA UptosFacts ==
    ASSUME NEW parts \in Seq(Seq(Nat))
    PROVE  \A i \in 0 .. Len(parts) :
              /\ Uptos(parts)[i] \in Seq(Nat) /\ Len(Uptos(parts)[i]) % 2 = 0
              /\ \A j \in 0 .. i : Begins(Uptos(parts)[j], Uptos(parts)[i])
  <1> DEFINE u == Uptos(parts)
             n == Len(parts)
             Fine(i) == /\ u[i] \in Seq(Nat) /\ Len(u[i]) % 2 = 0
                        /\ \A j \in 0 .. i : Begins(u[j], u[i])
             S == {i \in Nat : i <= n => Fine(i)}
  <1>1. n \in Nat
    OBVIOUS
  <1>2. u[0] = <<>> /\ \A i \in 1 .. n : u[i] = u[i - 1] \o V6Bytes(parts, i)
    BY <1>1, UptosDef
  <1>3. \A i \in 1 .. n : V6Bytes(parts, i) \in Seq(Nat) /\ Len(V6Bytes(parts, i)) \in {0, 2, 4}
    BY V6BytesType
  <1> HIDE DEF u, n
  <1>4. 0 \in S
    <2>1. <<>> \in Seq(Nat) /\ Len(<<>>) = 0 /\ 0 % 2 = 0
      OBVIOUS
    <2>2. Begins(<<>>, <<>>)
      BY <2>1 DEF Begins
    <2>3. \A j \in 0 .. 0 : j = 0
      OBVIOUS
    <2> QED BY <1>2, <2>1, <2>2, <2>3
  <1>5. ASSUME NEW k \in Nat, k \in S PROVE k + 1 \in S
    <2> HIDE DEF Fine
    <2> SUFFICES ASSUME k + 1 <= n PROVE Fine(k + 1)
      OBVIOUS
    <2> USE DEF Fine
    <2> DEFINE a == u[k]
               b == V6Bytes(parts, k + 1)
               c == u[k + 1]
               la == Len(a)
               lb == Len(b)
    <2>1. k + 1 \in 1 .. n /\ (k + 1) - 1 = k /\ k <= n
      BY <1>1
    <2>2. Fine(k)
      BY <1>5, <2>1
    <2>3. a \in Seq(Nat) /\ b \in Seq(Nat) /\ c = a \o b /\ la % 2 = 0 /\ lb \in {0, 2, 4}
      BY <1>2, <1>3, <2>1, <2>2
    <2> HIDE DEF a, b, c
    <2>8. /\ a \o b \in Seq(Nat) /\ Len(a \o b) = Len(a) + Len(b) /\ Len(a) \in Nat
          /\ \A j \in 1 .. Len(a) : (a \o b)[j] = a[j]
      <3>1. a \in Seq(Nat) /\ b \in Seq(Nat)
        BY <2>3
      <3> QED BY ONLY <3>1
    <2>4. c \in Seq(Nat) /\ Len(c) = la + lb /\ la \in Nat /\ \A j \in 1 .. la : c[j] = a[j]
      BY ONLY <2>3, <2>8
    <2>5. Begins(a, c)
      BY <2>3, <2>4 DEF Begins
    <2>6. Len(c) % 2 = 0
      <3>1. la \in Nat /\ la % 2 = 0 /\ lb \in {0, 2, 4} /\ Len(c) = la + lb
        BY <2>3, <2>4
      <3> HIDE DEF la, lb
      <3>2. (la + lb) % 2 = 0
        <4> DEFINE half == la \div 2
        <4>1. half \in Nat /\ la = 2 * half
          BY <3>1
        <4> HIDE DEF half
        <4>2. CASE lb = 0
          BY <3>1, <4>2
        <4>3. CASE lb = 2
          <5>1. la + lb = 2 * (half + 1)
            BY <4>1, <4>3
          <5> QED BY <4>1, <5>1
        <4>4. CASE lb = 4
          <5>1. la + lb = 2 * (half + 2)
            BY <4>1, <4>4
          <5> QED BY <4>1, <5>1
        <4> QED BY <3>1, <4>2, <4>3, <4>4
      <3> QED BY <3>1, <3>2
    <2>7. \A j \in 0 .. k + 1 : Begins(u[j], c)
      <3> SUFFICES ASSUME NEW j \in 0 .. k + 1 PROVE Begins(u[j], c)
        OBVIOUS
      <3>1. CASE j = k + 1
        <4>1. Len(c) \in Nat
          BY <2>4
        <4> QED BY <3>1, <4>1 DEF c, Begins
      <3>2. CASE j # k + 1
        <4>1. Begins(u[j], a)
          <5>1. j \in 0 .. k
            BY <3>2
          <5> QED BY <2>2, <5>1 DEF a
        <4>2. Len(u[j]) \in Nat
          <5>1. j \in 0 .. k
            BY <3>2
          <5> QED BY <1>5, <2>1, <5>1, <4>1, <2>4 DEF Begins
        <4>3. Len(u[j]) <= Len(c) /\ \A x \in 1 .. Len(u[j]) : x \in 1 .. la
          BY <2>4, <4>1, <4>2, <2>5 DEF Begins
        <4> QED BY <2>4, <4>1, <4>3 DEF Begins
      <3> QED BY <3>1, <3>2
    <2> QED BY <2>4, <2>6, <2>7 DEF c
  <1> HIDE DEF S
  <1>6. \A k \in Nat : k \in S
    BY <1>4, <1>5, Induction
  <1>7. \A i \in 0 .. n : Fine(i)
    <2> HIDE DEF Fine
    <2> QED BY <1>1, <1>6 DEF S
  <1> QED BY <1>7 DEF u, n

(* What makes V6 fail: a part that is neither empty nor a group nor the    *)
(* quad, too many bytes, or empty parts that are not two colons.           *)
LEMMA V6BadPart ==
    ASSUME NEW parts, NEW j \in 1 .. Len(parts), parts[j] # <<>>,
           ~IsLastQuad(parts, j), ~Group(parts[j])
    PROVE  V6Of(parts) = Failed
  <1>1. j \in (1 .. Len(parts)) \ Empties(parts, Len(parts))
    BY DEF Empties
  <1> QED BY <1>1 DEF V6Of

LEMMA V6TooLong ==
    ASSUME NEW parts \in Seq(Seq(Nat)), NEW j \in 0 .. Len(parts), Len(Uptos(parts)[j]) > In6Size
    PROVE  V6Of(parts) = Failed
  <1> DEFINE u == Uptos(parts)
             n == Len(parts)
             size == Len(u[n])
             zeros == In6Size - size
  <1>1. In6Size \in Nat
    BY AddressesAssumption
  <1>2. n \in Nat /\ n \in 0 .. n /\ j \in 0 .. n
    OBVIOUS
  <1>3. Begins(u[j], u[n]) /\ u[n] \in Seq(Nat) /\ u[j] \in Seq(Nat)
    BY <1>2, UptosFacts
  <1>4. size \in Nat /\ Len(u[j]) \in Nat /\ Len(u[j]) <= size
    BY <1>3 DEF Begins
  <1> HIDE DEF u, n, size
  <1>5. zeros # 0 /\ ~(zeros >= 2)
    BY <1>1, <1>4 DEF u
  <1> HIDE DEF zeros
  <1>6. V6Of(parts) =
          LET empty == Empties(parts, n)
              before == u[CHOOSE i \in empty : i - 1 \notin empty \/ i = 1]
          IN  IF \E i \in (1 .. n) \ empty : ~IsLastQuad(parts, i) /\ ~Group(parts[i]) THEN Failed
              ELSE IF empty = {} THEN IF zeros = 0 THEN u[n] ELSE Failed
              ELSE IF Gap(empty, n) /\ zeros >= 2
              THEN before \o Zeros(zeros) \o SubSeq(u[n], Len(before) + 1, Len(u[n]))
              ELSE Failed
    BY DEF V6Of, n, u, zeros, size
  <1> QED BY <1>5, <1>6

LEMMA V6NoGap ==
    ASSUME NEW parts, Empties(parts, Len(parts)) # {}, ~Gap(Empties(parts, Len(parts)), Len(parts))
    PROVE  V6Of(parts) = Failed
  BY DEF V6Of

(* Two colons twice.                                                       *)
LEMMA V6TwoGaps ==
    ASSUME NEW parts \in Seq(Seq(Nat)), NEW e \in Nat, NEW m \in Nat, 2 <= e, e < m, m < Len(parts),
           parts[e] = <<>>, parts[m] = <<>>
    PROVE  V6Of(parts) = Failed
  <1> DEFINE n == Len(parts)
             E == Empties(parts, n)
  <1>1. n \in Nat
    OBVIOUS
  <1>2. e \in E /\ m \in E
    BY <1>1 DEF Empties
  <1> HIDE DEF n, E
  <1>3. m < n
    BY DEF n
  <1>4. E # {1, 2} /\ E # {n - 1, n} /\ ~(E = {1, 2, 3} /\ n = 3)
    <2>1. m \notin {1, 2} /\ e \notin {n - 1, n} /\ n # 3
      BY <1>1, <1>3
    <2> QED BY <1>2, <2>1
  <1>5. \A i : E # {i}
    BY <1>2
  <1>6. ~Gap(E, n)
    BY <1>4, <1>5 DEF Gap
  <1> QED BY <1>2, <1>6, V6NoGap DEF E, n

(* One colon at the end.                                                   *)
LEMMA V6Trailing ==
    ASSUME NEW parts \in Seq(Seq(Nat)), NEW n \in Nat, n = Len(parts), n >= 1, parts[n] = <<>>,
           n = 1 \/ parts[n - 1] # <<>>
    PROVE  V6Of(parts) = Failed
  <1> DEFINE E == Empties(parts, n)
  <1>1. n \in E /\ (n - 1 \in E => n = 1) /\ \A i \in E : i \in 1 .. n
    BY DEF Empties
  <1> HIDE DEF E
  <1>2. n - 1 \notin E
    <2>1. ASSUME n - 1 \in E PROVE FALSE
      <3>1. n - 1 \in 1 .. n
        BY <1>1, <2>1
      <3>2. n = 1
        BY <1>1, <2>1
      <3> QED BY <3>1, <3>2
    <2> QED BY <2>1
  <1>3. ~(E = {1, 2} /\ n > 2) /\ E # {n - 1, n} /\ ~(E = {1, 2, 3} /\ n = 3)
    <2>1. n > 2 => n \notin {1, 2}
      BY ONLY n \in Nat
    <2>2. n = 3 => n - 1 \in {1, 2, 3}
      OBVIOUS
    <2>3. n - 1 \in {n - 1, n}
      OBVIOUS
    <2> QED BY <1>1, <1>2, <2>1, <2>2, <2>3, Zenon
  <1>4. \A i \in 2 .. n - 1 : E # {i}
    BY <1>1
  <1>5. ~Gap(E, n)
    BY <1>3, <1>4 DEF Gap
  <1> QED BY <1>1, <1>5, V6NoGap DEF E

(* One colon at the beginning.                                             *)
LEMMA V6Leading ==
    ASSUME NEW parts \in Seq(Seq(Nat)), NEW n \in Nat, n = Len(parts), n >= 1, parts[1] = <<>>,
           n <= 2 \/ parts[2] # <<>>
    PROVE  V6Of(parts) = Failed
  <1> DEFINE E == Empties(parts, n)
  <1>1. 1 \in E /\ (2 \in E => n <= 2)
    BY DEF Empties
  <1> HIDE DEF E
  <1>2. ~(E = {1, 2} /\ n > 2) /\ ~(E = {n - 1, n} /\ n > 2) /\ ~(E = {1, 2, 3} /\ n = 3)
    <2>4. n > 2 => 1 # n - 1 /\ 1 # n /\ ~(n <= 2)
      BY ONLY n \in Nat
    <2>1. n > 2 => 2 \notin E /\ 1 \notin {n - 1, n}
      BY ONLY <1>1, <2>4
    <2>2. n = 3 => n > 2
      OBVIOUS
    <2>3. 2 \in {1, 2} /\ 2 \in {1, 2, 3}
      OBVIOUS
    <2> QED BY <1>1, <2>1, <2>2, <2>3, Zenon
  <1>3. \A i \in 2 .. n - 1 : E # {i}
    BY <1>1
  <1>4. ~Gap(E, n)
    BY <1>2, <1>3 DEF Gap
  <1> QED BY <1>1, <1>4, V6NoGap DEF E

(* A quad has a dot among its first five characters.                       *)
LEMMA QuadHasDot ==
    ASSUME NEW s \in Seq(Nat), Quad(s, 4) # Failed
    PROVE  \E k \in 1 .. Len(s) : k <= 5 /\ s[k] = Dot
  <1> SUFFICES ASSUME \A k \in 1 .. Len(s) : k <= 5 => s[k] # Dot
               PROVE  FALSE
    OBVIOUS
  <1> DEFINE n == Len(s)
             parts == Split(s, Dot)
             j == IF n <= 5 THEN n ELSE 5
             size == Len(parts[1])
  <1>1. n \in Nat /\ j \in 0 .. n /\ 0 \in 0 .. n /\ 0 <= j /\ j \in Nat
    OBVIOUS
  <1>2. \A k \in 0 + 1 .. j : s[k] # Dot
    BY <1>1
  <1>3. Len(parts) = 4 /\ size \in 1 .. 4
    BY DEF Quad, Numbers
  <1>4. Part(s, Dot, 0) = 1 /\ Depth(s, Dot, 0) = 0 /\ Part(s, Dot, n) = Len(parts)
        /\ Depth(s, Dot, j) \in 0 .. Len(parts[Part(s, Dot, j)])
    BY <1>1, Walk
  <1>5. Part(s, Dot, j) = Part(s, Dot, 0) /\ Depth(s, Dot, j) = Depth(s, Dot, 0) + (j - 0)
    <2> HIDE DEF j, n
    <2>1. 0 \in 0 .. Len(s) /\ j \in 0 .. Len(s)
      BY <1>1 DEF n
    <2> QED BY <1>1, <1>2, <2>1, Stays
  <1> HIDE DEF parts, size
  <1>6. Part(s, Dot, j) = 1 /\ Depth(s, Dot, j) = j
    BY <1>1, <1>4, <1>5
  <1>7. j \in 0 .. size
    BY <1>4, <1>6 DEF size
  <1>8. CASE n <= 5
    BY <1>1, <1>3, <1>4, <1>6, <1>8
  <1>9. CASE ~(n <= 5)
    BY <1>1, <1>3, <1>7, <1>9
  <1> QED BY <1>8, <1>9

LEMMA GroupIsNoQuad ==
    ASSUME NEW part \in Seq(Nat), Group(part)
    PROVE  Quad(part, 4) = Failed
  <1>1. \A k \in 1 .. Len(part) : part[k] # Dot
    BY DEF Group, Numbers, Dot
  <1> QED BY <1>1, QuadHasDot

(* inet_pton4 of the rest of a text finds a quad only in the last part.    *)
LEMMA RestOfText ==
    ASSUME NEW s \in Seq(Nat), NEW i \in 0 .. Len(s)
    PROVE  LET parts == Split(s, Colon)
           IN  inet_pton4(SubSeq(s, i + 1 - Depth(s, Colon, i), Len(s)))
                   = IF Part(s, Colon, i) = Len(parts) THEN Quad(parts[Len(parts)], 4) ELSE Failed
  <1> DEFINE n == Len(s)
             parts == Split(s, Colon)
             size == Len(parts)
             d == Depth(s, Colon, i)
             a == i + 1 - d
             rest == SubSeq(s, a, n)
  <1>1. n \in Nat /\ i \in Nat /\ i <= n /\ \A k \in 1 .. n : s[k] \in Nat
    OBVIOUS
  <1>2. /\ parts \in Seq(Seq(Nat)) /\ size >= 1 /\ d \in 0 .. Len(parts[Part(s, Colon, i)])
        /\ Part(s, Colon, i) \in 1 .. size
    BY <1>1, Walk
  <1>3. d <= i /\ d \in Nat
    <2>1. Len(parts[Part(s, Colon, i)]) \in Nat
      <3>1. parts[Part(s, Colon, i)] \in Seq(Nat)
        <4> HIDE DEF parts
        <4> QED BY <1>2
      <3> QED BY <3>1
    <2> QED BY <1>1, <1>2, <2>1, Position
  <1>4. IF Part(s, Colon, i) = size THEN rest = parts[size]
        ELSE \E k \in i + 1 .. n : s[k] = Colon
    BY <1>1, LastPart
  <1> HIDE DEF parts, d
  <1>5. a \in 1 .. i + 1 /\ a \in Nat
    BY <1>1, <1>3
  <1> HIDE DEF a
  <1>6. rest \in Seq(Nat) /\ (a <= n => Len(rest) = n - a + 1) /\ \A k \in 1 .. n - a + 1 : rest[k] = s[a + k - 1]
    <2>1. \A k \in a .. n : s[k] \in Nat
      BY <1>1, <1>5
    <2> QED BY <1>1, <1>5, <2>1, SubSeqProperties
  <1>7. CASE Part(s, Colon, i) = size
    <2>1. parts[size] \in Seq(Nat)
      BY <1>2
    <2>2. inet_pton4(parts[size]) = Quad(parts[size], 4)
      BY <2>1, QuadIs
    <2> QED BY <1>4, <1>7, <2>2 DEF parts, a, d
  <1>8. CASE Part(s, Colon, i) # size
    <2>1. PICK k \in i + 1 .. n : s[k] = Colon
      BY <1>4, <1>8
    <2> DEFINE l == k - a + 1
    <2>2. a <= n /\ l \in 1 .. n - a + 1 /\ a + l - 1 = k
      BY <1>1, <1>5
    <2> HIDE DEF rest, l, n
    <2>3. rest[l] = Colon /\ l \in 1 .. Len(rest)
      BY <1>6, <2>1, <2>2
    <2>4. rest[l] \notin Digit \cup {Dot}
      BY <2>3 DEF Colon, Digit, Dot
    <2>5. inet_pton4(rest) = Failed
      BY <1>6, <2>3, <2>4, QuadCharacters
    <2> QED BY <1>8, <2>5 DEF parts, a, d, rest, n
  <1> QED BY <1>7, <1>8

LEMMA UptosEmpty ==
    ASSUME NEW parts \in Seq(Seq(Nat)), NEW j \in 1 .. Len(parts), parts[j] = <<>>
    PROVE  Uptos(parts)[j] = Uptos(parts)[j - 1]
  <1> DEFINE a == Uptos(parts)[j - 1]
  <1>1. Len(parts) \in Nat /\ j - 1 \in 0 .. Len(parts)
    OBVIOUS
  <1>2. a \in Seq(Nat)
    BY <1>1, UptosFacts
  <1>3. Uptos(parts)[j] = a \o V6Bytes(parts, j)
    BY <1>1, UptosDef
  <1>4. V6Bytes(parts, j) = <<>>
    BY DEF LastQuad, V6Bytes
  <1> HIDE DEF a
  <1>5. a \o <<>> = a
    BY <1>2, ConcatEmptySeq
  <1> QED BY <1>3, <1>4, <1>5 DEF a

(* The two colons before the m-th part, and what is stored of them.        *)
Opened(parts, m, colonp) ==
    \/ colonp = -1 /\ Empties(parts, m - 1) = {}
    \/ \E e \in 2 .. m - 1 :
          /\ parts[e] = <<>> /\ colonp = Len(Uptos(parts)[e])
          /\ Empties(parts, m - 1) = {e} \/ (e = 2 /\ Empties(parts, m - 1) = {1, 2})

(* What V6 is, when all parts have been read.                              *)
LEMMA V6NoColons ==
    ASSUME NEW parts, NEW n, n = Len(parts), Empties(parts, n) = {},
           \A j \in 1 .. n : IsLastQuad(parts, j) \/ Group(parts[j]),
           NEW tmp \in Seq(Nat), tmp = Uptos(parts)[n]
    PROVE  V6Of(parts) = IF Len(tmp) = In6Size THEN tmp ELSE Failed
  <1> DEFINE zeros == In6Size - Len(tmp)
  <1>1. Len(tmp) \in Nat /\ In6Size \in Nat
    BY AddressesAssumption
  <1>2. zeros = 0 <=> Len(tmp) = In6Size
    BY <1>1
  <1> HIDE DEF zeros
  <1>3. V6Of(parts) = IF zeros = 0 THEN tmp ELSE Failed
    BY DEF V6Of, zeros
  <1> QED BY <1>2, <1>3

LEMMA V6TwoColons ==
    ASSUME NEW parts \in Seq(Seq(Nat)), NEW n \in Nat, n = Len(parts),
           NEW f \in 1 .. n, f \in Empties(parts, n),
           \A i \in Empties(parts, n) : i - 1 \notin Empties(parts, n) \/ i = 1 <=> i = f,
           Gap(Empties(parts, n), n),
           \A j \in 1 .. n : parts[j] = <<>> \/ IsLastQuad(parts, j) \/ Group(parts[j]),
           NEW tmp, tmp = Uptos(parts)[n],
           NEW colonp, colonp = Len(Uptos(parts)[f])
    PROVE  V6Of(parts) = IF Len(tmp) < In6Size THEN Expand(tmp, colonp) ELSE Failed
  <1> DEFINE E == Empties(parts, n)
             u == Uptos(parts)
             zeros == In6Size - Len(tmp)
             before == u[CHOOSE i \in E : i - 1 \notin E \/ i = 1]
             size == Len(tmp)
  <1>1. (CHOOSE i \in E : i - 1 \notin E \/ i = 1) = f
    <2> HIDE DEF E
    <2>1. f \in E /\ \A i \in E : i - 1 \notin E \/ i = 1 <=> i = f
      BY DEF E
    <2> QED BY <2>1
  <1>2. before = u[f]
    BY <1>1
  <1>3. tmp \in Seq(Nat) /\ u[f] \in Seq(Nat) /\ Begins(u[f], tmp) /\ size % 2 = 0 /\ size \in Nat
    <2>1. f \in 0 .. n /\ n \in 0 .. Len(parts)
      OBVIOUS
    <2>2. tmp \in Seq(Nat) /\ u[f] \in Seq(Nat) /\ Begins(u[f], tmp) /\ size % 2 = 0
      BY <2>1, UptosFacts
    <2>3. tmp \in Seq(Nat)
      BY <2>2
    <2>4. size \in Nat
      BY ONLY <2>3
    <2> QED BY <2>2, <2>4
  <1>4. colonp \in Nat /\ colonp <= size /\ \A k \in 1 .. colonp : tmp[k] = u[f][k]
    <2> HIDE DEF u, size
    <2>1. Len(u[f]) \in Nat
      BY <1>3
    <2> QED BY <1>3, <2>1 DEF Begins, u, size
  <1> DEFINE head == SubSeq(tmp, 1, colonp)
  <1>5. head = before
    <2> DEFINE x == u[f]
    <2>1. x \in Seq(Nat) /\ Len(x) = colonp
      BY <1>3
    <2> HIDE DEF x, u, size, before
    <2>2. \A k \in 1 .. colonp : tmp[k] \in Nat
      BY <1>3, <1>4 DEF size
    <2>3. /\ head \in Seq(Nat) /\ Len(head) = IF 1 <= colonp THEN colonp - 1 + 1 ELSE 0
          /\ \A k \in 1 .. colonp - 1 + 1 : head[k] = tmp[1 + k - 1]
      BY <1>4, <2>2, SubSeqProperties
    <2>4. Len(head) = colonp /\ \A k \in 1 .. colonp : head[k] = tmp[k]
      <3>1. colonp - 1 + 1 = colonp /\ \A k \in 1 .. colonp : 1 + k - 1 = k
        BY <1>4
      <3> QED BY <1>4, <2>3, <3>1
    <2>5. \A k \in 1 .. Len(head) : head[k] = x[k]
      BY <1>4, <2>4 DEF x
    <2> HIDE DEF head
    <2>6. head = x
      BY <2>1, <2>3, <2>4, <2>5, SeqEqual
    <2> QED BY <1>2, <2>6 DEF x
  <1> DEFINE all == before \o Zeros(zeros) \o SubSeq(tmp, Len(before) + 1, Len(tmp))
  <1>6. Expand(tmp, colonp) = all
    <2>1. ~(colonp < 0)
      BY <1>4
    <2>2. Len(before) = colonp
      BY <1>2
    <2> HIDE DEF before
    <2> QED BY <1>5, <2>1, <2>2 DEF Expand
  <1>7. In6Size \in Nat /\ In6Size % 2 = 0
    BY AddressesAssumption
  <1>8. zeros >= 2 <=> size < In6Size
    <2>2. zeros = In6Size - size
      OBVIOUS
    <2> HIDE DEF size, zeros
    <2>1. In6Size - size # 1
      <3> DEFINE a == size \div 2
                 b == In6Size \div 2
      <3>1. a \in Nat /\ b \in Nat /\ size = 2 * a /\ In6Size = 2 * b
        BY <1>3, <1>7
      <3> HIDE DEF a, b
      <3> QED BY <3>1
    <2>3. size \in Nat /\ In6Size \in Nat
      BY <1>3, <1>7
    <2> QED BY ONLY <2>1, <2>2, <2>3
  <1>9. E # {} /\ Gap(E, n) /\ ~\E i \in (1 .. n) \ E : ~IsLastQuad(parts, i) /\ ~Group(parts[i])
    BY DEF Empties
  <1>10. V6Of(parts) =
           IF \E i \in (1 .. n) \ E : ~IsLastQuad(parts, i) /\ ~Group(parts[i]) THEN Failed
           ELSE IF E = {} THEN IF zeros = 0 THEN tmp ELSE Failed
           ELSE IF Gap(E, n) /\ zeros >= 2 THEN all ELSE Failed
    BY DEF V6Of
  <1> HIDE DEF E, zeros, before, size, all
  <1> QED BY <1>6, <1>8, <1>9, <1>10 DEF size

LEMMA V6Ends ==
    ASSUME NEW parts \in Seq(Seq(Nat)), NEW n \in Nat, n = Len(parts), n >= 1,
           \A j \in 1 .. n : parts[j] = <<>> \/ IsLastQuad(parts, j) \/ Group(parts[j]),
           NEW colonp, Opened(parts, n, colonp),
           parts[n] = <<>> => n > 1 /\ parts[n - 1] = <<>>,
           NEW tmp, tmp = Uptos(parts)[n]
    PROVE  V6Of(parts) = IF /\ Len(tmp) <= In6Size
                            /\ IF colonp < 0 THEN Len(tmp) = In6Size ELSE Len(tmp) < In6Size
                         THEN Expand(tmp, colonp) ELSE Failed
  <1> DEFINE E == Empties(parts, n)
             D == Empties(parts, n - 1)
             u == Uptos(parts)
             size == Len(tmp)
  <1>1. tmp \in Seq(Nat) /\ size \in Nat /\ In6Size \in Nat
    <2>1. n \in 0 .. Len(parts)
      OBVIOUS
    <2>2. tmp \in Seq(Nat)
      BY <2>1, UptosFacts
    <2> QED BY <2>2, AddressesAssumption
  <1>2. E = D \cup (IF parts[n] = <<>> THEN {n} ELSE {})
    <2>1. \A i : i \in 1 .. n <=> i \in 1 .. n - 1 \/ i = n
      OBVIOUS
    <2>2. \A i : i \in E <=> i \in 1 .. n /\ parts[i] = <<>>
      BY DEF Empties
    <2>3. \A i : i \in D <=> i \in 1 .. n - 1 /\ parts[i] = <<>>
      BY DEF Empties
    <2> HIDE DEF E, D
    <2> QED BY <2>1, <2>2, <2>3
  <1>3. parts[n] = <<>> => n - 1 \in D /\ n > 1
    BY DEF Empties
  <1>4. CASE colonp = -1 /\ D = {}
    <2>1. E = {}
      BY <1>2, <1>3, <1>4
    <2>2. \A j \in 1 .. n : parts[j] # <<>>
      BY <2>1 DEF Empties
    <2>3. \A j \in 1 .. n : IsLastQuad(parts, j) \/ Group(parts[j])
      BY <2>2
    <2>4. V6Of(parts) = IF size = In6Size THEN tmp ELSE Failed
      BY <1>1, <2>1, <2>3, V6NoColons
    <2>5. colonp < 0 /\ Expand(tmp, colonp) = tmp
      BY <1>4 DEF Expand
    <2>6. size = In6Size => size <= In6Size
      BY <1>1
    <2> HIDE DEF size
    <2> QED BY <2>4, <2>5, <2>6 DEF size
  <1>5. ASSUME NEW e \in 2 .. n - 1, parts[e] = <<>>, colonp = Len(u[e]),
               D = {e} \/ (e = 2 /\ D = {1, 2})
        PROVE  V6Of(parts) = IF /\ size <= In6Size
                                /\ IF colonp < 0 THEN size = In6Size ELSE size < In6Size
                             THEN Expand(tmp, colonp) ELSE Failed
    <2> DEFINE f == IF D = {e} THEN e ELSE 1
    <2>0. e \in Nat /\ e >= 2 /\ e < n /\ n > 2 /\ e \in 1 .. n /\ 1 \in 1 .. n
      OBVIOUS
    <2>1. parts[n] = <<>> => e = n - 1
      <3> HIDE DEF D
      <3>2. D = {e} => (n - 1 \in D => n - 1 = e)
        OBVIOUS
      <3>3. e = 2 /\ D = {1, 2} => (n - 1 \in D => n - 1 = e)
        BY <2>0
      <3> QED BY <1>3, <1>5, <3>2, <3>3
    <2>2. \/ D = {e} /\ E = {e} /\ f = e
          \/ D = {e} /\ E = {e, n} /\ e = n - 1 /\ f = e
          \/ D # {e} /\ D = {1, 2} /\ E = {1, 2} /\ f = 1
          \/ D # {e} /\ D = {1, 2} /\ E = {1, 2, 3} /\ n = 3 /\ f = 1
      <3> HIDE DEF D, E
      <3>1. CASE D = {e}
        BY <1>2, <2>1, <3>1
      <3>2. CASE D # {e}
        <4>1. e = 2 /\ D = {1, 2}
          BY <1>5, <3>2
        <4>2. CASE parts[n] = <<>>
          <5>3. e = n - 1 /\ e = 2 /\ n \in Nat
            BY <2>1, <4>1, <4>2
          <5>1. n = 3
            BY ONLY <5>3
          <5>2. E = {1, 2, 3}
            BY <1>2, <4>1, <4>2, <5>1
          <5> QED BY <3>2, <4>1, <5>1, <5>2
        <4>3. CASE parts[n] # <<>>
          <5>1. E = {1, 2}
            BY <1>2, <4>1, <4>3
          <5> QED BY <3>2, <4>1, <5>1
        <4> QED BY <4>2, <4>3
      <3> QED BY <3>1, <3>2
    <2>3. Gap(E, n)
      <3> HIDE DEF D, E, f
      <3>1. e \in 2 .. n - 1
        OBVIOUS
      <3>2. CASE E = {e}
        BY <3>1, <3>2 DEF Gap
      <3>3. CASE E = {e, n} /\ e = n - 1
        BY <2>0, <3>3 DEF Gap
      <3>4. CASE E = {1, 2}
        BY <2>0, <3>4 DEF Gap
      <3>5. CASE E = {1, 2, 3} /\ n = 3
        BY <3>5 DEF Gap
      <3> QED BY <2>2, <3>2, <3>3, <3>4, <3>5
    <2>4. f \in E /\ \A i \in E : i - 1 \notin E \/ i = 1 <=> i = f
      <3> HIDE DEF D, E, f
      <3>1. CASE E = {e} /\ f = e
        <4>1. e - 1 # e
          BY <2>0
        <4> QED BY <3>1, <4>1
      <3>2. CASE E = {e, n} /\ e = n - 1 /\ f = e
        <4>2. e = n - 1 /\ n \in Nat /\ n > 2
          BY <2>0, <3>2
        <4>1. e - 1 # e /\ e - 1 # n /\ n - 1 = e /\ n # 1 /\ n # e
          BY ONLY <4>2
        <4> QED BY <3>2, <4>1
      <3>3. CASE E = {1, 2} /\ f = 1
        BY <3>3
      <3>4. CASE E = {1, 2, 3} /\ f = 1
        BY <3>4
      <3> QED BY <2>2, <3>1, <3>2, <3>3, <3>4
    <2>5. f \in 1 .. n
      BY <2>0
    <2>6. colonp = Len(u[f])
      <3>1. CASE f = e
        BY <1>5, <3>1
      <3>2. CASE f = 1 /\ D = {1, 2} /\ D # {e}
        <4>1. e = 2
          BY <1>5, <3>2
        <4>2. parts[2] = <<>> /\ 2 \in 1 .. Len(parts)
          BY <1>5, <2>0, <4>1
        <4>3. u[2] = u[2 - 1]
          BY <4>2, UptosEmpty
        <4> HIDE DEF u, D, f
        <4> QED BY <1>5, <3>2, <4>1, <4>3
      <3> HIDE DEF D, E, f
      <3> QED BY <2>2, <3>1, <3>2
    <2> HIDE DEF D, f
    <2>7. V6Of(parts) = IF size < In6Size THEN Expand(tmp, colonp) ELSE Failed
      <3>1. /\ f \in Empties(parts, n)
            /\ \A i \in Empties(parts, n) : i - 1 \notin Empties(parts, n) \/ i = 1 <=> i = f
            /\ Gap(Empties(parts, n), n)
        BY <2>3, <2>4 DEF E
      <3>2. /\ parts \in Seq(Seq(Nat)) /\ n \in Nat /\ n = Len(parts)
            /\ \A j \in 1 .. n : parts[j] = <<>> \/ IsLastQuad(parts, j) \/ Group(parts[j])
        OBVIOUS
      <3>3. tmp = Uptos(parts)[n] /\ colonp = Len(Uptos(parts)[f])
        BY <2>6
      <3>4. V6Of(parts) = IF Len(tmp) < In6Size THEN Expand(tmp, colonp) ELSE Failed
        BY ONLY <2>5, <3>1, <3>2, <3>3, V6TwoColons
      <3> QED BY <3>4
    <2>8. ~(colonp < 0)
      <3>1. e \in 0 .. Len(parts)
        BY <2>0
      <3>2. u[e] \in Seq(Nat)
        BY <3>1, UptosFacts
      <3> HIDE DEF u
      <3>3. Len(u[e]) \in Nat
        BY <3>2
      <3> QED BY <1>5, <3>3
    <2>9. size < In6Size => size <= In6Size
      BY <1>1
    <2> HIDE DEF size
    <2> QED BY <2>7, <2>8, <2>9
  <1> HIDE DEF u, D, E, size
  <1>6. \/ colonp = -1 /\ D = {}
        \/ \E e \in 2 .. n - 1 : /\ parts[e] = <<>> /\ colonp = Len(u[e])
                                 /\ D = {e} \/ (e = 2 /\ D = {1, 2})
    BY DEF Opened, u, D
  <1>7. V6Of(parts) = IF /\ size <= In6Size
                         /\ IF colonp < 0 THEN size = In6Size ELSE size < In6Size
                      THEN Expand(tmp, colonp) ELSE Failed
    BY <1>4, <1>5, <1>6 DEF size
  <1> QED BY <1>7 DEF size

-----------------------------------------------------------------------------
(* inet_pton6.                                                             *)
V6State == [ok : BOOLEAN, tmp : Seq(Nat), colonp : Int, xdigits : Nat, val : Nat,
            curtok : Nat, done : BOOLEAN]

V6Begin(s) == IF Len(s) > 0 /\ s[1] = Colon THEN 1 ELSE 0

V6Start(s) ==
    LET lead == Len(s) > 0 /\ s[1] = Colon
    IN  [ok |-> Len(s) > 0 /\ (lead => Len(s) > 1 /\ s[2] = Colon),
         tmp |-> <<>>, colonp |-> -1, xdigits |-> 0, val |-> 0,
         curtok |-> V6Begin(s) + 1, done |-> FALSE]

V6Next(s, i, p) ==
    LET digit == hex_digit_value(s[i])
        quad == inet_pton4(SubSeq(s, p.curtok, Len(s)))
    IN  IF ~p.ok \/ p.done THEN p
        ELSE IF digit >= 0 /\ p.xdigits < 4
        THEN [p EXCEPT !.val = @ * 16 + digit, !.xdigits = @ + 1]
        ELSE IF s[i] = Colon /\ p.xdigits = 0 /\ p.colonp < 0
        THEN [p EXCEPT !.curtok = i + 1, !.colonp = Len(p.tmp)]
        ELSE IF s[i] = Colon /\ p.xdigits > 0 /\ i # Len(s) /\ Len(p.tmp) + 2 <= In6Size
        THEN [p EXCEPT !.tmp = @ \o <<p.val \div 256, p.val % 256>>,
                       !.xdigits = 0, !.val = 0, !.curtok = i + 1]
        ELSE IF s[i] = Dot /\ Len(p.tmp) + 4 <= In6Size /\ quad # Failed
        THEN [p EXCEPT !.tmp = @ \o quad, !.xdigits = 0, !.done = TRUE]
        ELSE [p EXCEPT !.ok = FALSE]

V6Steps(s) ==
    CHOOSE g : g = [i \in V6Begin(s) .. Len(s) |->
                       IF i = V6Begin(s) THEN V6Start(s) ELSE V6Next(s, i, g[i - 1])]

V6Result(last) ==
    LET tmp == IF last.xdigits = 0 THEN last.tmp
               ELSE last.tmp \o <<last.val \div 256, last.val % 256>>
    IN  IF /\ last.ok /\ Len(tmp) <= In6Size
           /\ IF last.colonp < 0 THEN Len(tmp) = In6Size ELSE Len(tmp) < In6Size
        THEN Expand(tmp, last.colonp) ELSE Failed

LEMMA V6StepsDef ==
    ASSUME NEW s, Len(s) \in Nat
    PROVE  /\ inet_pton6(s) = V6Result(V6Steps(s)[Len(s)])
           /\ V6Begin(s) \in 0 .. Len(s)
           /\ V6Steps(s)[V6Begin(s)] = V6Start(s)
           /\ \A i \in V6Begin(s) + 1 .. Len(s) : V6Steps(s)[i] = V6Next(s, i, V6Steps(s)[i - 1])
  <1> DEFINE begin == V6Begin(s)
             start == V6Start(s)
             n == Len(s)
             P(k, g) == g = [i \in begin .. k |->
                                IF i = begin THEN start ELSE V6Next(s, i, g[i - 1])]
             S == {k \in Nat : \E g : P(begin + k, g)}
             step == V6Steps(s)
  <1>1. inet_pton6(s) = V6Result(step[n])
    BY DEF inet_pton6, V6Result, V6Steps, V6Next, V6Start, V6Begin
  <1>2. step = CHOOSE g : P(n, g)
    BY DEF V6Steps
  <1>3. begin \in Nat /\ begin <= n
    BY DEF V6Begin
  <1> HIDE DEF step, begin, start, n
  <1>4. 0 \in S
    <2>1. P(begin, [i \in begin .. begin |-> start])
      BY <1>3
    <2>2. begin + 0 = begin
      BY <1>3
    <2> HIDE DEF P
    <2> QED BY <2>1, <2>2
  <1>5. ASSUME NEW k \in Nat, k \in S PROVE k + 1 \in S
    <2> DEFINE l == begin + k
    <2>1. PICK g : P(l, g)
      BY <1>5
    <2>5. l \in Nat /\ l >= begin /\ begin + (k + 1) = l + 1
      BY <1>3
    <2> HIDE DEF l
    <2> DEFINE h == [i \in begin .. l + 1 |-> IF i = begin THEN start ELSE V6Next(s, i, g[i - 1])]
    <2>2. ASSUME NEW i \in begin .. l + 1
          PROVE  h[i] = IF i = begin THEN start ELSE V6Next(s, i, h[i - 1])
      <3>1. CASE i = begin
        BY <3>1
      <3>2. CASE i # begin
        <4>1. i - 1 \in begin .. l /\ i - 1 \in begin .. l + 1
          BY <1>3, <2>5, <3>2
        <4>2. g[i - 1] = IF i - 1 = begin THEN start ELSE V6Next(s, i - 1, g[(i - 1) - 1])
          BY <2>1, <4>1
        <4>3. h[i - 1] = g[i - 1]
          BY <4>1, <4>2
        <4>4. h[i] = V6Next(s, i, g[i - 1])
          BY <3>2
        <4> HIDE DEF h
        <4> QED BY <3>2, <4>3, <4>4
      <3> QED BY <3>1, <3>2
    <2>3. h = [i \in begin .. l + 1 |-> h[i]]
      OBVIOUS
    <2> HIDE DEF h
    <2>4. P(l + 1, h)
      BY <2>2, <2>3
    <2> HIDE DEF P
    <2> QED BY <2>4, <2>5
  <1> HIDE DEF S
  <1>6. n - begin \in S
    <2>1. n - begin \in Nat
      BY <1>3 DEF n
    <2> QED BY <1>4, <1>5, <2>1, Induction
  <1>7. P(n, step)
    <2>1. begin + (n - begin) = n
      BY <1>3 DEF n
    <2> HIDE DEF P
    <2> QED BY <1>2, <1>6, <2>1 DEF S
  <1>8. \A i \in begin .. n : step[i] = IF i = begin THEN start ELSE V6Next(s, i, step[i - 1])
    BY <1>7
  <1> HIDE DEF P
  <1>9. begin \in begin .. n /\ (\A i \in begin + 1 .. n : i \in begin .. n /\ i # begin) /\ begin \in 0 .. n
    BY <1>3 DEF n
  <1>10. step[begin] = start /\ \A i \in begin + 1 .. n : step[i] = V6Next(s, i, step[i - 1])
    BY <1>8, <1>9
  <1> QED BY <1>1, <1>9, <1>10 DEF step, begin, start, n

(* The fields after a character.                                           *)
V6Fields(q, tmp, colonp, xdigits, val, curtok, done) ==
    /\ q \in V6State /\ q.ok
    /\ q.tmp = tmp /\ q.colonp = colonp /\ q.xdigits = xdigits /\ q.val = val
    /\ q.curtok = curtok /\ q.done = done

V6After(s, i, p, c, quad, q) ==
    IF c \in 0 .. 15 /\ p.xdigits < 4
    THEN V6Fields(q, p.tmp, p.colonp, p.xdigits + 1, p.val * 16 + c, p.curtok, FALSE)
    ELSE IF c = Colon /\ p.xdigits = 0 /\ p.colonp < 0
    THEN V6Fields(q, p.tmp, Len(p.tmp), 0, p.val, i + 1, FALSE)
    ELSE IF c = Colon /\ p.xdigits > 0 /\ i # Len(s) /\ Len(p.tmp) + 2 <= In6Size
    THEN V6Fields(q, p.tmp \o <<p.val \div 256, p.val % 256>>, p.colonp, 0, 0, i + 1, FALSE)
    ELSE IF c = Dot /\ Len(p.tmp) + 4 <= In6Size /\ quad # Failed
    THEN V6Fields(q, p.tmp \o quad, p.colonp, 0, p.val, p.curtok, TRUE)
    ELSE q \in V6State /\ ~q.ok

LEMMA V6NextFields ==
    ASSUME NEW s, NEW i \in Nat, NEW p \in V6State, p.ok, ~p.done,
           NEW c \in Nat, c = s[i],
           NEW quad \in Seq(Nat), quad = inet_pton4(SubSeq(s, p.curtok, Len(s))),
           NEW q, q = V6Next(s, i, p)
    PROVE  V6After(s, i, p, c, quad, q)
  <1> DEFINE IsDigit == c \in 0 .. 15 /\ p.xdigits < 4
             IsGap == c = Colon /\ p.xdigits = 0 /\ p.colonp < 0
             IsGroup == c = Colon /\ p.xdigits > 0 /\ i # Len(s) /\ Len(p.tmp) + 2 <= In6Size
             IsQuad == c = Dot /\ Len(p.tmp) + 4 <= In6Size /\ quad # Failed
             a == p.val * 16 + c
             b == p.xdigits + 1
             d == p.tmp \o <<p.val \div 256, p.val % 256>>
             e == p.tmp \o quad
             f == Len(p.tmp)
             g == i + 1
  <1>1. /\ p.tmp \in Seq(Nat) /\ p.val \in Nat /\ p.xdigits \in Nat /\ p.colonp \in Int
        /\ p.curtok \in Nat /\ p.done = FALSE /\ p.ok = TRUE
    BY DEF V6State
  <1>2. a \in Nat /\ b \in Nat /\ f \in Nat /\ f \in Int /\ g \in Nat
    <2> DEFINE v == p.val
               x == p.xdigits
               t == p.tmp
    <2>1. v \in Nat /\ x \in Nat /\ t \in Seq(Nat)
      BY <1>1
    <2> HIDE DEF v, x, t
    <2>2. v * 16 + c \in Nat /\ x + 1 \in Nat /\ Len(t) \in Nat /\ Len(t) \in Int /\ i + 1 \in Nat
      BY ONLY <2>1, c \in Nat, i \in Nat
    <2> QED BY <2>2 DEF v, x, t
  <1>3. d \in Seq(Nat) /\ e \in Seq(Nat)
    <2>1. p.val \div 256 \in Nat /\ p.val % 256 \in Nat
      BY <1>1
    <2> DEFINE x == p.val \div 256
               y == p.val % 256
    <2>2. x \in Nat /\ y \in Nat
      BY <2>1
    <2> HIDE DEF x, y
    <2>3. <<x, y>> \in Seq(Nat)
      BY <2>2
    <2>4. p.tmp \o <<x, y>> \in Seq(Nat) /\ p.tmp \o quad \in Seq(Nat)
      BY <1>1, <2>3, ConcatProperties
    <2> QED BY <2>4 DEF x, y
  <1>4. hex_digit_value(c) = IF c \in 0 .. 15 THEN c ELSE -1
    BY DEF hex_digit_value
  <1>5. (hex_digit_value(c) >= 0 <=> c \in 0 .. 15)
    BY <1>4
  <1>6. CASE IsDigit
    <2>1. hex_digit_value(s[i]) = c
      BY <1>4, <1>6
    <2>2. q = [p EXCEPT !.val = a, !.xdigits = b]
      BY <1>1, <1>5, <1>6, <2>1 DEF V6Next
    <2> HIDE DEF a, b
    <2>3. V6Fields(q, p.tmp, p.colonp, b, a, p.curtok, FALSE)
      BY ONLY <1>1, <1>2, <2>2, p \in V6State DEF V6State, V6Fields
    <2> QED BY <1>6, <2>3 DEF a, b, V6After
  <1>7. CASE ~IsDigit /\ IsGap
    <2>1. q = [p EXCEPT !.curtok = g, !.colonp = f]
      BY <1>1, <1>5, <1>7 DEF V6Next
    <2>4. p.xdigits = 0
      BY <1>7
    <2> HIDE DEF f, g
    <2>3. V6Fields(q, p.tmp, f, 0, p.val, g, FALSE)
      BY ONLY <1>1, <1>2, <2>1, <2>4, p \in V6State DEF V6State, V6Fields
    <2> HIDE DEF IsDigit, IsGap, IsGroup, IsQuad
    <2> QED BY <1>7, <2>3 DEF f, g, IsDigit, IsGap, V6After
  <1>8. CASE ~IsDigit /\ ~IsGap /\ IsGroup
    <2>1. q = [p EXCEPT !.tmp = d, !.xdigits = 0, !.val = 0, !.curtok = g]
      BY <1>1, <1>5, <1>8 DEF V6Next
    <2> HIDE DEF d, g
    <2>3. V6Fields(q, d, p.colonp, 0, 0, g, FALSE)
      BY ONLY <1>1, <1>2, <1>3, <2>1, p \in V6State DEF V6State, V6Fields
    <2> HIDE DEF IsDigit, IsGap, IsGroup, IsQuad
    <2> QED BY <1>8, <2>3 DEF d, g, IsDigit, IsGap, IsGroup, V6After
  <1>9. CASE ~IsDigit /\ ~IsGap /\ ~IsGroup /\ IsQuad
    <2>1. q = [p EXCEPT !.tmp = e, !.xdigits = 0, !.done = TRUE]
      BY <1>1, <1>5, <1>9 DEF V6Next
    <2> HIDE DEF e
    <2>3. V6Fields(q, e, p.colonp, 0, p.val, p.curtok, TRUE)
      BY ONLY <1>1, <1>2, <1>3, <2>1, p \in V6State DEF V6State, V6Fields
    <2> HIDE DEF IsDigit, IsGap, IsGroup, IsQuad
    <2> QED BY <1>9, <2>3 DEF e, IsDigit, IsGap, IsGroup, IsQuad, V6After
  <1>10. CASE ~IsDigit /\ ~IsGap /\ ~IsGroup /\ ~IsQuad
    <2>1. q = [p EXCEPT !.ok = FALSE]
      <3>1. ~(hex_digit_value(s[i]) >= 0 /\ p.xdigits < 4)
        BY <1>5, <1>10
      <3>2. ~(s[i] = Colon /\ p.xdigits = 0 /\ p.colonp < 0)
        BY <1>10
      <3>3. ~(s[i] = Colon /\ p.xdigits > 0 /\ i # Len(s) /\ Len(p.tmp) + 2 <= In6Size)
        BY <1>10
      <3>4. ~(s[i] = Dot /\ Len(p.tmp) + 4 <= In6Size
              /\ inet_pton4(SubSeq(s, p.curtok, Len(s))) # Failed)
        BY <1>10
      <3>5. ~(~p.ok \/ p.done)
        BY <1>1
      <3> QED BY ONLY <3>1, <3>2, <3>3, <3>4, <3>5, q = V6Next(s, i, p) DEF V6Next
    <2>3. q \in V6State /\ ~q.ok
      BY ONLY <2>1, p \in V6State DEF V6State
    <2> HIDE DEF IsDigit, IsGap, IsGroup, IsQuad
    <2> QED BY <1>10, <2>3 DEF IsDigit, IsGap, IsGroup, IsQuad, V6After
  <1> HIDE DEF IsDigit, IsGap, IsGroup, IsQuad
  <1> QED BY <1>6, <1>7, <1>8, <1>9, <1>10

(* The loop invariant.  The loop still reads the part of the i-th          *)
(* character; it has taken a quad; or it has failed, and so does V6.       *)
V6Read(parts, m) == \A j \in 1 .. m : parts[j] = <<>> \/ Group(parts[j])

V6Going(s, parts, i, m, t, p) ==
    /\ V6Fields(p, Uptos(parts)[m - 1], p.colonp, t, Values(parts[m], 16)[t], i + 1 - t, FALSE)
    /\ t <= 4 /\ \A k \in 1 .. t : parts[m][k] \in 0 .. 15
    /\ V6Read(parts, m - 1)
    /\ Len(p.tmp) <= In6Size
    /\ Opened(parts, m, p.colonp)
    /\ t = 0 /\ (m = 1 \/ parts[m - 1] # <<>>) => i < Len(s) /\ (m = 1 => s[i + 1] # Colon)

V6Done(parts, p) ==
    /\ V6Fields(p, Uptos(parts)[Len(parts)], p.colonp, 0, p.val, p.curtok, TRUE)
    /\ V6Read(parts, Len(parts) - 1)
    /\ IsLastQuad(parts, Len(parts))
    /\ Opened(parts, Len(parts), p.colonp)

V6Lost(parts, p) == p \in V6State /\ ~p.ok /\ V6Of(parts) = Failed

V6Inv(s, i, p) ==
    LET parts == Split(s, Colon)
    IN  \/ V6Going(s, parts, i, Part(s, Colon, i), Depth(s, Colon, i), p)
        \/ V6Done(parts, p)
        \/ V6Lost(parts, p)

(* A hexadecimal digit: the fifth in a row is too many.                    *)
LEMMA V6Digit ==
    ASSUME NEW s, NEW parts \in Seq(Seq(Nat)), NEW i \in Nat, NEW m \in 1 .. Len(parts), NEW t \in Nat,
           NEW p, V6Going(s, parts, i, m, t, p),
           NEW c \in 0 .. 15, c = parts[m][t + 1], t + 1 <= Len(parts[m]),
           NEW q,
           IF t < 4
           THEN V6Fields(q, p.tmp, p.colonp, p.xdigits + 1, p.val * 16 + c, p.curtok, FALSE)
           ELSE q \in V6State /\ ~q.ok
    PROVE  V6Going(s, parts, i + 1, m, t + 1, q) \/ V6Lost(parts, q)
  <1> DEFINE part == parts[m]
             v == Values(part, 16)
  <1>1. part \in Seq(Nat) /\ Len(part) \in Nat /\ t + 1 \in 1 .. Len(part) /\ (t + 1) - 1 = t
    <2>1. part \in Seq(Nat)
      OBVIOUS
    <2>2. Len(part) \in Nat
      BY <2>1
    <2> HIDE DEF part
    <2> QED BY <2>1, <2>2 DEF part
  <1>2. v[t + 1] = v[t] * 16 + part[t + 1]
    <2> HIDE DEF part
    <2>1. \A k \in 1 .. Len(part) : v[k] = v[k - 1] * 16 + part[k]
      BY ONLY <1>1, ValuesDef DEF v
    <2> HIDE DEF v
    <2>2. v[t + 1] = v[(t + 1) - 1] * 16 + part[t + 1]
      BY ONLY <1>1, <2>1
    <2> QED BY ONLY <1>1, <2>2
  <1>3. \A k \in 1 .. t + 1 : part[k] \in 0 .. 15
    <2>1. \A k \in 1 .. t + 1 : k \in 1 .. t \/ k = t + 1
      OBVIOUS
    <2>2. \A k \in 1 .. t : part[k] \in 0 .. 15
      BY DEF V6Going
    <2> QED BY <2>1, <2>2
  <1>4. /\ p.tmp = Uptos(parts)[m - 1] /\ p.xdigits = t /\ p.val = v[t] /\ p.curtok = i + 1 - t
        /\ t <= 4 /\ V6Read(parts, m - 1) /\ Len(p.tmp) <= In6Size /\ Opened(parts, m, p.colonp)
    BY DEF V6Going, V6Fields
  <1> HIDE DEF part, v
  <1>5. CASE t < 4
    <2>1. V6Fields(q, p.tmp, p.colonp, p.xdigits + 1, p.val * 16 + c, p.curtok, FALSE)
      BY <1>5
    <2>2. q.colonp = p.colonp /\ q.tmp = p.tmp
      BY <2>1 DEF V6Fields
    <2>3. p.val * 16 + c = v[t + 1] /\ p.xdigits + 1 = t + 1 /\ p.curtok = (i + 1) + 1 - (t + 1)
      <3>1. (i + 1) + 1 - (t + 1) = i + 1 - t
        OBVIOUS
      <3> QED BY <1>2, <1>4, <3>1 DEF part
    <2>4. V6Fields(q, Uptos(parts)[m - 1], q.colonp, t + 1, v[t + 1], (i + 1) + 1 - (t + 1), FALSE)
      BY <1>4, <2>1, <2>2, <2>3
    <2>5. t + 1 <= 4 /\ t + 1 # 0
      BY <1>5
    <2>6. V6Going(s, parts, i + 1, m, t + 1, q)
      BY <1>3, <1>4, <2>2, <2>4, <2>5 DEF V6Going, part, v
    <2> QED BY <2>6
  <1>6. CASE ~(t < 4)
    <2>1. t = 4 /\ Len(part) >= 5
      BY <1>1, <1>4, <1>6
    <2>2. \A k \in 1 .. Len(part) : k <= 5 => part[k] # Dot
      <3>1. \A k \in 1 .. Len(part) : k <= 5 => k \in 1 .. t + 1
        BY <1>1, <2>1
      <3>2. \A x \in 0 .. 15 : x # Dot
        BY DEF Dot
      <3> QED BY ONLY <1>3, <3>1, <3>2
    <2>3. Quad(part, 4) = Failed
      BY <1>1, <2>2, QuadHasDot
    <2>4. ~Group(part) /\ part # <<>>
      <3> DEFINE size == Len(part)
      <3>3. size \in Nat /\ size >= 5
        BY <1>1, <2>1
      <3> HIDE DEF size
      <3>4. size \notin 1 .. 4 /\ size # 0
        BY ONLY <3>3
      <3>1. Len(part) \notin 1 .. 4 /\ Len(part) # 0
        BY ONLY <3>4 DEF size
      <3>2. part # <<>>
        BY ONLY <3>1
      <3> QED BY <3>1, <3>2 DEF Group, Numbers
    <2>5. ~IsLastQuad(parts, m)
      BY <2>3 DEF LastQuad, IsLastQuad, part
    <2>6. V6Of(parts) = Failed
      BY <2>4, <2>5, V6BadPart DEF part
    <2>7. q \in V6State /\ ~q.ok
      BY <1>6
    <2> QED BY <2>6, <2>7 DEF V6Lost
  <1> QED BY <1>5, <1>6

(* Any other character of a part, but a dot that a quad is found for.      *)
LEMMA V6Other ==
    ASSUME NEW parts \in Seq(Seq(Nat)), NEW m \in 1 .. Len(parts), NEW k \in 1 .. Len(parts[m]),
           parts[m][k] \notin 0 .. 15,
           parts[m][k] = Dot => ~IsLastQuad(parts, m)
    PROVE  V6Of(parts) = Failed
  <1> DEFINE part == parts[m]
  <1>1. part \in Seq(Nat) /\ part # <<>> /\ part[k] \notin 0 .. 15
    OBVIOUS
  <1>2. ~Group(part)
    BY <1>1 DEF Group, Numbers
  <1>3. ~IsLastQuad(parts, m)
    <2> SUFFICES ASSUME IsLastQuad(parts, m) PROVE FALSE
      OBVIOUS
    <2>1. inet_pton4(part) # Failed
      BY <1>1, QuadIs DEF LastQuad, IsLastQuad
    <2>2. part[k] \in Digit \cup {Dot}
      BY <1>1, <2>1, QuadCharacters
    <2> QED BY <1>1, <2>2 DEF Digit
  <1> QED BY <1>1, <1>2, <1>3, V6BadPart

(* A colon after an empty part.                                            *)
LEMMA V6Colons ==
    ASSUME NEW s, NEW parts \in Seq(Seq(Nat)), NEW i \in Nat, NEW m \in Nat, m >= 1, m < Len(parts),
           NEW p, V6Going(s, parts, i, m, 0, p), Len(parts[m]) = 0,
           i < Len(s), s[i + 1] = Colon,
           NEW q,
           IF p.colonp < 0
           THEN V6Fields(q, p.tmp, Len(p.tmp), 0, p.val, (i + 1) + 1, FALSE)
           ELSE q \in V6State /\ ~q.ok
    PROVE  V6Going(s, parts, i + 1, m + 1, 0, q) \/ V6Lost(parts, q)
  <1> DEFINE u == Uptos(parts)
             D == Empties(parts, m - 1)
  <1>1. /\ p.tmp = u[m - 1] /\ V6Read(parts, m - 1) /\ Len(p.tmp) <= In6Size
        /\ Opened(parts, m, p.colonp) /\ p.val = Values(parts[m], 16)[0]
        /\ m = 1 => s[i + 1] # Colon
    BY DEF V6Going, V6Fields
  <1>2. /\ Len(parts) \in Nat /\ m \in 1 .. Len(parts) /\ m + 1 \in 1 .. Len(parts) /\ m >= 2
        /\ (m + 1) - 1 = m
    <2> DEFINE n == Len(parts)
    <2>1. n \in Nat /\ m < n /\ m # 1
      BY <1>1
    <2> HIDE DEF n
    <2>2. m \in 1 .. n /\ m + 1 \in 1 .. n /\ m >= 2 /\ (m + 1) - 1 = m
      BY ONLY <2>1, m \in Nat, m >= 1
    <2> QED BY ONLY <2>1, <2>2 DEF n
  <1>3. parts[m] = <<>> /\ parts[m + 1] \in Seq(Nat)
    <2>1. parts[m] \in Seq(Nat) /\ parts[m + 1] \in Seq(Nat)
      BY <1>2
    <2> QED BY <2>1
  <1>4. u[m] = p.tmp
    BY <1>1, <1>2, <1>3, UptosEmpty
  <1> HIDE DEF u
  <1>5. Values(parts[m], 16)[0] = 0 /\ Values(parts[m + 1], 16)[0] = 0
    <2>1. Len(parts[m]) \in Nat
      OBVIOUS
    <2>2. Len(parts[m + 1]) \in Nat
      BY ONLY <1>3
    <2>3. Values(parts[m], 16)[0] = 0
      BY ONLY <2>1, ValuesDef
    <2>4. Values(parts[m + 1], 16)[0] = 0
      BY ONLY <2>2, ValuesDef
    <2> QED BY <2>3, <2>4
  <1>6. \A j : j \in 1 .. m <=> j \in 1 .. m - 1 \/ j = m
    BY <1>2
  <1>7. CASE p.colonp < 0
    <2>1. V6Fields(q, p.tmp, Len(p.tmp), 0, p.val, (i + 1) + 1, FALSE)
      BY <1>7
    <2>2. D = {}
      <3> SUFFICES ASSUME NEW e \in 2 .. m - 1, p.colonp = Len(u[e]) PROVE FALSE
        BY <1>1 DEF Opened, u
      <3>1. e \in 0 .. Len(parts)
        BY <1>2
      <3>2. u[e] \in Seq(Nat)
        BY <3>1, UptosFacts DEF u
      <3>3. Len(u[e]) \in Nat
        BY <3>2
      <3> QED BY <1>7, <3>3
    <2>3. Empties(parts, m) = {m}
      <3>1. \A j : j \in D <=> j \in 1 .. m - 1 /\ parts[j] = <<>>
        BY DEF Empties
      <3>2. \A j : j \in Empties(parts, m) <=> j \in 1 .. m /\ parts[j] = <<>>
        BY DEF Empties
      <3>3. \A j : j \in Empties(parts, m) <=> j = m
        <4> HIDE DEF D
        <4> QED BY <1>3, <1>6, <2>2, <3>1, <3>2
      <3> QED BY <3>3
    <2>4. q.colonp = Len(u[m]) /\ q.tmp = u[m]
      BY <1>4, <2>1 DEF V6Fields
    <2>5. Opened(parts, m + 1, q.colonp)
      <3>1. m \in 2 .. (m + 1) - 1
        BY <1>2
      <3> QED BY <1>2, <1>3, <2>3, <2>4, <3>1 DEF Opened, u
    <2>6. V6Read(parts, (m + 1) - 1)
      BY <1>1, <1>2, <1>3, <1>6 DEF V6Read
    <2>7. V6Fields(q, u[(m + 1) - 1], q.colonp, 0, Values(parts[m + 1], 16)[0], (i + 1) + 1 - 0, FALSE)
      <3>1. (i + 1) + 1 - 0 = (i + 1) + 1 /\ Len(p.tmp) = q.colonp
        BY <1>4, <2>4
      <3> QED BY <1>1, <1>2, <1>4, <1>5, <2>1, <3>1
    <2>8. m + 1 # 1 /\ ~(parts[(m + 1) - 1] # <<>>)
      BY <1>2, <1>3
    <2>9. Len(q.tmp) <= In6Size /\ 0 <= 4 /\ \A k \in 1 .. 0 : FALSE
      BY <1>1, <1>4, <2>4
    <2>10. V6Going(s, parts, i + 1, m + 1, 0, q)
      BY <2>5, <2>6, <2>7, <2>8, <2>9 DEF V6Going, u
    <2> QED BY <2>10
  <1>8. CASE ~(p.colonp < 0)
    <2>1. PICK e \in 2 .. m - 1 : parts[e] = <<>>
      BY <1>1, <1>8 DEF Opened
    <2>2. e \in Nat /\ 2 <= e /\ e < m
      BY <1>2
    <2>3. V6Of(parts) = Failed
      BY <1>3, <2>1, <2>2, V6TwoGaps
    <2>4. q \in V6State /\ ~q.ok
      BY <1>8
    <2> QED BY <2>3, <2>4 DEF V6Lost
  <1> QED BY <1>7, <1>8

(* The bytes of a group.                                                   *)
WithGroup(b, a, v) ==
    b = a \o <<v \div 256, v % 256>> /\ Len(b) = Len(a) + 2 /\ Len(a) \in Nat

LEMMA UptosGroup ==
    ASSUME NEW parts \in Seq(Seq(Nat)), NEW m \in 1 .. Len(parts), Group(parts[m]),
           NEW v, v = Values(parts[m], 16)[Len(parts[m])]
    PROVE  WithGroup(Uptos(parts)[m], Uptos(parts)[m - 1], v)
  <1> DEFINE part == parts[m]
             a == Uptos(parts)[m - 1]
             b == V6Bytes(parts, m)
             c == Uptos(parts)[m]
  <1>1. Len(parts) \in Nat /\ m - 1 \in 0 .. Len(parts)
    OBVIOUS
  <1>2. c = a \o b /\ a \in Seq(Nat)
    BY <1>1, UptosDef, UptosFacts
  <1>3. part \in Seq(Nat)
    OBVIOUS
  <1>4. Len(part) \in Nat /\ part # <<>>
    <2>1. Len(part) \in Nat /\ Len(part) \in 1 .. 4
      BY <1>3 DEF Group, Numbers
    <2>2. Len(<<>>) = 0 /\ 0 \notin 1 .. 4
      OBVIOUS
    <2> HIDE DEF part
    <2> QED BY <2>1, <2>2, Zenon
  <1>5. ~IsLastQuad(parts, m)
    BY <1>3, GroupIsNoQuad DEF LastQuad, IsLastQuad
  <1>6. Value(part, 16) = v
    BY <1>4, ValuesDef
  <1>7. b = <<v \div 256, v % 256>>
    BY <1>4, <1>5, <1>6 DEF LastQuad, V6Bytes
  <1>8. b \in Seq(Nat) /\ Len(b) = 2
    BY <1>4, <1>5, V6BytesType
  <1> HIDE DEF a, b, c
  <1>9. Len(c) = Len(a) + 2 /\ Len(a) \in Nat
    <2>1. Len(a \o b) = Len(a) + Len(b)
      BY <1>2, <1>8, ConcatProperties
    <2>2. Len(a) \in Nat
      BY <1>2
    <2> QED BY ONLY <1>2, <1>8, <2>1, <2>2
  <1> QED BY <1>2, <1>7, <1>9 DEF a, c, WithGroup

(* A colon after a group.                                                  *)
LEMMA V6Colon ==
    ASSUME NEW s, NEW parts \in Seq(Seq(Nat)), NEW i \in Nat, NEW m \in Nat, m >= 1, m < Len(parts),
           NEW t \in Nat, t > 0, Len(s) \in Nat,
           NEW p, V6Going(s, parts, i, m, t, p), Len(parts[m]) = t,
           i < Len(s),
           i + 1 = Len(s) => m + 1 = Len(parts) /\ parts[m + 1] = <<>>,
           NEW q,
           IF i + 1 # Len(s) /\ Len(p.tmp) + 2 <= In6Size
           THEN V6Fields(q, p.tmp \o <<p.val \div 256, p.val % 256>>, p.colonp, 0, 0, (i + 1) + 1, FALSE)
           ELSE q \in V6State /\ ~q.ok
    PROVE  V6Going(s, parts, i + 1, m + 1, 0, q) \/ V6Lost(parts, q)
  <1> DEFINE u == Uptos(parts)
             v == p.val
             two == <<v \div 256, v % 256>>
  <1>1. /\ p.tmp = u[m - 1] /\ V6Read(parts, m - 1) /\ Opened(parts, m, p.colonp)
        /\ p.val = Values(parts[m], 16)[t] /\ t <= 4 /\ \A k \in 1 .. t : parts[m][k] \in 0 .. 15
    BY DEF V6Going, V6Fields
  <1>2. /\ m \in 1 .. Len(parts) /\ m + 1 \in 1 .. Len(parts)
        /\ (m + 1) - 1 = m /\ m \in 0 .. Len(parts) /\ m + 1 \in Nat /\ m + 1 # 1 /\ m + 1 >= 1
    <2> DEFINE n == Len(parts)
    <2>1. n \in Nat /\ m < n
      OBVIOUS
    <2> HIDE DEF n
    <2>2. /\ m \in 1 .. n /\ m + 1 \in 1 .. n
          /\ (m + 1) - 1 = m /\ m \in 0 .. n /\ m + 1 \in Nat /\ m + 1 # 1 /\ m + 1 >= 1
      BY ONLY <2>1, m \in Nat, m >= 1
    <2> QED BY ONLY <2>2 DEF n
  <1>3. parts[m] \in Seq(Nat) /\ parts[m + 1] \in Seq(Nat)
    BY ONLY <1>2, parts \in Seq(Seq(Nat)), Elements
  <1>4. Group(parts[m]) /\ parts[m] # <<>>
    <2>1. t \in 1 .. 4 /\ t # 0
      BY <1>1
    <2>2. parts[m] # <<>>
      BY <2>1
    <2> QED BY <1>1, <2>1, <2>2 DEF Group, Numbers
  <1>5. u[m] = u[m - 1] \o two /\ Len(u[m]) = Len(u[m - 1]) + 2 /\ Len(u[m - 1]) \in Nat
    <2>1. v = Values(parts[m], 16)[Len(parts[m])]
      BY <1>1
    <2> HIDE DEF v
    <2>2. WithGroup(u[m], u[m - 1], v)
      BY <1>2, <1>4, <2>1, UptosGroup
    <2> QED BY ONLY <2>2 DEF WithGroup, v
  <1> HIDE DEF u, two
  <1>6. \A j : j \in 1 .. m <=> j \in 1 .. m - 1 \/ j = m
    BY ONLY m \in Nat, m >= 1
  <1>7. CASE i + 1 # Len(s) /\ Len(p.tmp) + 2 <= In6Size
    <2>1. V6Fields(q, p.tmp \o two, p.colonp, 0, 0, (i + 1) + 1, FALSE)
      BY <1>7 DEF two
    <2>2. q.tmp = u[m] /\ q.colonp = p.colonp
      BY <1>1, <1>5, <2>1 DEF V6Fields
    <2>3. Empties(parts, m) = Empties(parts, m - 1)
      <3>1. \A j : j \in Empties(parts, m - 1) <=> j \in 1 .. m - 1 /\ parts[j] = <<>>
        BY DEF Empties
      <3>2. \A j : j \in Empties(parts, m) <=> j \in 1 .. m /\ parts[j] = <<>>
        BY DEF Empties
      <3>3. \A j : j \in Empties(parts, m) <=> j \in Empties(parts, m - 1)
        BY <1>4, <1>6, <3>1, <3>2
      <3> QED BY <3>3
    <2>4. Opened(parts, m + 1, q.colonp)
      <3>1. \A e \in 2 .. m - 1 : e \in 2 .. (m + 1) - 1
        BY <1>2
      <3> QED BY <1>1, <1>2, <2>2, <2>3, <3>1 DEF Opened
    <2>5. V6Read(parts, (m + 1) - 1)
      BY <1>1, <1>2, <1>4, <1>6 DEF V6Read
    <2>6. Values(parts[m + 1], 16)[0] = 0
      <3>1. Len(parts[m + 1]) \in Nat
        BY ONLY <1>3
      <3> QED BY ONLY <3>1, ValuesDef
    <2>7. V6Fields(q, u[(m + 1) - 1], q.colonp, 0, Values(parts[m + 1], 16)[0], (i + 1) + 1 - 0, FALSE)
      <3>1. (i + 1) + 1 - 0 = (i + 1) + 1
        OBVIOUS
      <3> QED BY <1>1, <1>2, <1>5, <2>1, <2>2, <2>6, <3>1
    <2>8. Len(q.tmp) <= In6Size /\ 0 <= 4 /\ \A k \in 1 .. 0 : FALSE
      BY <1>1, <1>5, <1>7, <2>2
    <2>9. i + 1 < Len(s)
      BY <1>7
    <2>10. V6Going(s, parts, i + 1, m + 1, 0, q)
      BY <1>2, <2>4, <2>5, <2>7, <2>8, <2>9 DEF V6Going, u
    <2> QED BY <2>10
  <1>8. CASE i + 1 = Len(s)
    <2>1. m + 1 = Len(parts) /\ parts[m + 1] = <<>> /\ parts[(m + 1) - 1] # <<>>
      BY <1>2, <1>4, <1>8
    <2>2. V6Of(parts) = Failed
      BY <1>2, <2>1, V6Trailing
    <2>3. q \in V6State /\ ~q.ok
      BY <1>8
    <2> QED BY <2>2, <2>3 DEF V6Lost
  <1>9. CASE ~(Len(p.tmp) + 2 <= In6Size)
    <2>1. Len(u[m]) > In6Size
      BY <1>1, <1>5, <1>9, AddressesAssumption
    <2>2. V6Of(parts) = Failed
      BY <1>2, <2>1, V6TooLong DEF u
    <2>3. q \in V6State /\ ~q.ok
      BY <1>9
    <2> QED BY <2>2, <2>3 DEF V6Lost
  <1> QED BY <1>7, <1>8, <1>9

(* A dot.                                                                  *)
V6AfterDot(p, quad, q) ==
    IF Len(p.tmp) + 4 <= In6Size /\ quad # Failed
    THEN V6Fields(q, p.tmp \o quad, p.colonp, 0, p.val, p.curtok, TRUE)
    ELSE q \in V6State /\ ~q.ok

LEMMA V6Dot ==
    ASSUME NEW s, NEW parts \in Seq(Seq(Nat)), NEW i \in Nat, NEW m \in 1 .. Len(parts), NEW t \in Nat,
           NEW p, V6Going(s, parts, i, m, t, p),
           t + 1 \in 1 .. Len(parts[m]), parts[m][t + 1] = Dot,
           NEW quad, quad = IF m = Len(parts) THEN Quad(parts[Len(parts)], 4) ELSE Failed,
           NEW q, V6AfterDot(p, quad, q)
    PROVE  V6Done(parts, q) \/ V6Lost(parts, q)
  <1> DEFINE u == Uptos(parts)
  <1>1. p.tmp = u[m - 1] /\ V6Read(parts, m - 1) /\ Opened(parts, m, p.colonp)
    BY DEF V6Going, V6Fields
  <1>2. quad # Failed <=> IsLastQuad(parts, m)
    BY DEF LastQuad, IsLastQuad
  <1>3. CASE quad = Failed
    <2>1. Dot \notin 0 .. 15
      BY DEF Dot
    <2>2. V6Of(parts) = Failed
      BY <1>2, <1>3, <2>1, V6Other
    <2>3. q \in V6State /\ ~q.ok
      BY <1>3 DEF V6AfterDot
    <2> QED BY <2>2, <2>3 DEF V6Lost
  <1>4. CASE quad # Failed
    <2>1. m = Len(parts) /\ IsLastQuad(parts, m) /\ quad = Quad(parts[m], 4)
      BY <1>2, <1>4 DEF LastQuad, IsLastQuad
    <2>2. parts[m] # <<>>
      <3>1. Len(<<>>) = 0 /\ \A x \in Nat : x + 1 \notin 1 .. 0
        OBVIOUS
      <3> QED BY <3>1
    <2>3. V6Bytes(parts, m) = quad
      BY <2>1, <2>2 DEF LastQuad, V6Bytes
    <2>4. quad \in Seq(Nat) /\ Len(quad) = 4
      BY <2>1, <2>2, <2>3, V6BytesType
    <2>5. u[m] = u[m - 1] \o quad /\ u[m - 1] \in Seq(Nat)
      <3>1. Len(parts) \in Nat /\ m - 1 \in 0 .. Len(parts)
        OBVIOUS
      <3> QED BY <2>3, <3>1, UptosDef, UptosFacts
    <2> HIDE DEF u
    <2>6. Len(u[m]) = Len(p.tmp) + 4 /\ Len(p.tmp) \in Nat
      <3> DEFINE a == u[m - 1]
      <3>1. a \in Seq(Nat)
        BY <2>5
      <3> HIDE DEF a
      <3>2. Len(a \o quad) = Len(a) + Len(quad)
        BY <2>4, <3>1, ConcatProperties
      <3>3. Len(a) \in Nat
        BY <3>1
      <3> QED BY <1>1, <2>4, <2>5, <3>2, <3>3 DEF a
    <2>7. CASE Len(p.tmp) + 4 <= In6Size
      <3>1. V6Fields(q, p.tmp \o quad, p.colonp, 0, p.val, p.curtok, TRUE)
        BY <1>4, <2>7 DEF V6AfterDot
      <3>2. V6Fields(q, u[m], q.colonp, 0, q.val, q.curtok, TRUE) /\ q.colonp = p.colonp
        BY <1>1, <2>5, <3>1 DEF V6Fields
      <3>3. V6Done(parts, q)
        BY <1>1, <2>1, <3>2 DEF V6Done, u
      <3> QED BY <3>3
    <2>8. CASE ~(Len(p.tmp) + 4 <= In6Size)
      <3>1. m \in 0 .. Len(parts) /\ Len(u[m]) > In6Size
        BY <2>6, <2>8, AddressesAssumption
      <3>2. V6Of(parts) = Failed
        BY <3>1, V6TooLong DEF u
      <3>3. q \in V6State /\ ~q.ok
        BY <2>8 DEF V6AfterDot
      <3> QED BY <3>2, <3>3 DEF V6Lost
    <2> QED BY <2>7, <2>8
  <1> QED BY <1>3, <1>4

LEMMA V6GoesOn ==
    ASSUME NEW s \in Seq(Nat), NEW i \in 0 .. Len(s) - 1, NEW p, V6Inv(s, i, p),
           NEW q, q = V6Next(s, i + 1, p)
    PROVE  V6Inv(s, i + 1, q)
  <1> DEFINE n == Len(s)
             parts == Split(s, Colon)
             size == Len(parts)
             m == Part(s, Colon, i)
             t == Depth(s, Colon, i)
             mm == Part(s, Colon, i + 1)
             tt == Depth(s, Colon, i + 1)
             c == s[i + 1]
  <1>1. n \in Nat /\ i \in Nat /\ i < n /\ i + 1 \in 0 .. n /\ i \in 0 .. n /\ c \in Nat /\ i + 1 \in 1 .. n
    OBVIOUS
  <1>2. /\ parts \in Seq(Seq(Nat)) /\ size >= 1
        /\ \A k \in 0 .. n : /\ Part(s, Colon, k) \in 1 .. size
                             /\ Depth(s, Colon, k) \in 0 .. Len(parts[Part(s, Colon, k)])
        /\ Part(s, Colon, n) = size /\ Depth(s, Colon, n) = Len(parts[size])
        /\ IF c = Colon THEN mm = m + 1 /\ tt = 0 /\ t = Len(parts[m])
           ELSE mm = m /\ tt = t + 1 /\ parts[m][t + 1] = c
    BY Walk
  <1>3. inet_pton4(SubSeq(s, i + 1 - t, n)) = IF m = size THEN Quad(parts[size], 4) ELSE Failed
    BY <1>1, RestOfText
  <1> HIDE DEF parts, m, t, mm, tt, c, n
  <1>4. /\ m \in 1 .. size /\ mm \in 1 .. size /\ t \in 0 .. Len(parts[m]) /\ tt \in 0 .. Len(parts[mm])
    BY <1>1, <1>2 DEF m, t, mm, tt
  <1>5. /\ size \in Nat /\ m \in Nat /\ m >= 1 /\ m <= size /\ mm <= size /\ mm \in Nat
        /\ parts[m] \in Seq(Nat) /\ parts[mm] \in Seq(Nat)
    <2>1. size \in Nat
      BY <1>2
    <2>2. parts[m] \in Seq(Nat) /\ parts[mm] \in Seq(Nat)
      BY <1>2, <1>4, Elements
    <2> HIDE DEF size
    <2> QED BY <1>4, <2>1, <2>2
  <1>6. t \in Nat /\ t <= Len(parts[m])
    <2>1. Len(parts[m]) \in Nat
      BY <1>5
    <2> QED BY <1>4, <2>1
  <1>7. V6Inv(s, i, p) <=> V6Going(s, parts, i, m, t, p) \/ V6Done(parts, p) \/ V6Lost(parts, p)
    BY DEF V6Inv, parts, m, t
  <1>8. V6Inv(s, i + 1, q) <=> V6Going(s, parts, i + 1, mm, tt, q) \/ V6Done(parts, q) \/ V6Lost(parts, q)
    BY DEF V6Inv, parts, mm, tt
  <1>9. CASE V6Done(parts, p) \/ V6Lost(parts, p)
    <2>1. ~p.ok \/ p.done
      BY <1>9 DEF V6Done, V6Lost, V6Fields
    <2>2. q = p
      BY <2>1 DEF V6Next
    <2> QED BY <1>8, <1>9, <2>2
  <1>10. CASE V6Going(s, parts, i, m, t, p)
    <2>1. /\ p \in V6State /\ p.ok /\ ~p.done /\ p.xdigits = t /\ p.curtok = i + 1 - t
          /\ t <= 4
      BY <1>10 DEF V6Going, V6Fields
    <2> DEFINE quad == inet_pton4(SubSeq(s, p.curtok, Len(s)))
    <2>2. quad = IF m = size THEN Quad(parts[size], 4) ELSE Failed
      BY <1>3, <2>1 DEF n
    <2>3. quad \in Seq(Nat)
      <3>1. Failed \in Seq(Nat)
        BY DEF Failed
      <3>2. m = size => parts[size] \in Seq(Nat)
        BY <1>5
      <3>3. m = size => Quad(parts[size], 4) = Failed \/ Quad(parts[size], 4) \in Seq(Nat)
        BY <3>2, QuadType
      <3> HIDE DEF size, quad
      <3> QED BY <2>2, <3>1, <3>3
    <2> HIDE DEF quad
    <2>4. V6After(s, i + 1, p, c, quad, q)
      <3>1. i + 1 \in Nat /\ c \in Nat /\ c = s[i + 1]
        BY <1>1 DEF c
      <3>2. p \in V6State /\ p.ok /\ ~p.done
        BY <2>1
      <3> QED BY ONLY <2>3, <3>1, <3>2, q = V6Next(s, i + 1, p), V6NextFields DEF quad
    <2>5. CASE c \in 0 .. 15
      <3>1. c # Colon /\ c # Dot
        BY <2>5 DEF Colon, Dot
      <3>2. mm = m /\ tt = t + 1 /\ c = parts[m][t + 1]
        BY <1>2, <3>1
      <3>3. IF t < 4 THEN V6Fields(q, p.tmp, p.colonp, p.xdigits + 1, p.val * 16 + c, p.curtok, FALSE)
            ELSE q \in V6State /\ ~q.ok
        BY <2>1, <2>4, <2>5, <3>1 DEF V6After
      <3>4. t + 1 <= Len(parts[m])
        <4>1. Len(parts[m]) \in Nat
          BY <1>5
        <4> QED BY <1>4, <1>6, <3>2, <4>1
      <3>5. V6Going(s, parts, i + 1, m, t + 1, q) \/ V6Lost(parts, q)
        BY <1>1, <1>2, <1>4, <1>6, <1>10, <2>5, <3>2, <3>3, <3>4, V6Digit
      <3> QED BY <1>8, <3>2, <3>5
    <2>6. CASE c = Colon
      <3>1. c \notin 0 .. 15 /\ c # Dot
        BY <2>6 DEF Colon, Dot
      <3>2. mm = m + 1 /\ tt = 0 /\ Len(parts[m]) = t
        BY <1>2, <2>6
      <3>3. m < size
        BY <1>5, <3>2
      <3>4. CASE t = 0
        <4>1. IF p.colonp < 0 THEN V6Fields(q, p.tmp, Len(p.tmp), 0, p.val, (i + 1) + 1, FALSE)
              ELSE q \in V6State /\ ~q.ok
          <5>1. p.xdigits = 0
            BY <2>1, <3>4
          <5> DEFINE two == p.tmp \o <<p.val \div 256, p.val % 256>>
                     four == p.tmp \o quad
          <5>2. IF c = Colon /\ p.xdigits = 0 /\ p.colonp < 0
                THEN V6Fields(q, p.tmp, Len(p.tmp), 0, p.val, (i + 1) + 1, FALSE)
                ELSE IF c = Colon /\ p.xdigits > 0 /\ i + 1 # Len(s) /\ Len(p.tmp) + 2 <= In6Size
                THEN V6Fields(q, two, p.colonp, 0, 0, (i + 1) + 1, FALSE)
                ELSE IF c = Dot /\ Len(p.tmp) + 4 <= In6Size /\ quad # Failed
                THEN V6Fields(q, four, p.colonp, 0, p.val, p.curtok, TRUE)
                ELSE q \in V6State /\ ~q.ok
            BY ONLY <2>4, <3>1 DEF V6After
          <5> HIDE DEF two, four
          <5>3. ~(0 > 0)
            OBVIOUS
          <5> QED BY ONLY <2>6, <3>1, <5>1, <5>2, <5>3
        <4>2. i < Len(s) /\ s[i + 1] = Colon
          BY <1>1, <2>6 DEF n, c
        <4>3. V6Going(s, parts, i, m, 0, p) /\ Len(parts[m]) = 0
          BY <1>10, <3>2, <3>4
        <4>4. V6Going(s, parts, i + 1, m + 1, 0, q) \/ V6Lost(parts, q)
          BY <1>1, <1>2, <1>5, <3>3, <4>1, <4>2, <4>3, V6Colons
        <4> QED BY <1>8, <3>2, <4>4
      <3>5. CASE t > 0
        <4>1. IF i + 1 # Len(s) /\ Len(p.tmp) + 2 <= In6Size
              THEN V6Fields(q, p.tmp \o <<p.val \div 256, p.val % 256>>, p.colonp, 0, 0, (i + 1) + 1, FALSE)
              ELSE q \in V6State /\ ~q.ok
          <5>1. p.xdigits # 0 /\ p.xdigits > 0
            BY <1>6, <2>1, <3>5
          <5> QED BY ONLY <2>4, <2>6, <3>1, <5>1 DEF V6After
        <4>2. i < Len(s) /\ Len(s) \in Nat
          BY <1>1 DEF n
        <4>3. i + 1 = Len(s) => m + 1 = Len(parts) /\ parts[m + 1] = <<>>
          <5> SUFFICES ASSUME i + 1 = Len(s) PROVE m + 1 = Len(parts) /\ parts[m + 1] = <<>>
            OBVIOUS
          <5>1. mm = size /\ tt = Len(parts[size])
            BY <1>2 DEF mm, tt, n
          <5>2. Len(parts[mm]) = 0
            BY <3>2, <5>1
          <5>3. parts[mm] = <<>>
            BY <1>5, <5>2
          <5> QED BY <3>2, <5>1, <5>3
        <4>4. V6Going(s, parts, i + 1, m + 1, 0, q) \/ V6Lost(parts, q)
          BY <1>1, <1>2, <1>5, <1>6, <1>10, <3>2, <3>3, <3>5, <4>1, <4>2, <4>3, V6Colon
        <4> QED BY <1>8, <3>2, <4>4
      <3> QED BY <1>6, <3>4, <3>5
    <2>7. CASE c = Dot
      <3>1. c \notin 0 .. 15 /\ c # Colon
        BY <2>7 DEF Colon, Dot
      <3>2. mm = m /\ tt = t + 1 /\ parts[m][t + 1] = Dot
        BY <1>2, <2>7, <3>1
      <3>3. V6AfterDot(p, quad, q)
        BY ONLY <2>4, <2>7, <3>1 DEF V6After, V6AfterDot
      <3>4. t + 1 \in 1 .. Len(parts[m])
        <4>1. Len(parts[m]) \in Nat
          BY <1>5
        <4> QED BY <1>4, <1>6, <3>2, <4>1
      <3>5. V6Done(parts, q) \/ V6Lost(parts, q)
        BY <1>1, <1>2, <1>4, <1>6, <1>10, <2>2, <3>2, <3>3, <3>4, V6Dot
      <3> QED BY <1>8, <3>5
    <2>8. CASE c \notin 0 .. 15 /\ c # Colon /\ c # Dot
      <3>1. q \in V6State /\ ~q.ok
        BY <2>4, <2>8 DEF V6After
      <3>2. mm = m /\ tt = t + 1 /\ parts[m][t + 1] = c
        BY <1>2, <2>8
      <3>4. t + 1 \in 1 .. Len(parts[m])
        <4>1. Len(parts[m]) \in Nat
          BY <1>5
        <4> QED BY <1>4, <1>6, <3>2, <4>1
      <3>5. V6Of(parts) = Failed
        BY <1>2, <1>4, <2>8, <3>2, <3>4, V6Other
      <3> QED BY <1>8, <3>1, <3>5 DEF V6Lost
    <2> QED BY <2>5, <2>6, <2>7, <2>8
  <1> QED BY <1>7, <1>9, <1>10

(* Where the loop invariant begins to hold: after the two colons that a    *)
(* text may begin with.                                                    *)
LEMMA V6Begins ==
    ASSUME NEW s \in Seq(Nat)
    PROVE  \E i \in V6Begin(s) .. Len(s) : V6Inv(s, i, V6Steps(s)[i])
  <1> DEFINE n == Len(s)
             parts == Split(s, Colon)
             size == Len(parts)
             begin == V6Begin(s)
             start == V6Start(s)
             step == V6Steps(s)
             m(i) == Part(s, Colon, i)
             t(i) == Depth(s, Colon, i)
  <1>1. n \in Nat
    OBVIOUS
  <1>2. /\ parts \in Seq(Seq(Nat)) /\ size >= 1 /\ m(0) = 1 /\ t(0) = 0
        /\ \A k \in 0 .. n : m(k) \in 1 .. size /\ t(k) \in 0 .. Len(parts[m(k)])
        /\ m(n) = size /\ t(n) = Len(parts[size])
        /\ \A k \in 0 .. n - 1 :
               IF s[k + 1] = Colon
               THEN m(k + 1) = m(k) + 1 /\ t(k + 1) = 0 /\ t(k) = Len(parts[m(k)])
               ELSE m(k + 1) = m(k) /\ t(k + 1) = t(k) + 1 /\ parts[m(k)][t(k) + 1] = s[k + 1]
    BY Walk
  <1>3. /\ begin \in 0 .. n /\ step[begin] = start
        /\ \A i \in begin + 1 .. n : step[i] = V6Next(s, i, step[i - 1])
    BY <1>1, V6StepsDef
  <1>4. \A i, p : V6Going(s, parts, i, m(i), t(i), p) \/ V6Lost(parts, p) => V6Inv(s, i, p)
    BY DEF V6Inv
  <1>5. /\ start \in V6State
        /\ start.ok <=> n > 0 /\ (s[1] = Colon => n > 1 /\ s[2] = Colon)
        /\ start.tmp = <<>> /\ start.colonp = -1 /\ start.xdigits = 0 /\ start.val = 0
        /\ start.curtok = begin + 1 /\ start.done = FALSE
    <2> DEFINE ok == n > 0 /\ ((n > 0 /\ s[1] = Colon) => n > 1 /\ s[2] = Colon)
               tmp == <<>>
               curtok == begin + 1
    <2>1. ok \in BOOLEAN /\ curtok \in Nat /\ tmp \in Seq(Nat) /\ -1 \in Int
      BY <1>3
    <2>2. start = [ok |-> ok, tmp |-> tmp, colonp |-> -1, xdigits |-> 0, val |-> 0,
                   curtok |-> curtok, done |-> FALSE]
      BY DEF V6Start
    <2>3. ok <=> n > 0 /\ (s[1] = Colon => n > 1 /\ s[2] = Colon)
      OBVIOUS
    <2> HIDE DEF ok, tmp, curtok, start
    <2>4. start \in V6State
      BY ONLY <2>1, <2>2 DEF V6State
    <2>5. /\ start.ok = ok /\ start.tmp = tmp /\ start.colonp = -1 /\ start.xdigits = 0 /\ start.val = 0
          /\ start.curtok = curtok /\ start.done = FALSE
      BY ONLY <2>2
    <2> QED BY <2>3, <2>4, <2>5 DEF tmp, curtok
  <1>6. n > 0 /\ s[1] = Colon => begin = 1
    BY DEF V6Begin
  <1>7. ~(n > 0 /\ s[1] = Colon) => begin = 0
    BY DEF V6Begin
  <1> HIDE DEF n, parts, begin, start, step, m, t
  <1>8. \A k \in 1 .. size : parts[k] \in Seq(Nat) /\ Len(parts[k]) \in Nat
    <2> SUFFICES ASSUME NEW k \in 1 .. size PROVE parts[k] \in Seq(Nat) /\ Len(parts[k]) \in Nat
      OBVIOUS
    <2>1. parts[k] \in Seq(Nat)
      BY <1>2, Elements
    <2> QED BY <2>1
  <1>9. size \in Nat /\ 1 \in 1 .. size
    BY <1>2
  <1>10. Uptos(parts)[0] = <<>> /\ Len(<<>>) = 0 /\ In6Size \in Nat
    BY <1>9, UptosDef, AddressesAssumption
  <1>11. Empties(parts, 0) = {}
    BY DEF Empties
  <1>12. CASE n = 0
    <2>1. begin = 0 /\ 0 \in begin .. n
      BY <1>7, <1>12
    <2>2. size = 1 /\ Len(parts[1]) = 0
      BY <1>2, <1>12
    <2>3. parts[1] = <<>>
      BY <1>8, <1>9, <2>2
    <2>4. V6Of(parts) = Failed
      BY <1>2, <1>9, <2>2, <2>3, V6Trailing
    <2>5. V6Lost(parts, step[0])
      BY <1>3, <1>5, <1>12, <2>1, <2>4 DEF V6Lost
    <2>6. V6Inv(s, 0, step[0])
      BY <1>4, <2>5
    <2> QED BY <2>1, <2>6 DEF begin, n, step
  <1>13. CASE n > 0 /\ s[1] # Colon
    <2>1. begin = 0 /\ 0 \in begin .. n /\ start.ok
      BY <1>1, <1>5, <1>7, <1>13
    <2>2. Values(parts[1], 16)[0] = 0
      <3>1. Len(parts[1]) \in Nat
        BY <1>8, <1>9
      <3> QED BY ONLY <3>1, ValuesDef
    <2>3. V6Fields(start, Uptos(parts)[1 - 1], start.colonp, 0, Values(parts[1], 16)[0], 0 + 1 - 0, FALSE)
      BY <1>5, <1>10, <2>1, <2>2 DEF V6Fields
    <2>4. Opened(parts, 1, start.colonp)
      BY <1>5, <1>11 DEF Opened
    <2>5. V6Read(parts, 1 - 1)
      BY DEF V6Read
    <2>6. 0 < Len(s) /\ s[0 + 1] # Colon
      BY <1>13 DEF n
    <2>7. Len(start.tmp) <= In6Size /\ 0 <= 4 /\ \A k \in 1 .. 0 : FALSE
      BY <1>5, <1>10
    <2>8. V6Going(s, parts, 0, 1, 0, start)
      BY <2>3, <2>4, <2>5, <2>6, <2>7 DEF V6Going
    <2>9. V6Inv(s, 0, step[0])
      BY <1>2, <1>3, <1>4, <2>1, <2>8
    <2> QED BY <2>1, <2>9 DEF begin, n, step
  <1>14. CASE n > 0 /\ s[1] = Colon /\ ~(n > 1 /\ s[2] = Colon)
    <2>1. begin = 1 /\ 1 \in begin .. n /\ ~start.ok
      BY <1>1, <1>5, <1>6, <1>14
    <2>2. m(0 + 1) = m(0) + 1 /\ t(0) = Len(parts[m(0)])
      <3>1. 0 \in 0 .. n - 1 /\ s[0 + 1] = Colon
        BY <1>1, <1>14
      <3> QED BY <1>2, <3>1
    <2>3. m(1) = 2 /\ parts[1] = <<>>
      <3>1. Len(parts[1]) = 0
        BY <1>2, <2>2
      <3> QED BY <1>2, <1>8, <1>9, <2>2, <3>1
    <2>4. size <= 2 \/ parts[2] # <<>>
      <3>1. CASE n = 1
        BY <1>2, <2>3, <3>1
      <3>2. CASE n > 1 /\ s[2] # Colon
        <4>1. 1 \in 0 .. n - 1 /\ 1 \in 0 .. n /\ 1 + 1 \in 0 .. n /\ s[1 + 1] # Colon
          BY <1>1, <3>2
        <4>2. m(1 + 1) = m(1) /\ t(1 + 1) = t(1) + 1
          BY <1>2, <4>1
        <4>3. 2 \in 1 .. size /\ t(1) \in 0 .. Len(parts[2]) /\ t(1) + 1 \in 0 .. Len(parts[2])
          <5>1. m(1) \in 1 .. size /\ t(1) \in 0 .. Len(parts[m(1)])
            BY <1>2, <4>1
          <5>2. t(1 + 1) \in 0 .. Len(parts[m(1 + 1)])
            BY <1>2, <4>1
          <5> QED BY <2>3, <4>2, <5>1, <5>2
        <4> DEFINE l == Len(parts[2])
        <4>4. l \in Nat /\ t(1) \in 0 .. l /\ t(1) + 1 \in 0 .. l
          BY <1>8, <4>3
        <4> HIDE DEF l
        <4>5. l # 0
          BY ONLY <4>4
        <4> QED BY <1>10, <4>5 DEF l
      <3> QED BY <1>1, <1>14, <3>1, <3>2
    <2>5. V6Of(parts) = Failed
      BY <1>2, <1>9, <2>3, <2>4, V6Leading
    <2>6. V6Lost(parts, step[1])
      BY <1>3, <1>5, <2>1, <2>5 DEF V6Lost
    <2>7. V6Inv(s, 1, step[1])
      BY <1>4, <2>6
    <2> QED BY <2>1, <2>7 DEF begin, n, step
  <1>15. CASE n > 1 /\ s[1] = Colon /\ s[2] = Colon
    <2>1. begin = 1 /\ 2 \in begin .. n /\ 2 \in begin + 1 .. n /\ 2 - 1 = 1 /\ start.ok
      BY <1>1, <1>5, <1>6, <1>15
    <2> DEFINE q == step[2]
               p == start
    <2>2. q = V6Next(s, 2, p)
      <3>1. step[2] = V6Next(s, 2, step[2 - 1])
        BY <1>3, <2>1
      <3> QED BY <1>3, <2>1, <3>1
    <2>3. m(1) = 2 /\ m(2) = 3 /\ t(2) = 0 /\ Len(parts[1]) = 0 /\ Len(parts[2]) = 0 /\ size >= 3
      <3>1. 0 \in 0 .. n - 1 /\ s[0 + 1] = Colon /\ 1 \in 0 .. n - 1 /\ s[1 + 1] = Colon
            /\ 0 + 1 = 1 /\ 1 + 1 = 2 /\ 2 \in 0 .. n
        BY <1>1, <1>15
      <3>2. m(0 + 1) = m(0) + 1 /\ t(0 + 1) = 0 /\ t(0) = Len(parts[m(0)])
        BY <1>2, <3>1
      <3>3. m(1 + 1) = m(1) + 1 /\ t(1 + 1) = 0 /\ t(1) = Len(parts[m(1)])
        BY <1>2, <3>1
      <3>4. m(1) = 2 /\ m(2) = 3 /\ t(1) = 0 /\ t(2) = 0
        BY <1>2, <3>1, <3>2, <3>3
      <3>5. m(2) \in 1 .. size
        BY <1>2, <3>1
      <3>6. size >= 3
        BY <1>9, <3>4, <3>5
      <3> QED BY <1>2, <3>2, <3>3, <3>4, <3>6
    <2>4. 1 \in 1 .. size /\ 2 \in 1 .. size /\ 3 \in 1 .. size
      BY <1>9, <2>3
    <2>5. parts[1] = <<>> /\ parts[2] = <<>>
      BY <1>8, <2>3, <2>4
    <2>6. V6Fields(q, <<>>, 0, 0, 0, 2 + 1, FALSE)
      <3>1. /\ p.ok /\ p.done = FALSE /\ p.xdigits = 0 /\ p.colonp = -1 /\ p.tmp = <<>> /\ p.val = 0
            /\ p \in V6State
        BY <1>5, <2>1
      <3> HIDE DEF p, q
      <3>2. q = [p EXCEPT !.curtok = 2 + 1, !.colonp = Len(p.tmp)]
        <4>1. s[2] = Colon /\ Colon = 17
          BY <1>15 DEF Colon
        <4>2. hex_digit_value(s[2]) = -1
          BY <4>1 DEF hex_digit_value
        <4> QED BY <2>2, <3>1, <4>1, <4>2 DEF V6Next
      <3> DEFINE a == Len(p.tmp)
                 b == 2 + 1
      <3>3. a = 0 /\ a \in Int /\ b \in Nat
        BY <1>10, <3>1
      <3>4. q = [p EXCEPT !.curtok = b, !.colonp = a]
        BY <3>2
      <3> HIDE DEF a, b
      <3>5. V6Fields(q, p.tmp, a, p.xdigits, p.val, b, FALSE)
        BY ONLY <3>1, <3>3, <3>4 DEF V6State, V6Fields
      <3> QED BY ONLY <3>1, <3>3, <3>5 DEF b
    <2> HIDE DEF q, p
    <2>7. Uptos(parts)[1] = <<>> /\ Uptos(parts)[2] = <<>>
      <3>1. Uptos(parts)[1] = Uptos(parts)[1 - 1] /\ Uptos(parts)[2] = Uptos(parts)[2 - 1]
        BY <1>2, <2>4, <2>5, UptosEmpty
      <3> QED BY <1>10, <3>1
    <2>8. Empties(parts, 3 - 1) = {1, 2}
      BY <2>5 DEF Empties
    <2>9. q.colonp = 0 /\ q.tmp = <<>>
      BY <2>6 DEF V6Fields
    <2>10. Opened(parts, 3, q.colonp)
      <3>1. 2 \in 2 .. 3 - 1
        OBVIOUS
      <3>2. parts[2] = <<>> /\ q.colonp = Len(Uptos(parts)[2])
        BY <1>10, <2>5, <2>7, <2>9
      <3> QED BY <2>8, <3>1, <3>2 DEF Opened
    <2>11. V6Read(parts, 3 - 1)
      <3>1. \A j \in 1 .. 3 - 1 : j = 1 \/ j = 2
        OBVIOUS
      <3> QED BY <2>5, <3>1 DEF V6Read
    <2>12. Values(parts[3], 16)[0] = 0
      <3>1. Len(parts[3]) \in Nat
        BY <1>8, <2>4
      <3> QED BY ONLY <3>1, ValuesDef
    <2>13. V6Fields(q, Uptos(parts)[3 - 1], q.colonp, 0, Values(parts[3], 16)[0], 2 + 1 - 0, FALSE)
      <3>1. 3 - 1 = 2 /\ 2 + 1 - 0 = 2 + 1
        OBVIOUS
      <3> QED BY <2>6, <2>7, <2>9, <2>12, <3>1
    <2>14. Len(q.tmp) <= In6Size /\ 0 <= 4 /\ \A k \in 1 .. 0 : FALSE
      BY <1>10, <2>9
    <2>15. 3 # 1 /\ parts[3 - 1] = <<>>
      BY <2>5
    <2>16. V6Going(s, parts, 2, 3, 0, q)
      BY <2>10, <2>11, <2>13, <2>14, <2>15 DEF V6Going
    <2>17. V6Inv(s, 2, q)
      BY <1>4, <2>3, <2>16
    <2> QED BY <2>1, <2>17 DEF begin, n, step, q
  <1> QED BY <1>1, <1>12, <1>13, <1>14, <1>15

(* At the end of the text.                                                 *)
LEMMA V6AtEnd ==
    ASSUME NEW s \in Seq(Nat), NEW p, V6Inv(s, Len(s), p)
    PROVE  V6Result(p) = V6Of(Split(s, Colon))
  <1> DEFINE parts == Split(s, Colon)
             n == Len(parts)
             u == Uptos(parts)
             tmp == u[n]
             End == IF /\ Len(tmp) <= In6Size
                       /\ IF p.colonp < 0 THEN Len(tmp) = In6Size ELSE Len(tmp) < In6Size
                    THEN Expand(tmp, p.colonp) ELSE Failed
             t == Len(parts[n])
  <1>1. /\ parts \in Seq(Seq(Nat)) /\ n >= 1
        /\ Part(s, Colon, Len(s)) = n /\ Depth(s, Colon, Len(s)) = t
    BY Walk
  <1>2. V6Going(s, parts, Len(s), n, t, p) \/ V6Done(parts, p) \/ V6Lost(parts, p)
    BY <1>1 DEF V6Inv
  <1> HIDE DEF parts
  <1>3. n \in Nat /\ n \in 1 .. n /\ \A j \in 1 .. n : j \in 1 .. n - 1 \/ j = n
    BY <1>1
  <1>4. parts[n] \in Seq(Nat) /\ t \in Nat
    <2>1. parts[n] \in Seq(Nat)
      BY <1>1, <1>3, Elements
    <2> QED BY <2>1
  <1>5. CASE V6Lost(parts, p)
    BY <1>5 DEF V6Lost, V6Result, parts
  <1>6. CASE V6Done(parts, p)
    <2>1. /\ p.ok /\ p.tmp = tmp /\ p.xdigits = 0 /\ V6Read(parts, n - 1) /\ IsLastQuad(parts, n)
          /\ Opened(parts, n, p.colonp)
      BY <1>6 DEF V6Done, V6Fields
    <2>2. parts[n] # <<>>
      <3>1. \E k \in 1 .. Len(parts[n]) : k <= 5 /\ parts[n][k] = Dot
        BY <1>4, <2>1, QuadHasDot DEF LastQuad, IsLastQuad
      <3>2. Len(<<>>) = 0 /\ 1 .. 0 = {}
        OBVIOUS
      <3> QED BY <3>1, <3>2
    <2>3. \A j \in 1 .. n : parts[j] = <<>> \/ IsLastQuad(parts, j) \/ Group(parts[j])
      BY <1>3, <2>1 DEF V6Read
    <2>4. V6Of(parts) = End
      <3> HIDE DEF n, u
      <3> DEFINE x == u[n]
      <3>1. x = Uptos(parts)[n] /\ n = Len(parts)
        BY DEF u, n
      <3> HIDE DEF x
      <3>2. V6Of(parts) = IF /\ Len(x) <= In6Size
                             /\ IF p.colonp < 0 THEN Len(x) = In6Size ELSE Len(x) < In6Size
                          THEN Expand(x, p.colonp) ELSE Failed
        BY ONLY <1>1, <1>3, <2>1, <2>2, <2>3, <3>1, V6Ends DEF n
      <3> QED BY <3>2 DEF x
    <2>5. V6Result(p) = End
      <3> HIDE DEF n, u
      <3> QED BY <2>1 DEF V6Result
    <2> HIDE DEF End
    <2> QED BY <2>4, <2>5 DEF parts
  <1>7. CASE V6Going(s, parts, Len(s), n, t, p)
    <2>1. /\ p.ok /\ p.tmp = u[n - 1] /\ p.xdigits = t /\ V6Read(parts, n - 1)
          /\ p.val = Values(parts[n], 16)[t]
          /\ Opened(parts, n, p.colonp)
          /\ t <= 4 /\ \A k \in 1 .. t : parts[n][k] \in 0 .. 15
      BY <1>7 DEF V6Going, V6Fields
    <2>2. t = 0 => n > 1 /\ parts[n - 1] = <<>>
      <3>1. ~(Len(s) < Len(s)) /\ Len(s) \in Nat
        OBVIOUS
      <3>2. t = 0 => n # 1 /\ parts[n - 1] = <<>>
        BY <1>7, <3>1 DEF V6Going
      <3> HIDE DEF n, t
      <3> QED BY <1>1, <1>3, <3>2
    <2>3. parts[n] = <<>> <=> t = 0
      BY <1>4
    <2>4. parts[n] = <<>> \/ Group(parts[n])
      <3> HIDE DEF n, t
      <3>1. t # 0 => t \in 1 .. 4
        BY <1>4, <2>1
      <3> QED BY <2>1, <2>3, <3>1 DEF Group, Numbers, t
    <2>5. \A j \in 1 .. n : parts[j] = <<>> \/ IsLastQuad(parts, j) \/ Group(parts[j])
      BY <1>3, <2>1, <2>4 DEF V6Read
    <2>6. V6Of(parts) = End
      <3>3. parts[n] = <<>> => n > 1 /\ parts[n - 1] = <<>>
        BY <2>2, <2>3
      <3> HIDE DEF n, u
      <3> DEFINE x == u[n]
      <3>1. x = Uptos(parts)[n] /\ n = Len(parts)
        BY DEF u, n
      <3> HIDE DEF x
      <3>2. V6Of(parts) = IF /\ Len(x) <= In6Size
                             /\ IF p.colonp < 0 THEN Len(x) = In6Size ELSE Len(x) < In6Size
                          THEN Expand(x, p.colonp) ELSE Failed
        BY ONLY <1>1, <1>3, <2>1, <2>5, <3>1, <3>3, V6Ends DEF n
      <3> QED BY <3>2 DEF x
    <2> DEFINE end == IF p.xdigits = 0 THEN p.tmp ELSE p.tmp \o <<p.val \div 256, p.val % 256>>
    <2>7. end = tmp
      <3>1. CASE t = 0
        <4>1. u[n] = u[n - 1]
          BY <1>1, <1>3, <2>3, <3>1, UptosEmpty
        <4> QED BY <2>1, <3>1, <4>1
      <3>2. CASE t # 0
        <4> DEFINE v == p.val
        <4>1. Group(parts[n]) /\ v = Values(parts[n], 16)[Len(parts[n])]
          BY <2>1, <2>3, <2>4, <3>2
        <4> HIDE DEF v
        <4>2. WithGroup(u[n], u[n - 1], v)
          BY <1>1, <1>3, <4>1, UptosGroup
        <4>3. u[n] = u[n - 1] \o <<v \div 256, v % 256>>
          BY ONLY <4>2 DEF WithGroup
        <4> HIDE DEF u, n, t
        <4> QED BY <2>1, <3>2, <4>3 DEF v
      <3> QED BY <3>1, <3>2
    <2>8. V6Result(p) = IF /\ p.ok /\ Len(end) <= In6Size
                           /\ IF p.colonp < 0 THEN Len(end) = In6Size ELSE Len(end) < In6Size
                        THEN Expand(end, p.colonp) ELSE Failed
      BY DEF V6Result
    <2> HIDE DEF end, tmp
    <2>9. V6Result(p) = End
      BY <2>1, <2>7, <2>8
    <2> HIDE DEF End
    <2> QED BY <2>6, <2>9 DEF parts
  <1> QED BY <1>2, <1>5, <1>6, <1>7

(* What inet_pton6 takes.                                                  *)
LEMMA V6Is ==
    ASSUME NEW s \in Seq(Nat)
    PROVE  inet_pton6(s) = V6(s, 4)
  <1> DEFINE n == Len(s)
             step == V6Steps(s)
  <1>1. n \in Nat
    OBVIOUS
  <1>2. PICK b \in V6Begin(s) .. n : V6Inv(s, b, step[b])
    BY V6Begins
  <1>3. /\ inet_pton6(s) = V6Result(step[n]) /\ V6Begin(s) \in 0 .. n
        /\ \A i \in V6Begin(s) + 1 .. n : step[i] = V6Next(s, i, step[i - 1])
    BY <1>1, V6StepsDef
  <1> DEFINE S == {k \in Nat : b + k <= n => V6Inv(s, b + k, step[b + k])}
  <1> HIDE DEF n, step
  <1>4. b \in Nat /\ b <= n /\ b >= V6Begin(s) /\ V6Begin(s) \in Nat
    BY <1>1, <1>3
  <1>5. 0 \in S
    <2>1. b + 0 = b
      BY <1>4
    <2> QED BY <1>2, <2>1
  <1>6. ASSUME NEW k \in Nat, k \in S PROVE k + 1 \in S
    <2> SUFFICES ASSUME b + (k + 1) <= n PROVE V6Inv(s, b + (k + 1), step[b + (k + 1)])
      OBVIOUS
    <2> DEFINE i == b + k
    <2>1. /\ i \in 0 .. n - 1 /\ b + (k + 1) = i + 1 /\ i <= n /\ i + 1 \in V6Begin(s) + 1 .. n
          /\ (i + 1) - 1 = i
      BY <1>1, <1>4
    <2>2. V6Inv(s, i, step[i])
      BY <1>6, <2>1
    <2> HIDE DEF i
    <2>3. step[i + 1] = V6Next(s, i + 1, step[i])
      BY <1>3, <2>1
    <2>4. i \in 0 .. Len(s) - 1
      BY <2>1 DEF n
    <2>5. V6Inv(s, i + 1, step[i + 1])
      BY <2>2, <2>3, <2>4, V6GoesOn
    <2> QED BY <2>1, <2>5
  <1> HIDE DEF S
  <1>7. n - b \in S
    <2>1. n - b \in Nat
      BY <1>1, <1>4
    <2> QED BY <1>5, <1>6, <2>1, Induction
  <1>8. V6Inv(s, n, step[n])
    <2>1. b + (n - b) = n
      BY <1>1, <1>4
    <2>2. b + (n - b) <= n => V6Inv(s, b + (n - b), step[b + (n - b)])
      BY <1>7 DEF S
    <2> QED BY <1>1, <2>1, <2>2
  <1>9. V6Result(step[n]) = V6Of(Split(s, Colon))
    BY <1>8, V6AtEnd DEF n
  <1> QED BY <1>3, <1>9, V6Def

(* Without a colon, V6 takes nothing that inet_pton4 does not take: a text *)
(* of one part is a quad or two bytes.                                     *)
LEMMA V6HasColon ==
    ASSUME NEW s \in Seq(Nat), inet_pton4(s) = Failed, inet_pton6(s) # Failed
    PROVE  \E i \in 1 .. Len(s) : s[i] = Colon
  <1> SUFFICES ASSUME \A i \in 1 .. Len(s) : s[i] # Colon
               PROVE  FALSE
    OBVIOUS
  <1> DEFINE n == Len(s)
             parts == Split(s, Colon)
             u == Uptos(parts)
             E == Empties(parts, 1)
  <1>1. n \in Nat /\ 0 \in 0 .. n /\ n \in 0 .. n /\ 0 <= n /\ ~\E k \in 0 + 1 .. n : s[k] = Colon
    OBVIOUS
  <1>2. /\ parts \in Seq(Seq(Nat)) /\ Part(s, Colon, 0) = 1 /\ Depth(s, Colon, 0) = 0
        /\ Part(s, Colon, n) = Len(parts)
    BY Walk
  <1>3. Part(s, Colon, n) = Part(s, Colon, 0)
    BY <1>1, Stays
  <1>4. Len(parts) = 1
    BY <1>2, <1>3
  <1>5. SubSeq(s, 0 + 1 - 0, n) = parts[1]
    <2>1. Part(s, Colon, 0) = Len(parts)
      BY <1>2, <1>4
    <2>2. SubSeq(s, 0 + 1 - Depth(s, Colon, 0), n) = parts[Len(parts)]
      BY <1>1, <2>1, LastPart
    <2> HIDE DEF parts
    <2> QED BY <1>2, <1>4, <2>2
  <1>6. parts[1] = s
    BY <1>5
  <1>7. V6Of(parts) # Failed
    BY V6Is, V6Def
  <1>8. ~IsLastQuad(parts, 1)
    BY <1>6, QuadIs DEF LastQuad, IsLastQuad
  <1>9. parts[1] # <<>>
    <2> HIDE DEF parts
    <2>1. ASSUME parts[1] = <<>> PROVE FALSE
      <3>1. parts \in Seq(Seq(Nat)) /\ 1 \in Nat /\ 1 = Len(parts) /\ 1 >= 1
        BY ONLY <1>2, <1>4
      <3>2. V6Of(parts) = Failed
        BY ONLY <2>1, <3>1, V6Trailing
      <3> QED BY <1>7, <3>2
    <2> QED BY <2>1
  <1>10. Group(parts[1])
    BY <1>4, <1>7, <1>8, <1>9, V6BadPart
  <1> HIDE DEF parts
  <1>11. E = {} /\ \A j \in 1 .. 1 : IsLastQuad(parts, j) \/ Group(parts[j])
    <2>1. \A j \in 1 .. 1 : j = 1
      OBVIOUS
    <2> QED BY <1>9, <1>10, <2>1 DEF Empties
  <1>12. u[1] \in Seq(Nat) /\ Len(u[1]) = 2
    <2>1. 1 \in 1 .. Len(parts) /\ 0 \in 0 .. Len(parts) /\ 1 \in 0 .. Len(parts) /\ 1 - 1 = 0
      BY <1>4
    <2>2. WithGroup(u[1], u[1 - 1], Values(parts[1], 16)[Len(parts[1])])
      BY <1>2, <1>10, <2>1, UptosGroup
    <2>5. u[0] = <<>>
      BY <1>4, UptosDef
    <2>6. u[1] \in Seq(Nat)
      BY <1>2, <2>1, UptosFacts
    <2>3. u[0] = <<>> /\ u[1] \in Seq(Nat)
      BY <2>5, <2>6
    <2>4. Len(u[1]) = Len(u[0]) + 2
      BY <2>1, <2>2 DEF WithGroup
    <2> QED BY <2>3, <2>4
  <1>13. Len(u[1]) = In6Size
    <2> DEFINE tmp == u[1]
    <2>1. tmp \in Seq(Nat) /\ tmp = Uptos(parts)[1]
      BY <1>12
    <2> HIDE DEF tmp
    <2>2. V6Of(parts) = IF Len(tmp) = In6Size THEN tmp ELSE Failed
      BY <1>4, <1>11, <2>1, V6NoColons
    <2> QED BY <1>7, <2>2 DEF tmp
  <1>14. In6Size >= 4
    BY AddressesAssumption
  <1>15. In6Size = 2
    BY ONLY <1>12, <1>13
  <1> QED BY ONLY <1>14, <1>15

-----------------------------------------------------------------------------
(* A text is made of characters.                                           *)
TextType == text \in Text /\ alphabet \in Alphabets

THEOREM TextTyped == Spec => []TextType
  <1>1. Init => TextType
    BY DEF Init, TextType, Text
  <1>2. TextType /\ [Extend]_vars => TextType'
    <2> SUFFICES ASSUME TextType, Extend PROVE TextType'
      BY DEF TextType, vars
    <2>1. PICK t \in alphabet : text' = text \o t
      BY DEF Extend
    <2>2. t \in Text /\ text \in Text
      BY AddressesAssumption DEF TextType, Text
    <2>3. text \o t \in Text
      BY <2>2, ConcatProperties DEF Text
    <2> QED BY <2>1, <2>3 DEF TextType, Extend
  <1> QED BY <1>1, <1>2, PTL DEF Spec

(* QuadParsed: inet_pton4 takes exactly the dotted quads, with their value,*)
(* when no octet has more than three digits; the twelve digits of a        *)
(* telephone number are read as the dotted quad.                           *)
THEOREM QuadsAreParsed == Spec => []QuadParsed
  <1>1. ASSUME TextType PROVE QuadParsed
    <2> DEFINE octets == Split(text, Dot)
    <2>1. text \in Seq(Nat)
      BY <1>1, TextSeq DEF TextType
    <2>2. inet_pton4(text) = Quad(text, 4)
      BY <2>1, QuadIs
    <2>3. octets \in Seq(Seq(Nat))
      BY <2>1, QuadLoop DEF QuadInv
    <2>4. ASSUME ShortOctets(text) PROVE inet_pton4(text) = Quad(text, 3)
      BY <2>1, <2>2, <2>4, QuadThree
    <2>5. ASSUME Len(octets) = 4, \A k \in 1 .. 4 : Len(octets[k]) = 3
          PROVE  mobile_parse_phoneaddr(octets[1] \o octets[2] \o octets[3] \o octets[4])
                     = inet_pton4(text)
      BY <2>1, <2>2, <2>3, <2>5, PhoneIsQuad
    <2> QED BY <2>4, <2>5 DEF QuadParsed
  <1> QED BY <1>1, TextTyped, PTL

(* V6Parsed: inet_pton6 takes exactly the IPv6 addresses, with their bytes,*)
(* wherever the two colons and the dotted quad are, when the quad has no   *)
(* octet of more than three digits.                                        *)
THEOREM AddressesAreParsed == Spec => []V6Parsed
  <1>1. ASSUME TextType PROVE V6Parsed
    <2> DEFINE parts == Split(text, Colon)
               last == parts[Len(parts)]
    <2>1. text \in Seq(Nat)
      BY <1>1, TextSeq DEF TextType
    <2>2. inet_pton6(text) = V6(text, 4)
      BY <2>1, V6Is
    <2>3. last \in Seq(Nat)
      <3>1. parts \in Seq(Seq(Nat)) /\ Len(parts) >= 1
        BY <2>1, Walk
      <3> HIDE DEF parts
      <3> QED BY <3>1
    <2>4. ASSUME ShortOctets(last) PROVE V6(text, 4) = V6(text, 3)
      <3>1. Quad(last, 4) = Quad(last, 3)
        BY <2>3, <2>4, QuadThree
      <3> QED BY <3>1 DEF V6
    <2> QED BY <2>2, <2>4 DEF V6Parsed
  <1> QED BY <1>1, TextTyped, PTL

(* AddressIsNoName: commands.c looks a text up as a name only if it is no  *)
(* address, and no text is an address of both families.                    *)
THEOREM AddressesAreNoNames == Spec => []AddressIsNoName
  <1>1. ASSUME TextType PROVE AddressIsNoName
    <2>1. text \in Text
      BY <1>1 DEF TextType
    <2>2. CASE inet_pton4(text) # Failed
      <3>1. \A i \in 1 .. Len(text) : text[i] \in Digit \cup {Dot}
        BY <2>1, <2>2, TextSeq, QuadCharacters
      <3>2. Colon \notin {text[i] : i \in 1 .. Len(text)}
        BY <3>1 DEF Colon, Dot, Digit
      <3>3. mobile_inet_pton_length(text)[1] = 4
        BY <2>2 DEF mobile_inet_pton_length
      <3> QED BY <3>1, <3>2, <3>3 DEF AddressIsNoName, mobile_is_ipaddr
    <2>3. CASE inet_pton4(text) = Failed /\ inet_pton6(text) # Failed
      <3>1. \E i \in 1 .. Len(text) : text[i] = Colon
        BY <2>1, <2>3, TextSeq, V6HasColon
      <3>2. mobile_inet_pton_length(text)[1] = 6
        BY <2>3 DEF mobile_inet_pton_length
      <3> QED BY <3>1, <3>2 DEF AddressIsNoName, mobile_is_ipaddr
    <2>4. CASE inet_pton4(text) = Failed /\ inet_pton6(text) = Failed
      <3>1. mobile_inet_pton_length(text)[1] = -1
        BY <2>4 DEF mobile_inet_pton_length
      <3> QED BY <3>1 DEF AddressIsNoName
    <2> QED BY <2>2, <2>3, <2>4
  <1> QED BY <1>1, TextTyped, PTL

=============================================================================
