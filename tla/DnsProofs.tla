------------------------------ MODULE DnsProofs ------------------------------
(***************************************************************************)
(* QuerySent, AnswerSound and, for servers that put addresses first,       *)
(* AnswerFound: for names of any length, any length of labels, any size of *)
(* packets and any records.                                                *)
(***************************************************************************)
EXTENDS Dns, SumProofs

Name == Seq(0 .. 255)

LEMMA NameIs ==
    ASSUME NEW name \in Name
    PROVE  Len(name) \in Nat /\ \A i \in 1 .. Len(name) : name[i] \in Nat
  <1> DEFINE byte == 0 .. 255
  <1>1. \A n : n \in byte <=> n \in Nat /\ n <= 255
    BY WideInterval
  <1>2. name \in Seq(byte)
    BY DEF Name
  <1> HIDE DEF byte
  <1>3. Len(name) \in Nat /\ \A i \in 1 .. Len(name) : name[i] \in byte
    BY <1>2
  <1> QED BY <1>1, <1>3

LEMMA NameSeq ==
    ASSUME NEW name \in Name
    PROVE  name \in Seq(Nat)
  <1> DEFINE byte == 0 .. 255
  <1>1. \A i \in 1 .. Len(name) : name[i] \in Nat
    BY NameIs
  <1>2. name \in Seq(byte)
    BY DEF Name
  <1> HIDE DEF byte
  <1> QED BY <1>1, <1>2

(* Where the length of a label goes: at the beginning, or in place of the  *)
(* dot before it.                                                          *)
Begins(name, j) == j = 0 \/ name[j] = Dot

(* No character of name from one position to another one is a dot.         *)
NoDot(name, from, to) == \A k \in from .. to : name[k] # Dot

-----------------------------------------------------------------------------
(* dns_make_name.                                                          *)

Packer == [ok : BOOLEAN, data : Seq(Nat), plen : Nat, count : Nat]

(* After i characters: the labels that are complete have their lengths,    *)
(* and the current one began count characters ago.                         *)
Labels(name, i, s) ==
    \A j \in 0 .. i - s.count - 1 :
        Begins(name, j) =>
            LET len == s.data[j + 1]
            IN  /\ len \in 0 .. MaxLabel
                /\ j + len < i - s.count
                /\ name[j + len + 1] = Dot
                /\ NoDot(name, j + 1, j + len)

Current(name, i, s) ==
    /\ s.count \in 0 .. MaxLabel
    /\ s.count <= i
    /\ s.plen = i - s.count + 1
    /\ Begins(name, i - s.count)
    /\ NoDot(name, i - s.count + 1, i)

Characters(name, i, s) ==
    \A j \in 1 .. i : name[j] # Dot => s.data[j + 1] = name[j]

FitsUpTo(name, i) ==
    \A a, b \in 0 .. i :
        a + MaxLabel < b => \E k \in a + 1 .. b : name[k] = Dot

Packed(o, name, i, s) ==
    /\ Len(s.data) = i + 1
    /\ o + i + 1 <= PacketSize
    /\ Current(name, i, s)
    /\ Characters(name, i, s)
    /\ Labels(name, i, s)
    /\ FitsUpTo(name, i)

GaveUp(o, name, s) ==
    /\ o + Len(s.data) <= PacketSize
    /\ ~LabelsFit(name) \/ o + Len(name) + 2 > PacketSize

PackInv(o, name, i, s) ==
    /\ s \in Packer
    /\ s.ok => Packed(o, name, i, s)
    /\ ~s.ok => GaveUp(o, name, s)

PackerFull(o, s) == o + Len(s.data) + 1 > PacketSize

PackerDot(s) ==
    [ok |-> TRUE, plen |-> Len(s.data) + 1, count |-> 0,
     data |-> Append([s.data EXCEPT ![s.plen] = s.count], 0)]

PackerChar(s, c) == [s EXCEPT !.data = Append(@, c), !.count = @ + 1]

PackerStart == [ok |-> TRUE, data |-> <<0>>, plen |-> 1, count |-> 0]

PackerStep(o, name, i, s) ==
    IF \/ ~s.ok \/ PackerFull(o, s)
       \/ name[i] # Dot /\ s.count >= MaxLabel
    THEN [s EXCEPT !.ok = FALSE]
    ELSE IF name[i] = Dot THEN PackerDot(s) ELSE PackerChar(s, name[i])

(* The steps of the loop in dns_make_name.                                 *)
PackerSteps(o, name) ==
    CHOOSE g : g = [i \in 0 .. Len(name) |->
                       IF i = 0 THEN PackerStart ELSE PackerStep(o, name, i, g[i - 1])]

LEMMA MakeName ==
    ASSUME NEW o, NEW name
    PROVE  dns_make_name(name, o) =
             LET last == PackerSteps(o, name)[Len(name)]
             IN  IF ~last.ok \/ PackerFull(o, last)
                 THEN [ok |-> FALSE, data |-> last.data]
                 ELSE [ok |-> TRUE,
                       data |-> Append([last.data EXCEPT ![last.plen] = last.count], 0)]
  BY DEF dns_make_name, PackerSteps, PackerStep, PackerStart, PackerFull, PackerDot,
         PackerChar

LEMMA PackerStepsDef ==
    ASSUME NEW o, NEW name, Len(name) \in Nat
    PROVE  PackerSteps(o, name) =
             [i \in 0 .. Len(name) |->
                 IF i = 0 THEN PackerStart
                 ELSE PackerStep(o, name, i, PackerSteps(o, name)[i - 1])]
  <1> DEFINE P(k, g) == g = [i \in 0 .. k |->
                                IF i = 0 THEN PackerStart ELSE PackerStep(o, name, i, g[i - 1])]
             S == {k \in Nat : \E g : P(k, g)}
  <1>1. 0 \in S
    <2>1. P(0, [i \in 0 .. 0 |-> PackerStart])
      OBVIOUS
    <2> QED BY <2>1
  <1>2. ASSUME NEW k \in Nat, k \in S PROVE k + 1 \in S
    <2>1. PICK g : P(k, g)
      BY <1>2
    <2> DEFINE h == [i \in 0 .. k + 1 |->
                        IF i = k + 1 THEN PackerStep(o, name, k + 1, g[k]) ELSE g[i]]
    <2>2. P(k + 1, h)
      <3>1. ASSUME NEW i \in 0 .. k + 1
            PROVE  h[i] = IF i = 0 THEN PackerStart ELSE PackerStep(o, name, i, h[i - 1])
        BY <2>1
      <3> HIDE DEF h
      <3> QED BY <3>1 DEF h
    <2>3. \E f : P(k + 1, f)
      <3> HIDE DEF P, h
      <3> QED BY <2>2
    <2> QED BY <2>3
  <1> HIDE DEF S
  <1>3. Len(name) \in S
    BY <1>1, <1>2, Induction
  <1>4. \E g : P(Len(name), g)
    BY <1>3 DEF S
  <1>5. PackerSteps(o, name) = CHOOSE g : P(Len(name), g)
    BY DEF PackerSteps
  <1>6. P(Len(name), PackerSteps(o, name))
    <2> HIDE DEF P
    <2> QED BY <1>4, <1>5
  <1> QED BY <1>6

-----------------------------------------------------------------------------
(* The loop invariant.                                                     *)

LEMMA PackStart ==
    ASSUME NEW o \in Nat, o < PacketSize, NEW name \in Name
    PROVE  PackInv(o, name, 0, PackerStart)
  <1>1. PackerStart \in Packer
    BY DEF PackerStart, Packer
  <1>2. Len(PackerStart.data) = 1 /\ PackerStart.count = 0 /\ PackerStart.plen = 1
        /\ PackerStart.ok
    BY DEF PackerStart
  <1> HIDE DEF PackerStart
  <1>3. Current(name, 0, PackerStart)
    BY <1>2, DnsAssumption DEF Current, Begins, NoDot
  <1>4. Labels(name, 0, PackerStart) /\ Characters(name, 0, PackerStart)
    BY <1>2 DEF Labels, Characters
  <1>5. FitsUpTo(name, 0)
    BY DnsAssumption DEF FitsUpTo
  <1>6. o + 0 + 1 <= PacketSize
    BY DnsAssumption
  <1>7. Packed(o, name, 0, PackerStart)
    BY <1>2, <1>3, <1>4, <1>5, <1>6 DEF Packed
  <1> QED BY <1>1, <1>2, <1>7 DEF PackInv

(* A step that fails: the packet is full, or the label too long.           *)
LEMMA PackFails ==
    ASSUME NEW o \in Nat, NEW name \in Name, NEW i \in 1 .. Len(name), NEW s,
           PackInv(o, name, i - 1, s),
           ~s.ok \/ PackerFull(o, s) \/ (name[i] # Dot /\ s.count >= MaxLabel)
    PROVE  PackInv(o, name, i, [s EXCEPT !.ok = FALSE])
  <1> DEFINE t == [s EXCEPT !.ok = FALSE]
  <1>1. s \in Packer
    BY DEF PackInv
  <1>2. t \in Packer /\ t.ok = FALSE /\ t.data = s.data
    BY <1>1 DEF Packer
  <1> HIDE DEF t
  <1>3. GaveUp(o, name, s)
    <2>1. CASE ~s.ok
      BY <2>1 DEF PackInv
    <2>2. CASE s.ok /\ PackerFull(o, s)
      <3>1. Len(s.data) = i /\ o + i <= PacketSize
        BY <2>2 DEF PackInv, Packed
      <3>2. o + Len(name) + 2 > PacketSize
        BY <2>2, <3>1, DnsAssumption DEF PackerFull, Name
      <3> QED BY <3>1, <3>2 DEF GaveUp
    <2>3. CASE s.ok /\ name[i] # Dot /\ s.count >= MaxLabel
      <3>1. Len(s.data) = i /\ o + i <= PacketSize
        BY <2>3 DEF PackInv, Packed
      <3>2. Current(name, i - 1, s)
        BY <2>3 DEF PackInv, Packed
      <3>3. s.count = MaxLabel /\ MaxLabel \in Nat /\ MaxLabel <= i - 1
            /\ \A k \in i - MaxLabel .. i - 1 : name[k] # Dot
        <4> DEFINE c == s.count
        <4>1. c \in 0 .. MaxLabel /\ c <= i - 1 /\ c >= MaxLabel
              /\ \A k \in (i - 1) - c + 1 .. i - 1 : name[k] # Dot
          BY <2>3, <3>2 DEF Current, NoDot
        <4> HIDE DEF c
        <4>2. MaxLabel \in Nat /\ i \in Nat
          BY DnsAssumption DEF Name
        <4>3. c = MaxLabel /\ (i - 1) - c + 1 = i - MaxLabel
          BY <4>1, <4>2
        <4> QED BY <4>1, <4>2, <4>3 DEF c
      <3>4. \A k \in (i - 1 - MaxLabel) + 1 .. i : name[k] # Dot
        BY <2>3, <3>3
      <3>5. i - 1 - MaxLabel \in 0 .. Len(name) /\ i \in 0 .. Len(name)
            /\ (i - 1 - MaxLabel) + MaxLabel < i
        BY <3>3 DEF Name
      <3>6. ~LabelsFit(name)
        BY <3>4, <3>5 DEF LabelsFit
      <3> QED BY <3>1, <3>6 DEF GaveUp
    <2> QED BY <2>1, <2>2, <2>3
  <1>4. GaveUp(o, name, t)
    BY <1>2, <1>3 DEF GaveUp
  <1>5. PackInv(o, name, i, t)
    BY <1>2, <1>4 DEF PackInv
  <1> QED BY <1>5 DEF t

(* A dot completes the label before it.                                    *)
LEMMA PackDot ==
    ASSUME NEW o \in Nat, NEW name \in Name, NEW i \in 1 .. Len(name), NEW s,
           PackInv(o, name, i - 1, s), s.ok, ~PackerFull(o, s), name[i] = Dot
    PROVE  PackInv(o, name, i, PackerDot(s))
  <1> DEFINE t == PackerDot(s)
             c == s.count
             e == i - 1 - c
  <1>0. Len(name) \in Nat /\ i \in Nat
    BY DEF Name
  <1>1. s \in Packer /\ Packed(o, name, i - 1, s)
    BY DEF PackInv
  <1>2. Len(s.data) = i /\ s.data \in Seq(Nat)
    BY <1>0, <1>1 DEF Packed, Packer
  <1>3. /\ c \in 0 .. MaxLabel /\ c <= i - 1 /\ s.plen = e + 1
        /\ Begins(name, e) /\ NoDot(name, e + 1, i - 1)
    BY <1>1 DEF Packed, Current
  <1>4. MaxLabel \in Nat /\ MaxLabel >= 1
    BY DnsAssumption
  <1>5. c \in Nat /\ e \in 0 .. i - 1
    BY <1>3, <1>4
  <1> HIDE DEF c
  <1> DEFINE d == [s.data EXCEPT ![e + 1] = c]
  <1>6. d \in Seq(Nat) /\ Len(d) = i /\ d[e + 1] = c
        /\ \A k \in 1 .. i : k # e + 1 => d[k] = s.data[k]
    <2> HIDE DEF e
    <2>1. d \in [1 .. i -> Nat]
      BY <1>2, <1>5
    <2>2. d \in Seq(Nat) /\ Len(d) = i
      <3> HIDE DEF d
      <3> QED BY <2>1, <1>2
    <2> QED BY <1>2, <1>5, <2>2
  <1>7. t.ok = TRUE /\ t.plen = i + 1 /\ t.count = 0 /\ t.data = Append(d, 0)
    BY <1>2, <1>3 DEF PackerDot, c
  <1> HIDE DEF d, t
  <1>8. Append(d, 0) \in Seq(Nat) /\ Len(Append(d, 0)) = i + 1
        /\ \A k \in 1 .. i : Append(d, 0)[k] = d[k]
    BY <1>6
  <1>9. t.data \in Seq(Nat) /\ Len(t.data) = i + 1 /\ t.data[e + 1] = c
        /\ \A k \in 1 .. i : k # e + 1 => t.data[k] = s.data[k]
    <2>1. e + 1 \in 1 .. i
      BY <1>0, <1>5
    <2> DEFINE a == Append(d, 0)
    <2>2. t.data = a /\ a \in Seq(Nat) /\ Len(a) = i + 1 /\ \A k \in 1 .. i : a[k] = d[k]
      BY <1>7, <1>8
    <2> HIDE DEF a, e
    <2>3. a[e + 1] = c
      BY <1>6, <2>1, <2>2
    <2>4. \A k \in 1 .. i : k # e + 1 => a[k] = s.data[k]
      BY <1>6, <2>2
    <2> QED BY <2>2, <2>3, <2>4
  <1>10. t \in Packer
    BY <1>7, <1>9 DEF t, PackerDot, Packer
  <1>11. o + i + 1 <= PacketSize
    BY <1>2, DnsAssumption DEF PackerFull
  <1>12. Current(name, i, t)
    BY <1>4, <1>7 DEF Current, Begins, NoDot
  <1>13. Characters(name, i, t)
    <2> SUFFICES ASSUME NEW j \in 1 .. i, name[j] # Dot PROVE t.data[j + 1] = name[j]
      BY DEF Characters
    <2>1. j \in 1 .. i - 1
      OBVIOUS
    <2>2. j # e
      BY <1>3 DEF Begins
    <2>3. s.data[j + 1] = name[j]
      BY <1>1, <2>1 DEF Packed, Characters
    <2> QED BY <1>5, <1>9, <2>1, <2>2, <2>3
  <1>14. Labels(name, i, t)
    <2> SUFFICES ASSUME NEW j \in 0 .. i - 1, Begins(name, j)
                 PROVE  /\ t.data[j + 1] \in 0 .. MaxLabel
                        /\ j + t.data[j + 1] < i
                        /\ name[j + t.data[j + 1] + 1] = Dot
                        /\ NoDot(name, j + 1, j + t.data[j + 1])
      <3>1. i - t.count - 1 = i - 1 /\ i - t.count = i
        BY <1>0, <1>7
      <3> QED BY <3>1 DEF Labels
    <2>1. CASE j = e
      <3>1. t.data[j + 1] = c /\ j + c = i - 1 /\ j + c + 1 = i
        <4>1. e + c = i - 1 /\ (e + c) + 1 = i
          BY <1>0, <1>5
        <4> HIDE DEF e
        <4> QED BY <1>9, <2>1, <4>1
      <3> QED BY <1>3, <2>1, <3>1
    <2>2. CASE j < e
      <3>1. t.data[j + 1] = s.data[j + 1]
        <4>1. j + 1 \in 1 .. i /\ j + 1 # e + 1
          BY <1>0, <1>5, <2>2
        <4> HIDE DEF e
        <4> QED BY <1>9, <4>1
      <3>2. j \in 0 .. (i - 1) - s.count - 1 /\ e = (i - 1) - s.count
        BY <1>5, <2>2 DEF c
      <3>3. /\ s.data[j + 1] \in 0 .. MaxLabel
            /\ j + s.data[j + 1] < e
            /\ name[j + s.data[j + 1] + 1] = Dot
            /\ NoDot(name, j + 1, j + s.data[j + 1])
        BY <1>1, <3>2 DEF Packed, Labels
      <3>4. j + s.data[j + 1] < i
        <4> DEFINE v == s.data[j + 1]
        <4> HIDE DEF v, e
        <4>1. v \in 0 .. MaxLabel /\ j + v < e
          BY <3>3 DEF v
        <4>2. j + v < i
          BY <4>1, <1>4, <1>5
        <4> QED BY <4>2 DEF v
      <3> QED BY <3>1, <3>3, <3>4
    <2>3. CASE j > e
      <3>1. j \in e + 1 .. i - 1
        BY <1>5, <2>3
      <3>2. j # 0 /\ name[j] # Dot
        BY <1>3, <1>5, <3>1 DEF NoDot
      <3> QED BY <3>2 DEF Begins
    <2> QED BY <1>5, <2>1, <2>2, <2>3
  <1>15. FitsUpTo(name, i)
    <2> SUFFICES ASSUME NEW a \in 0 .. i, NEW b \in 0 .. i, a + MaxLabel < b
                 PROVE  \E k \in a + 1 .. b : name[k] = Dot
      BY DEF FitsUpTo
    <2>1. CASE b = i
      BY <1>4, <2>1
    <2>2. CASE b # i
      <3>1. a \in 0 .. i - 1 /\ b \in 0 .. i - 1
        BY <1>4, <2>2
      <3> QED BY <1>1, <3>1 DEF Packed, FitsUpTo
    <2> QED BY <2>1, <2>2
  <1>16. Packed(o, name, i, t)
    BY <1>9, <1>11, <1>12, <1>13, <1>14, <1>15 DEF Packed
  <1>17. PackInv(o, name, i, t)
    BY <1>7, <1>10, <1>16 DEF PackInv
  <1> QED BY <1>17 DEF t

(* Another character makes the current label longer.                       *)
LEMMA PackChar ==
    ASSUME NEW o \in Nat, NEW name \in Name, NEW i \in 1 .. Len(name), NEW s,
           PackInv(o, name, i - 1, s), s.ok, ~PackerFull(o, s), name[i] # Dot,
           ~(s.count >= MaxLabel)
    PROVE  PackInv(o, name, i, PackerChar(s, name[i]))
  <1> DEFINE t == PackerChar(s, name[i])
             c == s.count
             e == i - 1 - c
  <1>1. s \in Packer /\ Packed(o, name, i - 1, s)
    BY DEF PackInv
  <1>0. Len(name) \in Nat /\ i \in Nat /\ name[i] \in Nat
    <2>1. Len(name) \in Nat
      BY NameIs
    <2>2. name[i] \in Nat
      BY NameIs
    <2> QED BY <2>1, <2>2
  <1>2. Len(s.data) = i /\ s.data \in Seq(Nat)
    BY <1>0, <1>1 DEF Packed, Packer
  <1>3. /\ c \in 0 .. MaxLabel /\ c <= i - 1 /\ s.plen = e + 1
        /\ Begins(name, e) /\ NoDot(name, e + 1, i - 1)
    BY <1>1 DEF Packed, Current
  <1>4. MaxLabel \in Nat /\ MaxLabel >= 1
    BY DnsAssumption
  <1>5. c \in Nat /\ e \in 0 .. i - 1 /\ c + 1 <= MaxLabel
    BY <1>3, <1>4
  <1>6. t.ok = TRUE /\ t.plen = e + 1 /\ t.count = c + 1 /\ t.data = Append(s.data, name[i])
        /\ t \in Packer
    <2>1. Append(s.data, name[i]) \in Seq(Nat)
      BY <1>0, <1>2, AppendProperties
    <2> DEFINE more == Append(s.data, name[i])
               next == c + 1
    <2>2. t = [s EXCEPT !.data = more, !.count = next]
      <3>1. [s EXCEPT !.data = Append(@, name[i]), !.count = @ + 1]
                = [s EXCEPT !.data = more, !.count = next]
        BY <1>1 DEF Packer
      <3> HIDE DEF more, next
      <3> QED BY <3>1 DEF PackerChar
    <2>3. next \in Nat /\ more \in Seq(Nat)
      BY <1>5, <2>1
    <2> HIDE DEF t, c, e, more, next
    <2>4. t \in Packer /\ t.ok = s.ok /\ t.plen = s.plen /\ t.count = next /\ t.data = more
      BY <1>1, <2>2, <2>3 DEF Packer
    <2> QED BY <1>3, <2>4 DEF more, next
  <1> HIDE DEF c, t
  <1>7. Len(t.data) = i + 1 /\ t.data[i + 1] = name[i]
        /\ \A k \in 1 .. i : t.data[k] = s.data[k]
    BY <1>2, <1>6
  <1>8. o + i + 1 <= PacketSize
    BY <1>2, DnsAssumption DEF PackerFull
  <1>9. i - t.count = e /\ t.count \in 0 .. MaxLabel /\ t.count <= i
    BY <1>4, <1>5, <1>6
  <1>10. Current(name, i, t)
    <2>1. NoDot(name, e + 1, i)
      BY <1>3, <1>5 DEF NoDot
    <2> HIDE DEF e
    <2> QED BY <1>3, <1>6, <1>9, <2>1 DEF Current
  <1>11. Characters(name, i, t)
    <2> SUFFICES ASSUME NEW j \in 1 .. i, name[j] # Dot PROVE t.data[j + 1] = name[j]
      BY DEF Characters
    <2>1. CASE j = i
      BY <1>7, <2>1
    <2>2. CASE j # i
      <3>1. s.data[j + 1] = name[j] /\ j + 1 \in 1 .. i
        BY <1>1, <2>2 DEF Packed, Characters
      <3> QED BY <1>7, <3>1
    <2> QED BY <2>1, <2>2
  <1>12. Labels(name, i, t)
    <2> SUFFICES ASSUME NEW j \in 0 .. e - 1, Begins(name, j)
                 PROVE  /\ t.data[j + 1] \in 0 .. MaxLabel
                        /\ j + t.data[j + 1] < e
                        /\ name[j + t.data[j + 1] + 1] = Dot
                        /\ NoDot(name, j + 1, j + t.data[j + 1])
      BY <1>9 DEF Labels
    <2>1. t.data[j + 1] = s.data[j + 1]
      BY <1>5, <1>7
    <2>2. j \in 0 .. (i - 1) - s.count - 1 /\ e = (i - 1) - s.count
      BY <1>5 DEF c
    <2>3. /\ s.data[j + 1] \in 0 .. MaxLabel
          /\ j + s.data[j + 1] < e
          /\ name[j + s.data[j + 1] + 1] = Dot
          /\ NoDot(name, j + 1, j + s.data[j + 1])
      BY <1>1, <2>2 DEF Packed, Labels
    <2> QED BY <2>1, <2>3
  <1>13. FitsUpTo(name, i)
    <2> SUFFICES ASSUME NEW a \in 0 .. i, NEW b \in 0 .. i, a + MaxLabel < b
                 PROVE  \E k \in a + 1 .. b : name[k] = Dot
      BY DEF FitsUpTo
    <2>1. CASE b = i
      <3>1. e > a /\ e \in a + 1 .. b
        BY <1>4, <1>5, <2>1
      <3>2. name[e] = Dot
        BY <1>3, <3>1 DEF Begins
      <3> QED BY <3>1, <3>2
    <2>2. CASE b # i
      <3>1. a \in 0 .. i - 1 /\ b \in 0 .. i - 1
        BY <1>4, <2>2
      <3> QED BY <1>1, <3>1 DEF Packed, FitsUpTo
    <2> QED BY <2>1, <2>2
  <1>14. Packed(o, name, i, t)
    BY <1>7, <1>8, <1>10, <1>11, <1>12, <1>13 DEF Packed
  <1>15. PackInv(o, name, i, t)
    BY <1>6, <1>14 DEF PackInv
  <1> QED BY <1>15 DEF t

LEMMA PackSteps ==
    ASSUME NEW o \in Nat, o < PacketSize, NEW name \in Name
    PROVE  PackInv(o, name, Len(name), PackerSteps(o, name)[Len(name)])
  <1> DEFINE S == {k \in Nat : k <= Len(name) => PackInv(o, name, k, PackerSteps(o, name)[k])}
  <1>1. Len(name) \in Nat
    BY DEF Name
  <1>2. \A i \in 0 .. Len(name) :
           PackerSteps(o, name)[i] = IF i = 0 THEN PackerStart
                                  ELSE PackerStep(o, name, i, PackerSteps(o, name)[i - 1])
    BY <1>1, PackerStepsDef
  <1>3. 0 \in S
    BY <1>1, <1>2, PackStart
  <1>4. ASSUME NEW k \in Nat, k \in S PROVE k + 1 \in S
    <2> SUFFICES ASSUME k + 1 <= Len(name)
                 PROVE  PackInv(o, name, k + 1, PackerSteps(o, name)[k + 1])
      OBVIOUS
    <2> DEFINE i == k + 1
               s == PackerSteps(o, name)[k]
    <2>1. PackInv(o, name, i - 1, s)
      BY <1>1, <1>4
    <2>2. PackerSteps(o, name)[i] = PackerStep(o, name, i, s)
      BY <1>1, <1>2
    <2>3. i \in 1 .. Len(name)
      BY <1>1
    <2> HIDE DEF i, s
    <2>4. PackInv(o, name, i, PackerStep(o, name, i, s))
      <3>1. CASE ~s.ok \/ PackerFull(o, s) \/ (name[i] # Dot /\ s.count >= MaxLabel)
        <4>1. PackerStep(o, name, i, s) = [s EXCEPT !.ok = FALSE]
          BY <3>1 DEF PackerStep
        <4> QED BY <2>1, <2>3, <3>1, <4>1, PackFails
      <3>2. CASE s.ok /\ ~PackerFull(o, s) /\ name[i] = Dot
        <4>1. PackerStep(o, name, i, s) = PackerDot(s)
          BY <3>2 DEF PackerStep
        <4> QED BY <2>1, <2>3, <3>2, <4>1, PackDot
      <3>3. CASE s.ok /\ ~PackerFull(o, s) /\ name[i] # Dot /\ ~(s.count >= MaxLabel)
        <4>1. PackerStep(o, name, i, s) = PackerChar(s, name[i])
          BY <3>3 DEF PackerStep
        <4> QED BY <2>1, <2>3, <3>3, <4>1, PackChar
      <3> QED BY <3>1, <3>2, <3>3
    <2> QED BY <2>2, <2>4 DEF i
  <1> HIDE DEF S
  <1>5. Len(name) \in S
    BY <1>1, <1>3, <1>4, Induction
  <1> QED BY <1>1, <1>5 DEF S

-----------------------------------------------------------------------------
(* The bytes of a name in a question.                                      *)

Question(name, b) ==
    /\ b \in Seq(Nat)
    /\ Len(b) = Len(name) + 2
    /\ b[Len(name) + 2] = 0
    /\ \A j \in 1 .. Len(name) : name[j] # Dot => b[j + 1] = name[j]
    /\ \A j \in 0 .. Len(name) :
          Begins(name, j) =>
              /\ b[j + 1] \in 0 .. MaxLabel
              /\ j + b[j + 1] <= Len(name)
              /\ j + b[j + 1] < Len(name) => name[j + b[j + 1] + 1] = Dot
              /\ NoDot(name, j + 1, j + b[j + 1])

LEMMA QuestionPacked ==
    ASSUME NEW o \in Nat, NEW name \in Name, NEW s \in Packer,
           Packed(o, name, Len(name), s)
    PROVE  Question(name, Append([s.data EXCEPT ![s.plen] = s.count], 0))
  <1> DEFINE n == Len(name)
             c == s.count
             e == n - c
             d == [s.data EXCEPT ![e + 1] = c]
             b == Append(d, 0)
  <1>1. n \in Nat
    BY NameIs
  <1>2. Len(s.data) = n + 1 /\ s.data \in Seq(Nat)
    BY DEF Packed, Packer
  <1>3. /\ c \in 0 .. MaxLabel /\ c <= n /\ s.plen = e + 1
        /\ Begins(name, e) /\ NoDot(name, e + 1, n)
    BY DEF Packed, Current
  <1>4. MaxLabel \in Nat /\ MaxLabel >= 1
    BY DnsAssumption
  <1> HIDE DEF c, n
  <1>5. c \in Nat /\ e \in 0 .. n
    BY <1>1, <1>3, <1>4
  <1>6. d \in Seq(Nat) /\ Len(d) = n + 1 /\ d[e + 1] = c
        /\ \A k \in 1 .. n + 1 : k # e + 1 => d[k] = s.data[k]
    <2> HIDE DEF e
    <2>0. s.data \in [1 .. n + 1 -> Nat]
      BY <1>2
    <2>1. d \in [1 .. n + 1 -> Nat]
      BY <1>5, <2>0
    <2>2. d \in Seq(Nat) /\ Len(d) = n + 1
      <3> HIDE DEF d
      <3> QED BY <1>1, <1>2, <2>1
    <2> QED BY <1>2, <1>5, <2>2
  <1> HIDE DEF d
  <1>7. /\ b \in Seq(Nat) /\ Len(b) = n + 2 /\ b[n + 2] = 0
        /\ \A k \in 1 .. n + 1 : b[k] = d[k]
    BY <1>1, <1>6
  <1> HIDE DEF b
  <1>8. b[e + 1] = c /\ \A k \in 1 .. n + 1 : k # e + 1 => b[k] = s.data[k]
    BY <1>1, <1>5, <1>6, <1>7
  <1>9. ASSUME NEW j \in 1 .. n, name[j] # Dot PROVE b[j + 1] = name[j]
    <2>1. j # e
      BY <1>3, <1>9 DEF Begins
    <2>2. s.data[j + 1] = name[j]
      BY <1>9 DEF Packed, Characters, n
    <2> QED BY <1>1, <1>5, <1>8, <2>1, <2>2
  <1>10. ASSUME NEW j \in 0 .. n, Begins(name, j)
         PROVE  /\ b[j + 1] \in 0 .. MaxLabel
                /\ j + b[j + 1] <= n
                /\ j + b[j + 1] < n => name[j + b[j + 1] + 1] = Dot
                /\ NoDot(name, j + 1, j + b[j + 1])
    <2>1. CASE j = e
      <3>1. e + c = n
        BY <1>1, <1>5
      <3> HIDE DEF e
      <3>2. b[j + 1] = c /\ j + c = n
        BY <1>8, <2>1, <3>1
      <3> QED BY <1>1, <1>3, <2>1, <3>2
    <2>2. CASE j < e
      <3>1. b[j + 1] = s.data[j + 1]
        BY <1>1, <1>5, <1>8, <2>2
      <3>2. j \in 0 .. Len(name) - s.count - 1 /\ e = Len(name) - s.count
        BY <1>1, <1>5, <2>2 DEF c, n
      <3>3. /\ s.data[j + 1] \in 0 .. MaxLabel
            /\ j + s.data[j + 1] < e
            /\ name[j + s.data[j + 1] + 1] = Dot
            /\ NoDot(name, j + 1, j + s.data[j + 1])
        BY <1>10, <3>2 DEF Packed, Labels
      <3>4. j + s.data[j + 1] <= n
        <4> DEFINE v == s.data[j + 1]
        <4> HIDE DEF v, e
        <4>1. v \in 0 .. MaxLabel /\ j + v < e
          BY <3>3 DEF v
        <4>2. j + v <= n
          BY <4>1, <1>1, <1>4, <1>5
        <4> QED BY <4>2 DEF v
      <3> HIDE DEF e
      <3> QED BY <3>1, <3>3, <3>4
    <2>3. CASE j > e
      <3>1. j \in e + 1 .. n
        BY <1>1, <1>5, <2>3
      <3>2. j # 0 /\ name[j] # Dot
        BY <1>3, <1>5, <3>1 DEF NoDot
      <3> QED BY <1>10, <3>2 DEF Begins
    <2> QED BY <1>1, <1>5, <2>1, <2>2, <2>3
  <1>11. Question(name, b)
    BY <1>7, <1>9, <1>10 DEF Question, n
  <1> QED BY <1>3, <1>11 DEF b, d, c

LEMMA MadeName ==
    ASSUME NEW o \in Nat, o < PacketSize, NEW name \in Name,
           NEW made, made = dns_make_name(name, o)
    PROVE  /\ o + Len(made.data) <= PacketSize
           /\ made.ok <=> /\ LabelsFit(name)
                          /\ o + Len(name) + 2 <= PacketSize
           /\ made.ok => Question(name, made.data)
  <1> DEFINE last == PackerSteps(o, name)[Len(name)]
             whole == Append([last.data EXCEPT ![last.plen] = last.count], 0)
             n == Len(name)
  <1>1. made = IF ~last.ok \/ PackerFull(o, last) THEN [ok |-> FALSE, data |-> last.data]
               ELSE [ok |-> TRUE, data |-> whole]
    BY MakeName
  <1>2. PackInv(o, name, n, last)
    BY PackSteps
  <1>3. n \in Nat /\ PacketSize \in Nat
    BY NameIs, DnsAssumption
  <1> HIDE DEF last, whole, n
  <1>4. CASE ~last.ok
    <2>1. made = [ok |-> FALSE, data |-> last.data]
      BY <1>1, <1>4
    <2>2. GaveUp(o, name, last)
      BY <1>2, <1>4 DEF PackInv
    <2> QED BY <1>3, <2>1, <2>2 DEF GaveUp, n
  <1>5. CASE last.ok /\ PackerFull(o, last)
    <2>1. made = [ok |-> FALSE, data |-> last.data]
      BY <1>1, <1>5
    <2>2. Len(last.data) = n + 1 /\ o + n + 1 <= PacketSize
      BY <1>2, <1>5 DEF PackInv, Packed
    <2>3. ~(o + n + 2 <= PacketSize)
      BY <1>3, <1>5, <2>2 DEF PackerFull
    <2> QED BY <1>3, <2>1, <2>2, <2>3 DEF n
  <1>6. CASE last.ok /\ ~PackerFull(o, last)
    <2>1. made = [ok |-> TRUE, data |-> whole]
      BY <1>1, <1>6
    <2>2. last \in Packer /\ Packed(o, name, n, last)
      BY <1>2, <1>6 DEF PackInv
    <2>3. Question(name, whole)
      BY <2>2, QuestionPacked DEF whole, n
    <2>4. Len(last.data) = n + 1
      BY <2>2 DEF Packed
    <2>5. o + n + 2 <= PacketSize
      BY <1>3, <1>6, <2>4 DEF PackerFull
    <2>6. LabelsFit(name)
      BY <2>2 DEF Packed, FitsUpTo, LabelsFit, n
    <2>7. Len(whole) = n + 2
      BY <2>3 DEF Question, n
    <2>8. o + Len(whole) <= PacketSize
      BY <1>3, <2>5, <2>7
    <2> QED BY <2>1, <2>3, <2>5, <2>6, <2>8 DEF n
  <1> QED BY <1>4, <1>5, <1>6

-----------------------------------------------------------------------------
(* The query: a header, the name, and its type and class.                  *)

LEMMA HeaderFits == HeaderSize \in Nat /\ HeaderSize < PacketSize
  BY DnsAssumption DEF HeaderSize

LEMMA HeaderBytes ==
    ASSUME NEW n, NEW flags, NEW count,
           NEW head, head = Header(n, flags, count)
    PROVE  /\ head[1] = (n \div IdBase) % IdBase /\ head[2] = n % IdBase
           /\ head[3] = flags \div 256 /\ head[4] = flags % 256
           /\ head[5] = 0 /\ head[6] = 1 /\ head[7] = 0 /\ head[8] = count
  BY DEF Header

LEMMA HeaderType ==
    ASSUME NEW n \in Nat, NEW flags \in Nat, NEW count \in Nat
    PROVE  Header(n, flags, count) \in Seq(Nat) /\ Len(Header(n, flags, count)) = HeaderSize
  <1> DEFINE x == (n \div IdBase) % IdBase
             y == n % IdBase
             u == flags \div 256
             v == flags % 256
  <1>1. x \in Nat /\ y \in Nat
    <2>1. IdBase \in Nat /\ IdBase > 0
      BY DnsAssumption
    <2>2. n \div IdBase \in Nat
      BY <2>1
    <2> QED BY <2>1, <2>2
  <1>2. u \in Nat /\ v \in Nat
    OBVIOUS
  <1> HIDE DEF x, y, u, v
  <1>3. Header(n, flags, count) = <<x, y, u, v, 0, 1, 0, count, 0, 0, 0, 0>>
    BY DEF Header, x, y, u, v
  <1> QED BY <1>1, <1>2, <1>3 DEF HeaderSize

(* A message with a name at an offset.                                     *)
Written(m, o, name) ==
    /\ m \in Seq(Nat) /\ o \in Nat
    /\ o + Len(name) + 2 <= Len(m)
    /\ \E b : /\ Question(name, b)
              /\ \A k \in 1 .. Len(name) + 2 : At(m, o + k - 1) = b[k]

LEMMA QueryMade ==
    ASSUME NEW name \in Name, NEW n \in Nat, NEW query, query = dns_make_query(n, name)
    PROVE  /\ query.ok <=> /\ LabelsFit(name)
                           /\ HeaderSize + Len(name) + 2 + QdSize <= PacketSize
           /\ query.ok => /\ Written(query.data, HeaderSize, name)
                          /\ HeaderSize + Len(name) + 2 + QdSize = Len(query.data)
  <1> DEFINE made == dns_make_name(name, HeaderSize)
             head == Header(n, 256, 0)
             tail == <<0, TypeA, 0, 1>>
             b == made.data
             m == (head \o b) \o tail
             len == Len(name)
  <1>1. query = IF ~made.ok THEN Failed
                ELSE IF Len(m) > PacketSize THEN Failed
                ELSE [ok |-> TRUE, data |-> m]
    BY DEF dns_make_query
  <1>2. len \in Nat /\ PacketSize \in Nat
    BY NameIs, DnsAssumption
  <1>3. /\ made.ok <=> LabelsFit(name) /\ HeaderSize + len + 2 <= PacketSize
        /\ made.ok => Question(name, b)
    <2> HIDE DEF made
    <2> QED BY HeaderFits, MadeName DEF made
  <1>4. head \in Seq(Nat) /\ Len(head) = 12
    <2>1. 256 \in Nat /\ 0 \in Nat
      OBVIOUS
    <2> HIDE DEF head
    <2> QED BY <2>1, HeaderType DEF head, HeaderSize
  <1>5. tail \in Seq(Nat) /\ Len(tail) = 4
    BY DEF TypeA
  <1> HIDE DEF made, head, tail, m
  <1>6. CASE ~made.ok
    <2>1. ~query.ok
      BY <1>1, <1>6 DEF Failed
    <2> QED BY <1>2, <1>3, <1>6, <2>1 DEF HeaderSize, QdSize
  <1>7. CASE made.ok
    <2>1. Question(name, b) /\ b \in Seq(Nat) /\ Len(b) = len + 2
      BY <1>3, <1>7 DEF Question
    <2> HIDE DEF b, len
    <2>2. /\ head \o b \in Seq(Nat) /\ Len(head \o b) = 12 + (len + 2)
          /\ \A k \in 1 .. 12 + (len + 2) :
                (head \o b)[k] = IF k <= 12 THEN head[k] ELSE b[k - 12]
      <3>1. head \in Seq(Nat) /\ b \in Seq(Nat) /\ Len(head) = 12 /\ Len(b) = len + 2
        BY <1>4, <2>1
      <3>2. \A k \in 1 .. Len(head) + Len(b) :
               (head \o b)[k] = IF k <= Len(head) THEN head[k] ELSE b[k - Len(head)]
        BY <3>1, ConcatProperties
      <3>3. head \o b \in Seq(Nat) /\ Len(head \o b) = Len(head) + Len(b)
        BY <3>1, ConcatProperties
      <3> QED BY <3>1, <3>2, <3>3
    <2> DEFINE front == head \o b
    <2> HIDE DEF front
    <2>3. /\ m \in Seq(Nat) /\ Len(m) = 12 + (len + 2) + 4
          /\ \A k \in 1 .. 12 + (len + 2) + 4 :
                m[k] = IF k <= 12 + (len + 2) THEN front[k] ELSE tail[k - (12 + (len + 2))]
      <3>1. front \in Seq(Nat) /\ Len(front) = 12 + (len + 2)
        BY <2>2 DEF front
      <3>2. m = front \o tail
        BY DEF m, front
      <3> HIDE DEF m
      <3>3. \A k \in 1 .. Len(front) + Len(tail) :
               (front \o tail)[k] = IF k <= Len(front) THEN front[k]
                                    ELSE tail[k - Len(front)]
        BY <1>5, <3>1, ConcatProperties
      <3>4. front \o tail \in Seq(Nat) /\ Len(front \o tail) = Len(front) + Len(tail)
        BY <1>5, <3>1, ConcatProperties
      <3> QED BY <1>5, <3>1, <3>2, <3>3, <3>4
    <2>4. \A k \in 1 .. len + 2 : m[12 + k] = b[k]
      <3> SUFFICES ASSUME NEW k \in 1 .. len + 2 PROVE m[12 + k] = b[k]
        OBVIOUS
      <3>1. 12 + k \in 1 .. 12 + (len + 2) /\ ~(12 + k <= 12) /\ (12 + k) - 12 = k
            /\ 12 + k \in 1 .. 12 + (len + 2) + 4 /\ 12 + k <= 12 + (len + 2)
        BY <1>2
      <3>2. m[12 + k] = front[12 + k]
        BY <2>3, <3>1
      <3>3. front[12 + k] = b[k]
        BY <2>2, <3>1 DEF front
      <3> QED BY <3>2, <3>3
    <2>5. \A k \in 1 .. len + 2 : At(m, HeaderSize + k - 1) = b[k]
      <3> SUFFICES ASSUME NEW k \in 1 .. len + 2 PROVE At(m, HeaderSize + k - 1) = b[k]
        OBVIOUS
      <3>1. (HeaderSize + k - 1) + 1 = 12 + k
        BY <1>2 DEF HeaderSize
      <3> QED BY <2>4, <3>1 DEF At
    <2>6. HeaderSize + len + 2 + QdSize = Len(m)
      BY <1>2, <2>3 DEF HeaderSize, QdSize
    <2>7. Written(m, HeaderSize, name)
      <3>1. HeaderSize + len + 2 <= Len(m)
        BY <1>2, <2>6 DEF HeaderSize, QdSize
      <3> QED BY <2>1, <2>3, <2>5, <3>1, HeaderFits DEF Written, len
    <2>8. CASE Len(m) > PacketSize
      <3>1. ~query.ok
        BY <1>1, <1>7, <2>8 DEF Failed
      <3>2. ~(HeaderSize + len + 2 + QdSize <= PacketSize)
        BY <1>2, <2>3, <2>6, <2>8
      <3> QED BY <3>1, <3>2 DEF len
    <2>9. CASE ~(Len(m) > PacketSize)
      <3>1. query = [ok |-> TRUE, data |-> m]
        BY <1>1, <1>7, <2>9
      <3>2. HeaderSize + len + 2 + QdSize <= PacketSize
        BY <1>2, <2>3, <2>6, <2>9
      <3> QED BY <1>3, <1>7, <2>6, <2>7, <3>1, <3>2 DEF len
    <2> QED BY <2>8, <2>9
  <1> QED BY <1>6, <1>7

(* A label of a question, and the label or the zero byte after it.         *)
LEMMA LabelWritten ==
    ASSUME NEW name \in Name, NEW m, NEW o, Written(m, o, name),
           NEW j \in 0 .. Len(name), Begins(name, j),
           NEW len, len = At(m, o + j)
    PROVE  /\ len \in 0 .. 63
           /\ j + len <= Len(name)
           /\ j + len < Len(name) => name[j + len + 1] = Dot
           /\ o + j + len + 2 <= Len(m)
           /\ \A k \in j + 1 .. j + len : At(m, o + k) = name[k]
           /\ NoDot(name, j + 1, j + len)
  <1> DEFINE n == Len(name)
  <1>1. n \in Nat
    BY NameIs
  <1>2. m \in Seq(Nat) /\ o + n + 2 <= Len(m) /\ o \in Nat /\ Len(m) \in Nat
    BY DEF Written
  <1>3. PICK b : /\ Question(name, b)
                 /\ \A k \in 1 .. n + 2 : At(m, o + k - 1) = b[k]
    BY DEF Written
  <1>4. \A k \in 0 .. n + 1 : At(m, o + k) = b[k + 1]
    <2> SUFFICES ASSUME NEW k \in 0 .. n + 1 PROVE At(m, o + k) = b[k + 1]
      OBVIOUS
    <2>1. k + 1 \in 1 .. n + 2 /\ o + (k + 1) - 1 = o + k
      BY <1>1
    <2> QED BY <1>3, <2>1
  <1>5. len = b[j + 1]
    BY <1>1, <1>4
  <1>6. /\ len \in 0 .. MaxLabel
        /\ j + len <= n
        /\ j + len < n => name[j + len + 1] = Dot
        /\ NoDot(name, j + 1, j + len)
    BY <1>3, <1>5 DEF Question
  <1>7. len \in Nat /\ len <= 63
    BY <1>6, DnsAssumption
  <1>9. o + j + len + 2 <= Len(m)
    BY <1>1, <1>2, <1>6, <1>7
  <1>10. ASSUME NEW k \in j + 1 .. j + len PROVE At(m, o + k) = name[k]
    <2>1. k \in 1 .. n /\ k \in 0 .. n + 1
      BY <1>1, <1>6, <1>7
    <2>2. name[k] # Dot
      BY <1>6 DEF NoDot
    <2>3. b[k + 1] = name[k]
      BY <1>3, <2>1, <2>2 DEF Question
    <2> QED BY <1>4, <2>1, <2>3
  <1>11. len \in 0 .. 63
    <2>1. \A x \in Nat : x <= 63 => x \in 0 .. 63
      OBVIOUS
    <2> QED BY <1>7, <2>1
  <1> QED BY <1>6, <1>9, <1>10, <1>11

LEMMA LabelInQuestion ==
    ASSUME NEW name \in Name, NoEmptyLabel(name), NEW m, NEW o, Written(m, o, name),
           NEW j \in 0 .. Len(name), Begins(name, j),
           NEW len, len = At(m, o + j)
    PROVE  /\ len \in 1 .. 63
           /\ j + len <= Len(name)
           /\ j + len < Len(name) => name[j + len + 1] = Dot
           /\ o + j + len + 2 <= Len(m)
           /\ \A k \in j + 1 .. j + len : At(m, o + k) = name[k]
  <1>1. /\ len \in 0 .. 63
        /\ j + len <= Len(name)
        /\ j + len < Len(name) => name[j + len + 1] = Dot
        /\ o + j + len + 2 <= Len(m)
        /\ \A k \in j + 1 .. j + len : At(m, o + k) = name[k]
    BY LabelWritten
  <1>2. j < Len(name) /\ name[j + 1] # Dot
    BY DEF NoEmptyLabel, Begins
  <1>3. ASSUME len = 0 PROVE FALSE
    <2>1. j + len = j
      BY <1>3
    <2> QED BY <1>1, <1>2, <2>1
  <1>4. len \in 1 .. 63
    <2>1. \A x \in 0 .. 63 : x # 0 => x \in 1 .. 63
      OBVIOUS
    <2> QED BY <1>1, <1>3, <2>1
  <1> QED BY <1>1, <1>4

LEMMA EndOfQuestion ==
    ASSUME NEW name \in Name, NEW m, NEW o, Written(m, o, name)
    PROVE  At(m, o + Len(name) + 1) = 0
  <1>1. Len(name) \in Nat
    BY NameIs
  <1>2. PICK b : /\ Question(name, b)
                 /\ \A k \in 1 .. Len(name) + 2 : At(m, o + k - 1) = b[k]
    BY DEF Written
  <1>3. Len(name) + 2 \in 1 .. Len(name) + 2
        /\ o + (Len(name) + 2) - 1 = o + Len(name) + 1
    BY <1>1 DEF Written
  <1>4. At(m, o + Len(name) + 1) = b[Len(name) + 2]
    BY <1>2, <1>3
  <1> QED BY <1>2, <1>4 DEF Question

-----------------------------------------------------------------------------
(* Where the question ends.                                                *)

EndStep(m, p, g) ==
    IF p >= Len(m) THEN -1
    ELSE IF At(m, p) = 0 THEN p + 1
    ELSE IF At(m, p) >= Pointer THEN IF p + 2 > Len(m) THEN -1 ELSE p + 2
    ELSE IF At(m, p) >= 64 \/ p + 1 + At(m, p) + 1 > Len(m) THEN -1
    ELSE g[p + 1 + At(m, p)]

Ends(m) == CHOOSE g : g = [p \in 0 .. Len(m) |-> EndStep(m, p, g)]

(* A name goes on at a later byte, so that the function exists: it is      *)
(* extended from the end of the message to its beginning.                  *)
LEMMA EndsDef ==
    ASSUME NEW m \in Seq(Nat)
    PROVE  /\ \A p \in 0 .. Len(m) : Ends(m)[p] = EndStep(m, p, Ends(m))
           /\ \A o : NameEnd(m, o) = Ends(m)[o]
  <1> DEFINE top == Len(m)
             P(k, g) == g = [p \in top - k .. top |-> EndStep(m, p, g)]
             S == {k \in Nat : k <= top => \E g : P(k, g)}
  <1>1. top \in Nat
    OBVIOUS
  <1>2. 0 \in S
    <2>1. P(0, [p \in top - 0 .. top |-> -1])
      BY <1>1 DEF EndStep
    <2> QED BY <2>1
  <1>3. ASSUME NEW k \in Nat, k \in S PROVE k + 1 \in S
    <2> SUFFICES ASSUME k + 1 <= top PROVE \E g : P(k + 1, g)
      OBVIOUS
    <2>1. PICK g : P(k, g)
      BY <1>1, <1>3
    <2> DEFINE low == top - (k + 1)
               h == [p \in low .. top |-> IF p = low THEN EndStep(m, low, g) ELSE g[p]]
    <2>2. low \in Nat /\ low + 1 = top - k /\ low < top
      BY <1>1
    <2>2a. low = top - (k + 1)
      OBVIOUS
    <2> HIDE DEF low
    <2>3. ASSUME NEW p \in low .. top PROVE EndStep(m, p, h) = EndStep(m, p, g)
      <3>1. CASE p >= Len(m)
        BY <3>1 DEF EndStep
      <3>2. CASE p < Len(m)
        <4> DEFINE len == At(m, p)
        <4>1. len \in Nat
          <5>1. p + 1 \in 1 .. Len(m)
            BY <2>2, <3>2
          <5> QED BY <5>1 DEF At
        <4> HIDE DEF len
        <4>2. CASE len # 0 /\ ~(p + 1 + len + 1 > Len(m))
          <5>1. p + 1 + len \in low .. top /\ p + 1 + len # low
            BY <1>1, <2>2, <4>1, <4>2
          <5>2. h[p + 1 + len] = g[p + 1 + len]
            BY <5>1
          <5> QED BY <5>2 DEF EndStep, len
        <4>3. CASE len = 0 \/ p + 1 + len + 1 > Len(m)
          <5> HIDE DEF h
          <5> QED BY <4>3 DEF EndStep, len
        <4> QED BY <4>2, <4>3
      <3> QED BY <1>1, <2>2, <3>1, <3>2
    <2>4. ASSUME NEW p \in low .. top PROVE h[p] = EndStep(m, p, g)
      <3>1. CASE p = low
        BY <2>2, <3>1
      <3>2. CASE p # low
        <4>1. p \in top - k .. top
          BY <1>1, <2>2, <3>2
        <4>2. h[p] = g[p]
          BY <3>2
        <4> HIDE DEF h
        <4> QED BY <2>1, <4>1, <4>2
      <3> QED BY <3>1, <3>2
    <2>5. \A p \in low .. top : h[p] = EndStep(m, p, h)
      <3> HIDE DEF h
      <3> QED BY <2>3, <2>4
    <2>6. P(k + 1, h)
      <3>1. h = [p \in low .. top |-> h[p]]
        OBVIOUS
      <3> HIDE DEF h
      <3> QED BY <2>2a, <2>5, <3>1
    <2> HIDE DEF P, h
    <2> QED BY <2>6
  <1> HIDE DEF S
  <1>4. top \in S
    BY <1>1, <1>2, <1>3, Induction
  <1>5. \E g : P(top, g)
    BY <1>1, <1>4 DEF S
  <1>6. top - top = 0
    BY <1>1
  <1>7. \E g : g = [p \in 0 .. Len(m) |-> EndStep(m, p, g)]
    BY <1>5, <1>6
  <1>8. Ends(m) = [p \in 0 .. Len(m) |-> EndStep(m, p, Ends(m))]
    <2> DEFINE Q(g) == g = [p \in 0 .. Len(m) |-> EndStep(m, p, g)]
    <2>1. \E g : Q(g)
      BY <1>7
    <2>2. Ends(m) = CHOOSE g : Q(g)
      BY DEF Ends
    <2>3. Q(Ends(m))
      <3> HIDE DEF Q
      <3> QED BY <2>1, <2>2
    <2> QED BY <2>3
  <1>9. \A o : NameEnd(m, o) = Ends(m)[o]
    BY DEF NameEnd, Ends, EndStep
  <1>10. \A p \in 0 .. Len(m) : Ends(m)[p] = EndStep(m, p, Ends(m))
    <2> DEFINE e == Ends(m)
    <2>1. e = [p \in 0 .. Len(m) |-> EndStep(m, p, e)]
      BY <1>8
    <2> HIDE DEF e
    <2>2. \A p \in 0 .. Len(m) : e[p] = EndStep(m, p, e)
      BY <2>1
    <2> QED BY <2>2 DEF e
  <1> QED BY <1>9, <1>10

(* The places where a label, or the last byte of the name, is.             *)
Place(name, j) == j = Len(name) + 1 \/ (j \in 0 .. Len(name) /\ Begins(name, j))

LEMMA QuestionEnds ==
    ASSUME NEW name \in Name, NoEmptyLabel(name), NEW m, NEW o, Written(m, o, name)
    PROVE  NameEnd(m, o) = o + Len(name) + 2
  <1> DEFINE n == Len(name)
             end == o + n + 2
             S == {k \in Nat : \A j \in 0 .. n + 1 :
                      Place(name, j) /\ n + 1 - j <= k => Ends(m)[o + j] = end}
  <1>1. n \in Nat /\ o \in Nat
    BY NameIs DEF Written
  <1>2. m \in Seq(Nat) /\ o + n + 2 <= Len(m)
    BY DEF Written
  <1>3. \A p \in 0 .. Len(m) : Ends(m)[p] = EndStep(m, p, Ends(m))
    BY <1>2, EndsDef
  <1>4. Ends(m)[o + (n + 1)] = end
    <2> DEFINE p == o + (n + 1)
    <2>1. p \in 0 .. Len(m) /\ p < Len(m) /\ p + 1 = end /\ p = o + n + 1
      BY <1>1, <1>2
    <2>2. At(m, p) = 0
      BY <2>1, EndOfQuestion
    <2> HIDE DEF p, end
    <2>3. EndStep(m, p, Ends(m)) = p + 1
      BY <2>1, <2>2 DEF EndStep
    <2>4. Ends(m)[p] = end
      BY <1>3, <2>1, <2>3
    <2> QED BY <2>4 DEF p
  <1>5. 0 \in S
    <2> SUFFICES ASSUME NEW j \in 0 .. n + 1, n + 1 - j <= 0
                 PROVE  Ends(m)[o + j] = end
      OBVIOUS
    <2>1. j = n + 1
      BY <1>1
    <2> QED BY <1>4, <2>1
  <1>6. ASSUME NEW k \in Nat, k \in S PROVE k + 1 \in S
    <2> SUFFICES ASSUME NEW j \in 0 .. n + 1, Place(name, j), n + 1 - j <= k + 1
                 PROVE  Ends(m)[o + j] = end
      OBVIOUS
    <2>1. CASE j = n + 1
      BY <1>4, <2>1
    <2>2. CASE j # n + 1
      <3> DEFINE len == At(m, o + j)
                 p == o + j
                 next == j + len + 1
      <3>1. j \in 0 .. n /\ Begins(name, j)
        BY <2>2 DEF Place
      <3>2. /\ len \in 1 .. 63
            /\ j + len <= n
            /\ j + len < n => name[j + len + 1] = Dot
            /\ o + j + len + 2 <= Len(m)
        BY <3>1, LabelInQuestion
      <3> HIDE DEF len
      <3>3. next \in 0 .. n + 1 /\ Place(name, next) /\ n + 1 - next <= k
        BY <1>1, <3>1, <3>2 DEF Place, Begins
      <3>4. Ends(m)[o + next] = end
        <4> HIDE DEF next, end
        <4> QED BY <1>6, <3>3
      <3>5. o + next = p + 1 + len
        BY <1>1, <3>2
      <3>6. p \in 0 .. Len(m) /\ p < Len(m) /\ p + 1 + len + 1 <= Len(m)
            /\ len # 0 /\ len < 64
        BY <1>1, <1>2, <3>1, <3>2
      <3>6a. At(m, p) = len
        BY DEF len
      <3> HIDE DEF next, p, end
      <3>7. EndStep(m, p, Ends(m)) = Ends(m)[p + 1 + len]
        <4>1. ~(p >= Len(m)) /\ ~(len >= Pointer) /\ ~(len >= 64)
              /\ ~(p + 1 + len + 1 > Len(m)) /\ len # 0
          BY <1>2, <3>2, <3>6 DEF Pointer
        <4> QED BY <3>6a, <4>1 DEF EndStep
      <3> QED BY <1>3, <3>4, <3>5, <3>6, <3>7 DEF p
    <2> QED BY <2>1, <2>2
  <1> HIDE DEF S
  <1>7. n + 1 \in S
    BY <1>1, <1>5, <1>6, Induction
  <1>8. Ends(m)[o + 0] = end
    <2>1. 0 \in 0 .. n + 1 /\ Place(name, 0) /\ n + 1 - 0 <= n + 1
      BY <1>1 DEF Place, Begins
    <2> HIDE DEF end
    <2> QED BY <1>7, <2>1 DEF S
  <1> QED BY <1>1, <1>2, <1>8, EndsDef

-----------------------------------------------------------------------------
(* Whether the question is for a name.                                     *)

Pairs(m, name) == (0 .. Len(m)) \X (0 .. Len(name))

LabelStart(q) == IF q = 0 THEN 0 ELSE q + 1

Target(m, p) == (At(m, p) - Pointer) * 256 + At(m, p + 1)

(* The parts of dns_name_compare: a pointer may be followed, a label is    *)
(* the next one of the name.                                               *)
Followed(m, p) == p + 2 <= Len(m) /\ Target(m, p) < Len(m)

SameLabel(m, name, p, q) ==
    LET len == At(m, p)
        r == LabelStart(q)
    IN  /\ len < 64 /\ p + 1 + len + 1 <= Len(m)
        /\ q # 0 => q < Len(name) /\ name[q + 1] = Dot
        /\ r + len <= Len(name)
        /\ SubSeq(m, p + 2, p + 1 + len) = SubSeq(name, r + 1, r + len)

SameStep(m, name, x, g) ==
    LET p == x[1]
        q == x[2]
        len == At(m, p)
        r == LabelStart(q)
    IN  IF p >= Len(m) THEN FALSE
        ELSE IF len = 0 THEN q = Len(name)
        ELSE IF len >= Pointer
        THEN p + 2 <= Len(m) /\ Target(m, p) < Len(m) /\ g[<<Target(m, p), q>>]
        ELSE /\ len < 64 /\ p + 1 + len + 1 <= Len(m)
             /\ q # 0 => q < Len(name) /\ name[q + 1] = Dot
             /\ r + len <= Len(name)
             /\ SubSeq(m, p + 2, p + 1 + len) = SubSeq(name, r + 1, r + len)
             /\ g[<<p + 1 + len, r + len>>]

Sames(m, name) ==
    CHOOSE g : g = [x \in Pairs(m, name) |-> SameStep(m, name, x, g)]

LEMMA CompareIs ==
    ASSUME NEW m, NEW name, NEW offset
    PROVE  dns_name_compare(m, offset, name) <=>
               Len(name) > 0 /\ Sames(m, name)[<<offset, 0>>]
  BY DEF dns_name_compare, Sames, SameStep, Target, LabelStart, Pairs

(* The same with a set of pairs in place of a function.                    *)
SameIn(m, name, x, X) ==
    LET p == x[1]
        q == x[2]
    IN  /\ p < Len(m)
        /\ \/ At(m, p) = 0 /\ q = Len(name)
           \/ /\ At(m, p) # 0 /\ At(m, p) >= Pointer
              /\ Followed(m, p) /\ <<Target(m, p), q>> \in X
           \/ /\ At(m, p) # 0 /\ ~(At(m, p) >= Pointer)
              /\ SameLabel(m, name, p, q)
              /\ <<p + 1 + At(m, p), LabelStart(q) + At(m, p)>> \in X

Closed(m, name, X) ==
    \A x \in Pairs(m, name) : SameIn(m, name, x, X) => x \in X

Least(m, name) ==
    {x \in Pairs(m, name) : \A X \in SUBSET Pairs(m, name) : Closed(m, name, X) => x \in X}

(* The names that are the same are the least fixpoint, whether or not      *)
(* pointers go round in circles.                                           *)
LEMMA LeastIsFixed ==
    ASSUME NEW m, NEW name, NEW x \in Pairs(m, name)
    PROVE  x \in Least(m, name) <=> SameIn(m, name, x, Least(m, name))
  <1> DEFINE D == Pairs(m, name)
             L == Least(m, name)
  <1>1. ASSUME NEW y, NEW X, NEW Y, X \subseteq Y, SameIn(m, name, y, X)
        PROVE  SameIn(m, name, y, Y)
    BY <1>1 DEF SameIn
  <1>2. L \subseteq D /\ \A X \in SUBSET D : Closed(m, name, X) => L \subseteq X
    BY DEF Least
  <1>3. \A y \in D : (\A X \in SUBSET D : Closed(m, name, X) => y \in X) => y \in L
    BY DEF Least
  <1> HIDE DEF D, L
  <1>4. ASSUME NEW y \in D, SameIn(m, name, y, L) PROVE y \in L
    <2>1. ASSUME NEW X \in SUBSET D, Closed(m, name, X) PROVE y \in X
      <3>1. SameIn(m, name, y, X)
        BY <1>1, <1>2, <1>4, <2>1
      <3> QED BY <2>1, <3>1 DEF Closed, D
    <2> QED BY <1>3, <2>1
  <1>5. ASSUME x \in L, ~SameIn(m, name, x, L) PROVE FALSE
    <2> DEFINE X == L \ {x}
    <2>1. X \in SUBSET D
      BY <1>2
    <2>2. ASSUME NEW y \in D, SameIn(m, name, y, X) PROVE y \in X
      <3>1. SameIn(m, name, y, L)
        BY <1>1, <2>2
      <3> QED BY <1>4, <1>5, <3>1
    <2>3. Closed(m, name, X)
      <3> HIDE DEF X
      <3> QED BY <2>2 DEF Closed, D
    <2>4. x \in X
      <3> HIDE DEF X
      <3> QED BY <1>2, <1>5, <2>1, <2>3
    <2> QED BY <2>4
  <1> QED BY <1>4, <1>5 DEF L, D

LEMMA SamesDef ==
    ASSUME NEW m \in Seq(Nat), NEW name \in Name, NEW x \in Pairs(m, name)
    PROVE  Sames(m, name)[x] <=> SameStep(m, name, x, Sames(m, name))
  <1> DEFINE D == Pairs(m, name)
             L == Least(m, name)
             g == [y \in D |-> y \in L]
             P(f) == f = [y \in D |-> SameStep(m, name, y, f)]
  <1>0. Len(m) \in Nat /\ Len(name) \in Nat
    BY NameIs
  <1>1. ASSUME NEW y \in D PROVE g[y] = (y \in L)
    OBVIOUS
  <1>2. ASSUME NEW y \in D PROVE SameIn(m, name, y, L) <=> SameStep(m, name, y, g)
    <2> DEFINE p == y[1]
               q == y[2]
               to == <<Target(m, p), q>>
               next == <<p + 1 + At(m, p), LabelStart(q) + At(m, p)>>
    <2>1. p \in 0 .. Len(m) /\ q \in 0 .. Len(name)
      BY DEF Pairs
    <2> HIDE DEF D, L, g, p, q
    <2>2. CASE p >= Len(m)
      <3>1. ~(p < Len(m))
        BY <1>0, <2>1, <2>2
      <3> QED BY <2>2, <3>1 DEF SameIn, SameStep, p
    <2>3. CASE p < Len(m) /\ At(m, p) = 0
      <3>1. ~(p >= Len(m))
        BY <1>0, <2>1, <2>3
      <3> QED BY <2>3, <3>1 DEF SameIn, SameStep, p, q
    <2>4. CASE p < Len(m) /\ At(m, p) # 0 /\ At(m, p) >= Pointer
      <3>1. ~(p >= Len(m))
        BY <1>0, <2>1, <2>4
      <3>2. Followed(m, p) => to \in D
        <4> SUFFICES ASSUME Followed(m, p) PROVE Target(m, p) \in 0 .. Len(m)
          BY <2>1 DEF D, Pairs
        <4>1. p + 1 \in 1 .. Len(m) /\ (p + 1) + 1 \in 1 .. Len(m)
          BY <1>0, <2>1 DEF Followed
        <4>2. At(m, p) \in Nat /\ At(m, p + 1) \in Nat
          BY <4>1 DEF At
        <4>3. Target(m, p) \in Nat
          BY <2>4, <4>2 DEF Target, Pointer
        <4> QED BY <1>0, <4>3 DEF Followed
      <3>3. Followed(m, p) => (g[to] <=> to \in L)
        <4> HIDE DEF to
        <4> QED BY <1>1, <3>2
      <3>4. SameIn(m, name, y, L) <=> Followed(m, p) /\ to \in L
        BY <2>4 DEF SameIn, p, q
      <3>5. SameStep(m, name, y, g) <=> Followed(m, p) /\ g[to]
        BY <2>4, <3>1 DEF SameStep, Followed, p, q
      <3> QED BY <3>3, <3>4, <3>5
    <2>5. CASE p < Len(m) /\ At(m, p) # 0 /\ ~(At(m, p) >= Pointer)
      <3>1. ~(p >= Len(m))
        BY <1>0, <2>1, <2>5
      <3>2. SameLabel(m, name, p, q) => next \in D
        <4> DEFINE len == At(m, p)
                   r == LabelStart(q)
        <4> SUFFICES ASSUME SameLabel(m, name, p, q)
                     PROVE  p + 1 + len \in 0 .. Len(m) /\ r + len \in 0 .. Len(name)
          BY DEF D, Pairs
        <4>1. p + 1 \in 1 .. Len(m)
          BY <1>0, <2>1, <2>5
        <4>2. len \in Nat
          BY <4>1 DEF At
        <4>3. r \in Nat
          BY <2>1 DEF LabelStart
        <4>4. p + 1 + len + 1 <= Len(m) /\ r + len <= Len(name)
          BY DEF SameLabel
        <4> HIDE DEF len, r
        <4> QED BY <1>0, <2>1, <4>2, <4>3, <4>4
      <3>3. SameLabel(m, name, p, q) => (g[next] <=> next \in L)
        <4> HIDE DEF next
        <4> QED BY <1>1, <3>2
      <3>4. SameIn(m, name, y, L) <=> SameLabel(m, name, p, q) /\ next \in L
        BY <2>5 DEF SameIn, p, q
      <3>5. SameStep(m, name, y, g) <=> SameLabel(m, name, p, q) /\ g[next]
        BY <2>5, <3>1 DEF SameStep, SameLabel, p, q
      <3> QED BY <3>3, <3>4, <3>5
    <2> QED BY <1>0, <2>1, <2>2, <2>3, <2>4, <2>5
  <1>3. ASSUME NEW y \in D PROVE g[y] = SameStep(m, name, y, g)
    <2>1. y \in L <=> SameIn(m, name, y, L)
      BY LeastIsFixed
    <2>2. g[y] = (y \in L)
      BY <1>1
    <2> HIDE DEF g, L, D
    <2>3. (y \in L) <=> SameStep(m, name, y, g)
      BY <1>2, <2>1
    <2>4. SameStep(m, name, y, g) \in BOOLEAN
      BY DEF SameStep
    <2> QED BY <2>2, <2>3, <2>4
  <1>4. P(g)
    <2>1. g = [y \in D |-> g[y]]
      OBVIOUS
    <2> HIDE DEF g, D
    <2> QED BY <1>3, <2>1
  <1>5. P(Sames(m, name))
    <2>1. \E f : P(f)
      <3> HIDE DEF P, g
      <3> QED BY <1>4
    <2>2. Sames(m, name) = CHOOSE f : P(f)
      BY DEF Sames
    <2> HIDE DEF P
    <2> QED BY <2>1, <2>2
  <1>6. ASSUME NEW f, P(f) PROVE f[x] = SameStep(m, name, x, f)
    <2>1. f = [y \in D |-> SameStep(m, name, y, f)]
      BY <1>6
    <2>2. x \in D
      OBVIOUS
    <2> HIDE DEF D
    <2> QED BY <2>1, <2>2
  <1> HIDE DEF P
  <1>7. Sames(m, name)[x] = SameStep(m, name, x, Sames(m, name))
    BY <1>5, <1>6
  <1> QED BY <1>7

(* How many characters of the name come before a place.                    *)
Before(j) == IF j = 0 THEN 0 ELSE j - 1

LEMMA LabelIsSame ==
    ASSUME NEW name \in Name, NoEmptyLabel(name), NEW m, NEW o, Written(m, o, name),
           NEW j \in 0 .. Len(name), Begins(name, j)
    PROVE  SameLabel(m, name, o + j, Before(j))
  <1> DEFINE n == Len(name)
             p == o + j
             q == Before(j)
             len == At(m, p)
             r == LabelStart(q)
  <1>1. n \in Nat /\ o \in Nat
    BY NameIs DEF Written
  <1>2. m \in Seq(Nat) /\ o + n + 2 <= Len(m)
    BY DEF Written
  <1>3. /\ len \in 1 .. 63
        /\ j + len <= n
        /\ o + j + len + 2 <= Len(m)
        /\ \A k \in j + 1 .. j + len : At(m, o + k) = name[k]
    BY LabelInQuestion
  <1>4. q = (IF j = 0 THEN 0 ELSE j - 1) /\ (j # 0 => j >= 2 /\ q # 0)
    <2>1. name[1] # Dot
      BY <1>1 DEF NoEmptyLabel
    <2>2. j # 1
      BY <2>1 DEF Begins
    <2> QED BY <1>1, <2>2 DEF Before
  <1>5. r = j
    BY <1>1, <1>4 DEF LabelStart
  <1>6. q # 0 => q < n /\ name[q + 1] = Dot
    <2> SUFFICES ASSUME q # 0 PROVE q < n /\ name[q + 1] = Dot
      OBVIOUS
    <2>1. j # 0 /\ q = j - 1
      BY <1>4
    <2>2. q + 1 = j /\ q < n
      BY <1>1, <2>1
    <2> QED BY <2>1, <2>2 DEF Begins
  <1> HIDE DEF len, q, r
  <1>7. SubSeq(m, p + 2, p + 1 + len) = SubSeq(name, r + 1, r + len)
    <2> DEFINE x == SubSeq(m, p + 2, p + 1 + len)
               y == SubSeq(name, j + 1, j + len)
    <2>1. len \in Nat /\ len >= 1 /\ p \in Nat
      BY <1>1, <1>3
    <2>2. \A i \in p + 2 .. p + 1 + len : m[i] \in Nat
      <3> SUFFICES ASSUME NEW i \in p + 2 .. p + 1 + len PROVE m[i] \in Nat
        OBVIOUS
      <3>1. i \in 1 .. Len(m)
        BY <1>1, <1>2, <1>3, <2>1
      <3> QED BY <1>2, <3>1
    <2>3. \A i \in j + 1 .. j + len : name[i] \in Nat
      <3> SUFFICES ASSUME NEW i \in j + 1 .. j + len PROVE name[i] \in Nat
        OBVIOUS
      <3>1. i \in 1 .. Len(name)
        BY <1>1, <1>3, <2>1
      <3> QED BY <3>1, NameIs
    <2>4. p + 2 \in Int /\ p + 1 + len \in Int /\ j + 1 \in Int /\ j + len \in Int
      BY <1>1, <2>1
    <2>5. /\ x \in Seq(Nat)
          /\ Len(x) = IF p + 2 <= p + 1 + len THEN (p + 1 + len) - (p + 2) + 1 ELSE 0
          /\ \A i \in 1 .. (p + 1 + len) - (p + 2) + 1 : x[i] = m[(p + 2) + i - 1]
      BY <2>2, <2>4, SubSeqProperties
    <2>6. /\ y \in Seq(Nat)
          /\ Len(y) = IF j + 1 <= j + len THEN (j + len) - (j + 1) + 1 ELSE 0
          /\ \A i \in 1 .. (j + len) - (j + 1) + 1 : y[i] = name[(j + 1) + i - 1]
      BY <2>3, <2>4, SubSeqProperties
    <2>7. (p + 1 + len) - (p + 2) + 1 = len /\ p + 2 <= p + 1 + len
          /\ (j + len) - (j + 1) + 1 = len /\ j + 1 <= j + len
      BY <1>1, <2>1
    <2>8. ASSUME NEW i \in 1 .. len PROVE x[i] = y[i]
      <3>1. x[i] = m[(p + 2) + i - 1] /\ y[i] = name[(j + 1) + i - 1]
        BY <2>5, <2>6, <2>7
      <3>2. (j + 1) + i - 1 = j + i /\ j + i \in j + 1 .. j + len
            /\ (p + 2) + i - 1 = (o + (j + i)) + 1
        BY <1>1, <2>1
      <3>3. At(m, o + (j + i)) = name[j + i]
        BY <1>3, <3>2
      <3> QED BY <3>1, <3>2, <3>3 DEF At
    <2>9. Len(x) = len /\ Len(y) = len /\ x \in Seq(Nat) /\ y \in Seq(Nat)
      BY <2>5, <2>6, <2>7
    <2> HIDE DEF x, y
    <2>10. x = y
      BY <2>8, <2>9, SeqEqual
    <2> QED BY <1>5, <2>10 DEF x, y
  <1>8. len < 64 /\ p + 1 + len + 1 <= Len(m) /\ r + len <= n
    BY <1>1, <1>3, <1>5
  <1> HIDE DEF p
  <1>9. SameLabel(m, name, p, q)
    BY <1>6, <1>7, <1>8 DEF SameLabel, len, r
  <1> QED BY <1>9 DEF p, q

LEMMA QuestionIsSame ==
    ASSUME NEW name \in Name, NoEmptyLabel(name), NEW m, NEW o, Written(m, o, name)
    PROVE  dns_name_compare(m, o, name)
  <1> DEFINE n == Len(name)
             same == Sames(m, name)
             S == {k \in Nat : \A j \in 0 .. n + 1 :
                      Place(name, j) /\ n + 1 - j <= k => same[<<o + j, Before(j)>>]}
  <1>1. n \in Nat /\ o \in Nat
    BY NameIs DEF Written
  <1>2. m \in Seq(Nat) /\ o + n + 2 <= Len(m)
    BY DEF Written
  <1>3. \A x \in Pairs(m, name) : same[x] <=> SameStep(m, name, x, same)
    BY <1>2, SamesDef
  <1>4. ASSUME NEW j \in 0 .. n + 1
        PROVE  /\ <<o + j, Before(j)>> \in Pairs(m, name)
               /\ o + j < Len(m)
    <2>1. o + j \in 0 .. Len(m) /\ o + j < Len(m)
      BY <1>1, <1>2
    <2>2. Before(j) \in 0 .. n
      BY <1>1 DEF Before
    <2> QED BY <2>1, <2>2 DEF Pairs
  <1> HIDE DEF same
  <1>5. same[<<o + (n + 1), Before(n + 1)>>]
    <2> DEFINE p == o + (n + 1)
               x == <<p, Before(n + 1)>>
    <2>1. n + 1 \in 0 .. n + 1 /\ p = o + n + 1
      BY <1>1
    <2>2. x \in Pairs(m, name) /\ ~(p >= Len(m))
      BY <1>1, <1>2, <1>4, <2>1
    <2>3. At(m, p) = 0
      BY <2>1, EndOfQuestion
    <2>4. Before(n + 1) = n
      BY <1>1 DEF Before
    <2> HIDE DEF p
    <2>5. SameStep(m, name, x, same)
      BY <2>2, <2>3, <2>4 DEF SameStep
    <2> QED BY <1>3, <2>2, <2>5 DEF p
  <1>6. 0 \in S
    <2> SUFFICES ASSUME NEW j \in 0 .. n + 1, n + 1 - j <= 0
                 PROVE  same[<<o + j, Before(j)>>]
      OBVIOUS
    <2>1. j = n + 1
      BY <1>1
    <2> QED BY <1>5, <2>1
  <1>7. ASSUME NEW k \in Nat, k \in S PROVE k + 1 \in S
    <2> SUFFICES ASSUME NEW j \in 0 .. n + 1, Place(name, j), n + 1 - j <= k + 1
                 PROVE  same[<<o + j, Before(j)>>]
      OBVIOUS
    <2>1. CASE j = n + 1
      BY <1>5, <2>1
    <2>2. CASE j # n + 1
      <3> DEFINE p == o + j
                 q == Before(j)
                 len == At(m, p)
                 next == j + len + 1
                 x == <<p, q>>
      <3>1. j \in 0 .. n /\ Begins(name, j)
        BY <2>2 DEF Place
      <3>2. /\ len \in 1 .. 63
            /\ j + len <= n
            /\ j + len < n => name[j + len + 1] = Dot
        BY <3>1, LabelInQuestion
      <3>3. SameLabel(m, name, p, q)
        BY <3>1, LabelIsSame
      <3>4. LabelStart(q) = j
        <4>1. name[1] # Dot
          BY <1>1 DEF NoEmptyLabel
        <4>2. j # 1
          BY <3>1, <4>1 DEF Begins
        <4> QED BY <1>1, <3>1, <4>2 DEF LabelStart, Before
      <3>5. x \in Pairs(m, name) /\ ~(p >= Len(m))
        BY <1>1, <1>2, <1>4
      <3> HIDE DEF len
      <3>6. next \in 0 .. n + 1 /\ Place(name, next) /\ n + 1 - next <= k
        BY <1>1, <3>1, <3>2 DEF Place, Begins
      <3>7. same[<<o + next, Before(next)>>]
        <4> HIDE DEF next
        <4> QED BY <1>7, <3>6
      <3>8. o + next = p + 1 + len /\ Before(next) = j + len
        BY <1>1, <3>1, <3>2 DEF Before
      <3>9. same[<<p + 1 + len, LabelStart(q) + len>>]
        <4> HIDE DEF next, p, q
        <4> QED BY <3>4, <3>7, <3>8
      <3>10. At(m, p) = len
        BY DEF len
      <3>10a. len # 0 /\ ~(len >= Pointer)
        BY <3>2 DEF Pointer
      <3> HIDE DEF p, q, next
      <3>11. SameStep(m, name, x, same)
        BY <3>3, <3>5, <3>9, <3>10, <3>10a DEF SameStep, SameLabel
      <3>12. same[x]
        <4> HIDE DEF x
        <4> QED BY <1>3, <3>5, <3>11
      <3> QED BY <3>12 DEF p, q
    <2> QED BY <2>1, <2>2
  <1> HIDE DEF S
  <1>8. n + 1 \in S
    BY <1>1, <1>6, <1>7, Induction
  <1>9. same[<<o + 0, Before(0)>>]
    <2>1. 0 \in 0 .. n + 1 /\ Place(name, 0) /\ n + 1 - 0 <= n + 1
      BY <1>1 DEF Place, Begins
    <2> QED BY <1>8, <2>1 DEF S
  <1>10. o + 0 = o /\ Before(0) = 0
    BY <1>1 DEF Before
  <1>11. n > 0
    BY <1>1 DEF NoEmptyLabel
  <1> QED BY <1>9, <1>10, <1>11, CompareIs DEF same

-----------------------------------------------------------------------------
(* No other name is taken for the one that is asked for.                   *)

(* What is left of a name from a label on.                                 *)
Remaining(name, q, other, j) ==
    LET r == LabelStart(q)
    IN  /\ j = Len(other) + 1 => q = Len(name)
        /\ j <= Len(other) =>
              /\ Len(name) - r = Len(other) - j
              /\ q # 0 => name[q + 1] = Dot
              /\ \A i \in 1 .. Len(other) - j : name[r + i] = other[j + i]

(* A label that is the same, and what follows it.                          *)
LEMMA NextLabelSame ==
    ASSUME NEW name \in Name, NEW other \in Name, NEW m, NEW o, Written(m, o, other),
           NEW j \in 0 .. Len(other), Begins(other, j), NEW q \in 0 .. Len(name),
           NEW len, len = At(m, o + j), len \in 1 .. 63,
           Sames(m, name)[<<o + j, q>>]
    PROVE  /\ SameLabel(m, name, o + j, q)
           /\ LabelStart(q) + len \in 0 .. Len(name)
           /\ Sames(m, name)[<<o + (j + len + 1), LabelStart(q) + len>>]
  <1> DEFINE p == o + j
             x == <<p, q>>
             same == Sames(m, name)
             r == LabelStart(q)
  <1>1. m \in Seq(Nat) /\ o \in Nat /\ o + Len(other) + 2 <= Len(m) /\ Len(m) \in Nat
    BY DEF Written
  <1>2. Len(name) \in Nat /\ Len(other) \in Nat
    BY NameIs
  <1>3. p \in 0 .. Len(m) /\ ~(p >= Len(m))
    BY <1>1, <1>2
  <1>4. x \in Pairs(m, name)
    BY <1>3 DEF Pairs
  <1> HIDE DEF p, same
  <1>5. SameStep(m, name, x, same)
    <2> HIDE DEF x
    <2> QED BY <1>1, <1>4, SamesDef DEF x, p, same
  <1>6. At(m, p) = len /\ len \in Nat /\ len # 0 /\ ~(len >= Pointer)
    <2>1. \A i \in 1 .. 63 : i \in Nat /\ i # 0 /\ ~(i >= 192)
      OBVIOUS
    <2> QED BY <2>1 DEF p, Pointer
  <1>7. SameLabel(m, name, p, q) /\ same[<<p + 1 + len, r + len>>]
    BY <1>3, <1>5, <1>6 DEF SameStep, SameLabel
  <1>8. r \in Nat /\ r + len <= Len(name)
    <2>1. r \in Nat
      BY <1>2 DEF LabelStart
    <2>2. r + At(m, p) <= Len(name)
      BY <1>7 DEF SameLabel
    <2> QED BY <1>6, <2>1, <2>2
  <1>9. r + len \in 0 .. Len(name)
    BY <1>2, <1>6, <1>8
  <1>10. p + 1 + len = o + (j + len + 1)
    BY <1>1 DEF p
  <1> QED BY <1>7, <1>9, <1>10 DEF p, same

(* A byte of a part of a sequence.                                         *)
LEMMA SubSeqAt ==
    ASSUME NEW s \in Seq(Nat), NEW a \in Nat, a >= 1, NEW b \in Nat, b <= Len(s),
           NEW i \in Nat, i >= 1, a + i - 1 <= b
    PROVE  SubSeq(s, a, b)[i] = s[a + i - 1]
  <1>1. Len(s) \in Nat
    OBVIOUS
  <1>2. ASSUME NEW e \in a .. b PROVE s[e] \in Nat
    <2>1. e \in 1 .. Len(s)
      BY <1>1
    <2> QED BY <2>1
  <1>3. i \in 1 .. b - a + 1 /\ a \in Int /\ b \in Int
    OBVIOUS
  <1>4. \A k \in a .. b : s[k] \in Nat
    BY <1>2
  <1>5. \A k \in 1 .. b - a + 1 : SubSeq(s, a, b)[k] = s[a + k - 1]
    BY ONLY <1>3, <1>4, SubSeqProperties
  <1> QED BY <1>3, <1>5

LEMMA OtherNames ==
    ASSUME NEW name \in Name, NEW other \in Name, NoEmptyLabel(other), NEW m, NEW o,
           Written(m, o, other), dns_name_compare(m, o, name)
    PROVE  name = other
  <1> DEFINE n == Len(other)
             same == Sames(m, name)
             S == {k \in Nat : \A j \in 0 .. n + 1 : \A q \in 0 .. Len(name) :
                      Place(other, j) /\ n + 1 - j <= k /\ same[<<o + j, q>>] =>
                          Remaining(name, q, other, j)}
  <1>1. n \in Nat /\ Len(name) \in Nat /\ o \in Nat
    BY NameIs DEF Written
  <1>2. m \in Seq(Nat) /\ o + n + 2 <= Len(m) /\ Len(m) \in Nat
    BY DEF Written
  <1>3. ASSUME NEW q \in 0 .. Len(name), same[<<o + (n + 1), q>>]
        PROVE  Remaining(name, q, other, n + 1)
    <2> DEFINE p == o + (n + 1)
               x == <<p, q>>
    <2>1. p = o + n + 1 /\ p \in 0 .. Len(m) /\ ~(p >= Len(m))
      BY <1>1, <1>2
    <2>2. At(m, p) = 0
      BY <2>1, EndOfQuestion
    <2>3. x \in Pairs(m, name)
      BY <2>1 DEF Pairs
    <2> HIDE DEF p
    <2>4. SameStep(m, name, x, same)
      <3> HIDE DEF x
      <3> QED BY <1>2, <1>3, <2>3, SamesDef DEF x, p
    <2>5. q = Len(name)
      BY <2>1, <2>2, <2>4 DEF SameStep
    <2> QED BY <1>1, <2>5 DEF Remaining
  <1> HIDE DEF same
  <1>4. 0 \in S
    <2> SUFFICES ASSUME NEW j \in 0 .. n + 1, NEW q \in 0 .. Len(name),
                        n + 1 - j <= 0, same[<<o + j, q>>]
                 PROVE  Remaining(name, q, other, j)
      OBVIOUS
    <2>1. j = n + 1
      BY <1>1
    <2> HIDE DEF n
    <2> QED BY <1>3, <2>1
  <1>5. ASSUME NEW k \in Nat, k \in S PROVE k + 1 \in S
    <2> SUFFICES ASSUME NEW j \in 0 .. n + 1, NEW q \in 0 .. Len(name),
                        Place(other, j), n + 1 - j <= k + 1, same[<<o + j, q>>]
                 PROVE  Remaining(name, q, other, j)
      OBVIOUS
    <2>1. CASE j = n + 1
      <3> HIDE DEF n
      <3> QED BY <1>3, <2>1
    <2>2. CASE j # n + 1
      <3> DEFINE len == At(m, o + j)
                 next == j + len + 1
                 r == LabelStart(q)
                 t == r + len
      <3>1. j \in 0 .. n /\ Begins(other, j)
        BY <2>2 DEF Place
      <3>2. /\ len \in 1 .. 63
            /\ j + len <= n
            /\ j + len < n => other[j + len + 1] = Dot
            /\ \A i \in j + 1 .. j + len : At(m, o + i) = other[i]
        BY <3>1, LabelInQuestion
      <3>3. /\ SameLabel(m, name, o + j, q)
            /\ t \in 0 .. Len(name)
            /\ same[<<o + next, t>>]
        <4> HIDE DEF len
        <4> QED BY <3>1, <3>2, NextLabelSame DEF same, len
      <3> HIDE DEF len
      <3>4. next \in 0 .. n + 1 /\ Place(other, next) /\ n + 1 - next <= k
        <4>1. len \in Nat /\ len >= 1 /\ j \in Nat /\ n \in Nat
          <5>1. len \in 1 .. 63
            BY <3>2
          <5>2. len \in Nat /\ len >= 1
            BY <5>1
          <5> QED BY <1>1, <5>2
        <4>2. next \in 0 .. n + 1 /\ n + 1 - next <= k
          BY <3>2, <4>1
        <4>3. next = n + 1 \/ (next \in 0 .. n /\ other[next] = Dot)
          BY <3>2, <4>1
        <4> QED BY <4>2, <4>3 DEF Place, Begins
      <3>5. Remaining(name, t, other, next)
        <4> HIDE DEF next, t
        <4> QED BY <1>5, <3>3, <3>4
      <3>6. /\ r \in Nat /\ r = LabelStart(q) /\ len \in Nat /\ len >= 1
            /\ j \in Nat /\ n \in Nat
        <4>1. r \in Nat
          BY <1>1 DEF LabelStart
        <4>2. len \in 1 .. 63
          BY <3>2
        <4>3. len \in Nat /\ len >= 1
          BY <4>2
        <4> QED BY <1>1, <4>1, <4>3
      <3>7. /\ q # 0 => q < Len(name) /\ name[q + 1] = Dot
            /\ r + len <= Len(name)
            /\ SubSeq(m, (o + j) + 2, (o + j) + 1 + len) = SubSeq(name, r + 1, r + len)
        BY <3>3 DEF SameLabel, len
      <3>8. ASSUME NEW i \in 1 .. len PROVE name[r + i] = other[j + i]
        <4> DEFINE u == SubSeq(m, (o + j) + 2, (o + j) + 1 + len)
                   v == SubSeq(name, r + 1, r + len)
                   from == (o + j) + 2
                   to == (o + j) + 1 + len
        <4>1. i \in Nat /\ i >= 1 /\ i <= len
          BY <3>6
        <4>2. from \in Nat /\ from >= 1 /\ to \in Nat /\ to <= Len(m) /\ from + i - 1 <= to
          <5>1. j + len <= n
            BY <3>2
          <5>2. o \in Nat /\ Len(m) \in Nat /\ o + n + 2 <= Len(m)
            BY <1>1, <1>2
          <5> HIDE DEF n
          <5> QED BY <3>6, <4>1, <5>1, <5>2
        <4>3. r + 1 \in Nat /\ r + 1 >= 1 /\ r + len \in Nat /\ r + len <= Len(name)
              /\ (r + 1) + i - 1 <= r + len
          <5>1. r + len <= Len(name)
            BY <3>7
          <5>2. r \in Nat /\ len \in Nat /\ Len(name) \in Nat
            BY <1>1, <3>6
          <5> HIDE DEF r
          <5> QED BY <4>1, <5>1, <5>2
        <4>4. u[i] = m[((o + j) + 2) + i - 1]
          <5> HIDE DEF from, to
          <5>1. SubSeq(m, from, to)[i] = m[from + i - 1]
            BY <1>2, <4>1, <4>2, SubSeqAt
          <5> QED BY <5>1 DEF from, to
        <4>5. v[i] = name[(r + 1) + i - 1]
          <5> DEFINE a == r + 1
                     b == r + len
          <5>1. name \in Seq(Nat) /\ a \in Nat /\ a >= 1 /\ b \in Nat /\ b <= Len(name)
                /\ a + i - 1 <= b
            BY <4>3, NameSeq
          <5> HIDE DEF a, b
          <5>2. SubSeq(name, a, b)[i] = name[a + i - 1]
            BY <4>1, <5>1, SubSeqAt
          <5> QED BY <5>2 DEF a, b
        <4>6. u = v
          BY <3>7
        <4> HIDE DEF u, v
        <4>7. ((o + j) + 2) + i - 1 = (o + (j + i)) + 1 /\ (r + 1) + i - 1 = r + i
              /\ j + i \in j + 1 .. j + len
          BY <1>1, <3>1, <3>6
        <4>8. At(m, o + (j + i)) = other[j + i]
          BY <3>2, <4>7
        <4> QED BY <4>4, <4>5, <4>6, <4>7, <4>8 DEF At
      <3> HIDE DEF r
      <3>9. t = r + len /\ t # 0 /\ next = j + len + 1 /\ t \in Nat
        BY <3>6
      <3> HIDE DEF t, next
      <3>9a. /\ Len(name) - r = n - j
             /\ q # 0 => name[q + 1] = Dot
             /\ \A i \in 1 .. n - j : name[r + i] = other[j + i]
             => Remaining(name, q, other, j)
        BY <2>2, <3>6 DEF Remaining
      <3>10. CASE next = n + 1
        <4>1. t = Len(name)
          BY <3>5, <3>10 DEF Remaining
        <4>2. Len(name) - r = n - j /\ n - j = len
          <5> HIDE DEF n
          <5> QED BY <1>1, <3>6, <3>9, <3>10, <4>1
        <4>3. \A i \in 1 .. n - j : name[r + i] = other[j + i]
          BY <3>8, <4>2
        <4> QED BY <3>9a, <3>7, <4>2, <4>3
      <3>11. CASE next # n + 1
        <4> DEFINE rest == LabelStart(t)
        <4>1. rest = r + len + 1 /\ t + 1 = rest /\ next <= n
          BY <1>1, <3>1, <3>4, <3>6, <3>9, <3>11 DEF LabelStart
        <4>2. /\ Len(name) - rest = n - next
              /\ name[rest] = Dot
              /\ \A i \in 1 .. n - next : name[rest + i] = other[next + i]
          BY <3>5, <3>9, <4>1 DEF Remaining
        <4>3. other[next] = Dot
          <5>1. j + len < n
            <6> HIDE DEF n
            <6> QED BY <3>6, <3>9, <4>1
          <5> QED BY <3>2, <3>9, <5>1
        <4> HIDE DEF rest
        <4>4. Len(name) - r = n - j
          <5> DEFINE c == Len(name)
          <5> HIDE DEF n
          <5>1. c - (r + len + 1) = n - (j + len + 1)
            BY <3>9, <4>1, <4>2
          <5>2. c \in Nat /\ n \in Nat /\ r \in Nat /\ len \in Nat /\ j \in Nat
            BY <1>1, <3>6
          <5> HIDE DEF c
          <5>3. c - r = n - j
            BY <5>1, <5>2
          <5> QED BY <5>3 DEF c
        <4>5. ASSUME NEW i \in 1 .. n - j PROVE name[r + i] = other[j + i]
          <5>1. CASE i <= len
            <6>1. i \in 1 .. len
              BY <1>1, <3>1, <3>6, <5>1
            <6> QED BY <3>8, <6>1
          <5>2. CASE i = len + 1
            <6>1. r + i = rest /\ j + i = next
              BY <1>1, <3>1, <3>6, <3>9, <4>1, <5>2
            <6> QED BY <4>2, <4>3, <6>1
          <5>3. CASE i > len + 1
            <6> DEFINE d == i - len - 1
            <6>1. d \in 1 .. n - next /\ r + i = rest + d /\ j + i = next + d
              <7>1. i \in Nat /\ i <= n - j
                BY <3>6
              <7> HIDE DEF n
              <7> QED BY <3>6, <3>9, <4>1, <5>3, <7>1
            <6> HIDE DEF d
            <6> QED BY <4>2, <6>1
          <5>4. i \in Nat
            BY <3>6
          <5> QED BY <3>6, <5>1, <5>2, <5>3, <5>4
        <4> QED BY <3>7, <3>9a, <4>4, <4>5
      <3> QED BY <3>10, <3>11
    <2> QED BY <2>1, <2>2
  <1> HIDE DEF S
  <1>6. n + 1 \in S
    BY <1>1, <1>4, <1>5, Induction
  <1>7. same[<<o + 0, 0>>]
    <2>1. o + 0 = o
      BY <1>1
    <2> QED BY <2>1, CompareIs DEF same
  <1>8. Remaining(name, 0, other, 0)
    <2>1. 0 \in 0 .. n + 1 /\ Place(other, 0) /\ n + 1 - 0 <= n + 1 /\ 0 \in 0 .. Len(name)
      BY <1>1 DEF Place, Begins
    <2> QED BY <1>6, <1>7, <2>1 DEF S
  <1>9. Len(name) = n /\ \A i \in 1 .. n : name[i] = other[i]
    <2>1. /\ Len(name) - 0 = n - 0
          /\ \A i \in 1 .. n - 0 : name[0 + i] = other[0 + i]
      BY <1>1, <1>8 DEF Remaining, LabelStart
    <2>2. n - 0 = n /\ Len(name) - 0 = Len(name) /\ \A i \in 1 .. n : 0 + i = i
      BY <1>1
    <2> QED BY <2>1, <2>2
  <1> QED BY <1>9, SeqEqual DEF Name

(* A name with an empty label is not found where it is written: its first  *)
(* empty label is the end of what is written.                              *)
LEMMA EmptyLabelEnds ==
    ASSUME NEW name \in Name, NEW m, NEW o, Written(m, o, name),
           dns_name_compare(m, o, name)
    PROVE  NoEmptyLabel(name)
  <1> DEFINE n == Len(name)
             same == Sames(m, name)
             Empty(j) == Begins(name, j) /\ (j = n \/ name[j + 1] = Dot)
             S == {k \in Nat : \A j \in 0 .. n : \A q \in 0 .. n :
                      /\ Begins(name, j) /\ n - j <= k
                      /\ q + 1 <= j \/ q = 0
                      /\ \E e \in j .. n : Empty(e)
                      => ~same[<<o + j, q>>]}
  <1>1. n \in Nat /\ o \in Nat /\ n > 0
    BY NameIs, CompareIs DEF Written
  <1>2. m \in Seq(Nat) /\ o + n + 2 <= Len(m) /\ Len(m) \in Nat
    BY DEF Written
  <1>3. ASSUME NEW j \in 0 .. n, NEW q \in 0 .. n, Begins(name, j),
               q + 1 <= j \/ q = 0, NEW e \in j .. n, Empty(e), same[<<o + j, q>>],
               \A i \in 0 .. n : \A t \in 0 .. n :
                   /\ Begins(name, i) /\ i > j
                   /\ t + 1 <= i \/ t = 0
                   /\ \E d \in i .. n : Empty(d)
                   => ~same[<<o + i, t>>]
        PROVE  FALSE
    <2> DEFINE len == At(m, o + j)
               p == o + j
               x == <<p, q>>
               next == j + len + 1
               t == LabelStart(q) + len
    <2>1. /\ len \in 0 .. 63
          /\ j + len <= n
          /\ j + len < n => name[j + len + 1] = Dot
          /\ NoDot(name, j + 1, j + len)
      <3> HIDE DEF len, n, Empty
      <3> QED BY <1>3, LabelWritten DEF len, n
    <2> HIDE DEF len, same
    <2>2. len \in Nat /\ j \in Nat /\ q \in Nat /\ q < n /\ e \in Nat /\ e >= j /\ e <= n
      <3>1. len \in Nat /\ j \in Nat /\ q \in Nat /\ e \in Nat /\ e >= j /\ e <= n /\ j <= n
        BY <1>1, <2>1
      <3> HIDE DEF n, Empty
      <3> QED BY <1>1, <1>3, <3>1
    <2>3. CASE len = 0
      <3>1. p \in 0 .. Len(m) /\ ~(p >= Len(m))
        BY <1>1, <1>2
      <3>2. x \in Pairs(m, name)
        BY <3>1 DEF Pairs
      <3>3. SameStep(m, name, x, same)
        <4> HIDE DEF x, Empty, n
        <4> QED BY <1>2, <1>3, <3>2, SamesDef DEF same, x
      <3>4. At(m, p) = 0
        BY <2>3 DEF len
      <3> HIDE DEF p
      <3>5. q = n
        BY <3>1, <3>3, <3>4 DEF SameStep
      <3> QED BY <2>2, <3>5
    <2>4. CASE len # 0
      <3>1. len \in 1 .. 63
        <4>1. \A i \in 0 .. 63 : i # 0 => i \in 1 .. 63
          OBVIOUS
        <4> QED BY <2>1, <2>4, <4>1
      <3>2. /\ t \in 0 .. n /\ same[<<o + next, t>>]
        <4> HIDE DEF Empty
        <4> QED BY <1>3, <3>1, NextLabelSame DEF same, len
      <3>3. e > j + len
        <4> SUFFICES ASSUME ~(e > j + len) PROVE FALSE
          OBVIOUS
        <4>1. CASE e = j
          <5>1. j < n /\ j + 1 \in j + 1 .. j + len
            BY <1>1, <2>1, <2>2, <3>1
          <5>2. name[j + 1] # Dot
            BY <2>1, <5>1 DEF NoDot
          <5> QED BY <1>3, <2>2, <4>1, <5>1, <5>2
        <4>2. CASE e # j
          <5>1. e # 0 /\ e \in j + 1 .. j + len
            BY <2>2, <4>2
          <5>2. name[e] # Dot
            BY <2>1, <5>1 DEF NoDot
          <5> QED BY <1>3, <5>1, <5>2 DEF Begins
        <4> QED BY <4>1, <4>2
      <3> HIDE DEF Empty
      <3>4. next \in 0 .. n /\ e \in next .. n /\ next > j /\ j + len < n
        <4> HIDE DEF n
        <4> QED BY <1>1, <2>2, <3>3
      <3>5. Begins(name, next)
        BY <2>1, <3>4 DEF Begins
      <3>6. t + 1 <= next
        <4>1. LabelStart(q) <= j /\ LabelStart(q) \in Nat
          BY <1>3, <2>2 DEF LabelStart
        <4> HIDE DEF n
        <4> QED BY <2>2, <4>1
      <3> HIDE DEF next, t, n
      <3> QED BY <1>3, <3>2, <3>4, <3>5, <3>6
    <2> QED BY <2>3, <2>4
  <1> HIDE DEF Empty, same
  <1>4. 0 \in S
    <2> SUFFICES ASSUME NEW j \in 0 .. n, NEW q \in 0 .. n, Begins(name, j), n - j <= 0,
                        q + 1 <= j \/ q = 0, NEW e \in j .. n, Empty(e),
                        same[<<o + j, q>>]
                 PROVE  FALSE
      OBVIOUS
    <2>1. \A i \in 0 .. n : ~(i > j)
      BY <1>1
    <2> HIDE DEF n
    <2> QED BY <1>3, <2>1
  <1>5. ASSUME NEW k \in Nat, k \in S PROVE k + 1 \in S
    <2> SUFFICES ASSUME NEW j \in 0 .. n, NEW q \in 0 .. n, Begins(name, j),
                        n - j <= k + 1,
                        q + 1 <= j \/ q = 0, NEW e \in j .. n, Empty(e),
                        same[<<o + j, q>>]
                 PROVE  FALSE
      OBVIOUS
    <2>1. \A i \in 0 .. n : i > j => n - i <= k
      BY <1>1
    <2>2. \A i \in 0 .. n : \A t \in 0 .. n :
             /\ Begins(name, i) /\ i > j
             /\ t + 1 <= i \/ t = 0
             /\ \E d \in i .. n : Empty(d)
             => ~same[<<o + i, t>>]
      <3> HIDE DEF n
      <3> QED BY <1>5, <2>1
    <2> HIDE DEF n, S
    <2> QED BY <1>3, <2>2
  <1> HIDE DEF S
  <1>6. n \in S
    BY <1>1, <1>4, <1>5, Induction
  <1>7. same[<<o + 0, 0>>]
    <2>1. o + 0 = o
      BY <1>1
    <2> QED BY <2>1, CompareIs DEF same
  <1>8. ASSUME NEW e \in 0 .. n, Empty(e) PROVE FALSE
    <2>1. 0 \in 0 .. n /\ Begins(name, 0) /\ n - 0 <= n
      BY <1>1 DEF Begins
    <2> HIDE DEF n
    <2> QED BY <1>6, <1>7, <1>8, <2>1 DEF S
  <1>9. ASSUME NEW j \in 0 .. n, Begins(name, j)
        PROVE  j < n /\ name[j + 1] # Dot
    <2>1. ~(j = n \/ name[j + 1] = Dot)
      BY <1>8, <1>9 DEF Empty
    <2>2. j < n
      BY <1>1, <2>1
    <2> QED BY <2>1, <2>2
  <1> QED BY <1>9 DEF NoEmptyLabel, Begins

-----------------------------------------------------------------------------
(* What a server writes.                                                   *)

Record == [name : Name, type : 0 .. 255, rdata : Name]

(* A message begins with some bytes.                                       *)
Starts(m, s) ==
    /\ m \in Seq(Nat) /\ s \in Seq(Nat)
    /\ Len(s) <= Len(m)
    /\ \A k \in 1 .. Len(s) : m[k] = s[k]

LEMMA Joined ==
    ASSUME NEW s \in Seq(Nat), NEW t \in Seq(Nat)
    PROVE  /\ s \o t \in Seq(Nat)
           /\ Len(s \o t) = Len(s) + Len(t)
           /\ \A k \in 1 .. Len(s) : (s \o t)[k] = s[k]
           /\ \A k \in 1 .. Len(t) : (s \o t)[Len(s) + k] = t[k]
  <1> DEFINE u == s \o t
  <1>1. Len(s) \in Nat /\ Len(t) \in Nat
    OBVIOUS
  <1>2. /\ u \in Seq(Nat)
        /\ Len(u) = Len(s) + Len(t)
        /\ \A k \in 1 .. Len(s) + Len(t) :
              u[k] = IF k <= Len(s) THEN s[k] ELSE t[k - Len(s)]
    BY ConcatProperties
  <1> HIDE DEF u
  <1>3. ASSUME NEW k \in 1 .. Len(s) PROVE u[k] = s[k]
    BY <1>1, <1>2
  <1>4. ASSUME NEW k \in 1 .. Len(t) PROVE u[Len(s) + k] = t[k]
    <2>1. Len(s) + k \in 1 .. Len(s) + Len(t) /\ ~(Len(s) + k <= Len(s))
          /\ (Len(s) + k) - Len(s) = k
      BY <1>1
    <2> QED BY <1>2, <2>1
  <1> QED BY <1>2, <1>3, <1>4 DEF u

LEMMA StartsJoined ==
    ASSUME NEW m, NEW s \in Seq(Nat), NEW t \in Seq(Nat), Starts(m, s \o t)
    PROVE  /\ Starts(m, s)
           /\ Len(s) + Len(t) <= Len(m)
           /\ \A k \in 1 .. Len(t) : m[Len(s) + k] = t[k]
  <1> DEFINE u == s \o t
  <1>1. Len(s) \in Nat /\ Len(t) \in Nat
    OBVIOUS
  <1>2. /\ u \in Seq(Nat) /\ Len(u) = Len(s) + Len(t)
        /\ \A k \in 1 .. Len(s) : u[k] = s[k]
        /\ \A k \in 1 .. Len(t) : u[Len(s) + k] = t[k]
    BY Joined
  <1>3. Starts(m, u)
    OBVIOUS
  <1> HIDE DEF u
  <1>4. /\ m \in Seq(Nat) /\ Len(s) + Len(t) <= Len(m) /\ Len(m) \in Nat
        /\ \A k \in 1 .. Len(s) + Len(t) : m[k] = u[k]
    BY <1>2, <1>3 DEF Starts
  <1>5. ASSUME NEW k \in 1 .. Len(s) PROVE m[k] = s[k]
    <2>1. k \in 1 .. Len(s) + Len(t)
      BY <1>1
    <2> QED BY <1>2, <1>4, <2>1
  <1>6. ASSUME NEW k \in 1 .. Len(t) PROVE m[Len(s) + k] = t[k]
    <2>1. Len(s) + k \in 1 .. Len(s) + Len(t)
      BY <1>1
    <2> QED BY <1>2, <1>4, <2>1
  <1>7. Len(s) <= Len(m)
    BY <1>1, <1>4
  <1> QED BY <1>4, <1>5, <1>6, <1>7 DEF Starts

LEMMA StartsLonger ==
    ASSUME NEW m, NEW s, Starts(m, s), NEW t \in Seq(Nat)
    PROVE  Starts(m \o t, s)
  <1> DEFINE u == m \o t
  <1>1. /\ m \in Seq(Nat) /\ s \in Seq(Nat) /\ Len(s) <= Len(m)
        /\ \A k \in 1 .. Len(s) : m[k] = s[k]
    BY DEF Starts
  <1>2. Len(m) \in Nat /\ Len(s) \in Nat /\ Len(t) \in Nat
    BY <1>1
  <1>3. u \in Seq(Nat) /\ Len(u) = Len(m) + Len(t) /\ \A k \in 1 .. Len(m) : u[k] = m[k]
    BY <1>1, Joined
  <1> HIDE DEF u
  <1>4. Len(s) <= Len(u)
    BY <1>1, <1>2, <1>3
  <1>5. ASSUME NEW k \in 1 .. Len(s) PROVE u[k] = s[k]
    <2>1. k \in 1 .. Len(m)
      BY <1>1, <1>2
    <2> QED BY <1>1, <1>3, <2>1
  <1>6. Starts(u, s)
    BY <1>1, <1>3, <1>4, <1>5 DEF Starts
  <1> QED BY <1>6 DEF u

LEMMA StartsItself ==
    ASSUME NEW s \in Seq(Nat)
    PROVE  Starts(s, s)
  BY DEF Starts

LEMMA PlainIs ==
    ASSUME NEW name \in Name, LabelsFit(name), Len(name) + 2 <= PacketSize
    PROVE  Question(name, Plain(name))
  <1>1. 0 \in Nat /\ 0 < PacketSize
    BY DnsAssumption DEF HeaderSize
  <1>2. 0 + Len(name) + 2 <= PacketSize
    BY NameIs
  <1> QED BY <1>1, <1>2, MadeName DEF Plain

(* The bytes of a record after its name.                                   *)
Info(r) == <<0, r.type, 0, 1, 0, 0, 0, 0, 0, Len(r.rdata)>>

LEMMA InfoBytes ==
    ASSUME NEW r \in Record
    PROVE  /\ r.type \in Nat /\ r.rdata \in Seq(Nat) /\ Len(r.rdata) \in Nat
           /\ Info(r) \in Seq(Nat) /\ Len(Info(r)) = RrSize
           /\ Info(r)[1] = 0 /\ Info(r)[2] = r.type /\ Info(r)[3] = 0 /\ Info(r)[4] = 1
           /\ Info(r)[9] = 0 /\ Info(r)[10] = Len(r.rdata)
  <1> DEFINE type == r.type
             data == r.rdata
             len == Len(data)
  <1>1. type \in 0 .. 255 /\ data \in Name
    BY DEF Record
  <1> HIDE DEF type, data
  <1>2. type \in Nat
    BY <1>1, WideInterval
  <1>3. data \in Seq(Nat) /\ len \in Nat
    <2>1. \A i \in 1 .. Len(data) : data[i] \in Nat
      BY <1>1, NameIs
    <2>2. data \in Seq(0 .. 255)
      BY <1>1 DEF Name
    <2> DEFINE byte == 0 .. 255
    <2>3. data \in Seq(byte)
      BY <2>2
    <2> HIDE DEF byte
    <2> QED BY <2>1, <2>3
  <1> HIDE DEF len
  <1>4. Info(r) = <<0, type, 0, 1, 0, 0, 0, 0, 0, len>>
    BY DEF Info, type, len, data
  <1> QED BY <1>2, <1>3, <1>4 DEF RrSize, type, data, len

LEMMA RecordType ==
    ASSUME NEW r \in Record, NEW name, Question(r.name, Plain(r.name))
    PROVE  RecordBytes(r, name) \in Seq(Nat)
  <1> DEFINE head == IF r.name = name THEN <<Pointer, HeaderSize>> ELSE Plain(r.name)
  <1>1. head \in Seq(Nat)
    BY DEF Question, Pointer, HeaderSize
  <1>2. RecordBytes(r, name) = (head \o Info(r)) \o r.rdata
    BY DEF RecordBytes, Info
  <1> HIDE DEF head
  <1>3. head \o Info(r) \in Seq(Nat)
    BY <1>1, InfoBytes, Joined
  <1> QED BY <1>2, <1>3, InfoBytes, Joined

(* The type and class that a question asks for.                            *)
Kind == <<0, TypeA, 0, 1>>

(* The function of a message.                                              *)
Front(n, name, count) ==
    Header(n, 33152, count) \o Plain(name) \o Kind

MessageStep(n, name, records, i, g) ==
    IF i = 0 THEN Front(n, name, Len(records))
    ELSE g[i - 1] \o RecordBytes(records[i], name)

MessageSteps(n, name, records) ==
    CHOOSE g : g = [i \in 0 .. Len(records) |-> MessageStep(n, name, records, i, g)]

LEMMA MessageIs ==
    ASSUME NEW n, NEW name, NEW records, Len(records) \in Nat
    PROVE  LET g == MessageSteps(n, name, records)
           IN  /\ Message(n, name, records) = g[Len(records)]
               /\ \A i \in 0 .. Len(records) : g[i] = MessageStep(n, name, records, i, g)
  <1> DEFINE g == MessageSteps(n, name, records)
             top == Len(records)
             P(k, f) == f = [i \in 0 .. k |-> MessageStep(n, name, records, i, f)]
             S == {k \in Nat : \E f : P(k, f)}
  <1>1. 0 \in S
    <2>1. P(0, [i \in 0 .. 0 |-> Front(n, name, Len(records))])
      BY DEF MessageStep
    <2> QED BY <2>1
  <1>2. ASSUME NEW k \in Nat, k \in S PROVE k + 1 \in S
    <2>1. PICK f : P(k, f)
      BY <1>2
    <2> DEFINE h == [i \in 0 .. k + 1 |-> MessageStep(n, name, records, i, f)]
    <2>2. ASSUME NEW i \in 0 .. k + 1 PROVE h[i] = MessageStep(n, name, records, i, h)
      <3>1. CASE i = 0
        BY <3>1 DEF MessageStep
      <3>2. CASE i # 0
        <4>1. i - 1 \in 0 .. k /\ i - 1 \in 0 .. k + 1
          BY <3>2
        <4>2. f[i - 1] = MessageStep(n, name, records, i - 1, f)
          BY <2>1, <4>1
        <4>3. h[i - 1] = f[i - 1]
          BY <4>1, <4>2
        <4>4. h[i] = MessageStep(n, name, records, i, f)
          OBVIOUS
        <4> HIDE DEF h
        <4> QED BY <3>2, <4>3, <4>4 DEF MessageStep
      <3> QED BY <3>1, <3>2
    <2>3. h = [i \in 0 .. k + 1 |-> h[i]]
      OBVIOUS
    <2> HIDE DEF h
    <2>4. P(k + 1, h)
      BY <2>2, <2>3
    <2> HIDE DEF P
    <2> QED BY <2>4
  <1> HIDE DEF S
  <1>3. top \in S
    BY <1>1, <1>2, Induction
  <1>4. \E f : P(top, f)
    BY <1>3 DEF S
  <1>5. P(top, g)
    <2>1. g = CHOOSE f : P(top, f)
      BY DEF MessageSteps
    <2> HIDE DEF P, g
    <2> QED BY <1>4, <2>1
  <1> HIDE DEF g
  <1>6. \A i \in 0 .. Len(records) : g[i] = MessageStep(n, name, records, i, g)
    BY <1>5
  <1>7. Message(n, name, records) = g[Len(records)]
    BY DEF g, Message, MessageSteps, MessageStep, Front, Kind
  <1> QED BY <1>6, <1>7 DEF g

(* Records that can be written.                                            *)
Writable(records) ==
    /\ records \in Seq(Record)
    /\ \A i \in 1 .. Len(records) :
          Question(records[i].name, Plain(records[i].name)) /\ NoEmptyLabel(records[i].name)

LEMMA AnswersWritable ==
    ASSUME NEW records \in Answers
    PROVE  Writable(records)
  <1>1. records \in Seq(Record)
    BY AnswersAssumption DEF Record, Name
  <1>2. ASSUME NEW i \in 1 .. Len(records)
        PROVE  Question(records[i].name, Plain(records[i].name)) /\ NoEmptyLabel(records[i].name)
    <2> DEFINE other == records[i].name
    <2>1. other \in Name
      <3>1. records[i] \in Record
        BY <1>1
      <3> QED BY <3>1 DEF Record
    <2>2. LabelsFit(other) /\ NoEmptyLabel(other) /\ Len(other) + 2 <= PacketSize
      BY AnswersAssumption
    <2> HIDE DEF other
    <2> QED BY <2>1, <2>2, PlainIs DEF other
  <1> QED BY <1>1, <1>2 DEF Writable

(* Where the type and class follow.                                        *)
QuestionEnd(name) == HeaderSize + Len(name) + 2

LEMMA FrontBytes ==
    ASSUME NEW n \in Nat, NEW name \in Name, Question(name, Plain(name)), NEW count \in Nat
    PROVE  /\ Front(n, name, count) \in Seq(Nat)
           /\ Len(Front(n, name, count)) = HeaderSize + Len(name) + 2 + QdSize
           /\ \A k \in 1 .. HeaderSize :
                 Front(n, name, count)[k] = Header(n, 33152, count)[k]
           /\ \A k \in 1 .. Len(name) + 2 :
                 Front(n, name, count)[HeaderSize + k] = Plain(name)[k]
           /\ Front(n, name, count)[QuestionEnd(name) + 1] = 0
           /\ Front(n, name, count)[QuestionEnd(name) + 2] = TypeA
           /\ Front(n, name, count)[QuestionEnd(name) + 3] = 0
           /\ Front(n, name, count)[QuestionEnd(name) + 4] = 1
  <1> DEFINE front == Front(n, name, count)
             head == Header(n, 33152, count)
             b == Plain(name)
             tail == Kind
             half == head \o b
             len == Len(name)
  <1>1. head \in Seq(Nat) /\ Len(head) = HeaderSize
    <2>1. 33152 \in Nat
      OBVIOUS
    <2> HIDE DEF head
    <2> QED BY <2>1, HeaderType DEF head
  <1>2. b \in Seq(Nat) /\ Len(b) = len + 2
    BY DEF Question
  <1>3. tail \in Seq(Nat) /\ Len(tail) = 4
    BY DEF Kind, TypeA
  <1>4. front = half \o tail
    BY DEF Front
  <1> HIDE DEF front
  <1>5. len \in Nat /\ HeaderSize = 12 /\ QdSize = 4
    BY NameIs DEF HeaderSize, QdSize
  <1> HIDE DEF head, b, tail, len
  <1>6. /\ half \in Seq(Nat) /\ Len(half) = HeaderSize + (len + 2)
        /\ \A k \in 1 .. HeaderSize : half[k] = head[k]
        /\ \A k \in 1 .. len + 2 : half[HeaderSize + k] = b[k]
    <2>1. /\ half \in Seq(Nat) /\ Len(half) = Len(head) + Len(b)
          /\ \A k \in 1 .. Len(head) : half[k] = head[k]
          /\ \A k \in 1 .. Len(b) : half[Len(head) + k] = b[k]
      BY <1>1, <1>2, Joined
    <2> HIDE DEF half
    <2> QED BY <1>1, <1>2, <2>1
  <1> HIDE DEF half
  <1>7. /\ front \in Seq(Nat) /\ Len(front) = HeaderSize + (len + 2) + 4
        /\ \A k \in 1 .. HeaderSize + (len + 2) : front[k] = half[k]
        /\ \A k \in 1 .. 4 : front[HeaderSize + (len + 2) + k] = tail[k]
    <2>1. /\ front \in Seq(Nat) /\ Len(front) = Len(half) + Len(tail)
          /\ \A k \in 1 .. Len(half) : front[k] = half[k]
          /\ \A k \in 1 .. Len(tail) : front[Len(half) + k] = tail[k]
      <3>1. half \in Seq(Nat) /\ tail \in Seq(Nat)
        BY <1>3, <1>6
      <3>2. /\ half \o tail \in Seq(Nat) /\ Len(half \o tail) = Len(half) + Len(tail)
            /\ \A k \in 1 .. Len(half) : (half \o tail)[k] = half[k]
            /\ \A k \in 1 .. Len(tail) : (half \o tail)[Len(half) + k] = tail[k]
        BY <3>1, Joined
      <3> QED BY <1>4, <3>2
    <2> QED BY <1>3, <1>6, <2>1
  <1>8. HeaderSize + (len + 2) = HeaderSize + len + 2
    BY <1>5
  <1>9. ASSUME NEW k \in 1 .. HeaderSize PROVE front[k] = head[k]
    <2>1. k \in 1 .. HeaderSize + (len + 2)
      BY <1>5
    <2> QED BY <1>6, <1>7, <2>1
  <1>10. ASSUME NEW k \in 1 .. len + 2 PROVE front[HeaderSize + k] = b[k]
    <2>1. HeaderSize + k \in 1 .. HeaderSize + (len + 2)
      BY <1>5
    <2> QED BY <1>6, <1>7, <2>1
  <1>11. /\ front[HeaderSize + len + 2 + 1] = 0
         /\ front[HeaderSize + len + 2 + 2] = TypeA
         /\ front[HeaderSize + len + 2 + 3] = 0
         /\ front[HeaderSize + len + 2 + 4] = 1
    <2>1. \A k \in 1 .. 4 : front[HeaderSize + len + 2 + k] = tail[k]
      BY <1>7, <1>8
    <2>2. tail[1] = 0 /\ tail[2] = TypeA /\ tail[3] = 0 /\ tail[4] = 1
      BY DEF tail, Kind
    <2> QED BY <2>1, <2>2
  <1>12. Len(front) = HeaderSize + len + 2 + QdSize
    BY <1>5, <1>7
  <1> QED BY <1>7, <1>9, <1>10, <1>11, <1>12 DEF front, head, b, tail, len, QuestionEnd

(* The first record comes after the front, whatever follows.               *)
LEMMA MessageStarts ==
    ASSUME NEW n \in Nat, NEW name \in Name, Question(name, Plain(name)),
           NEW records, Writable(records),
           NEW m, m = Message(n, name, records),
           NEW front, front = Front(n, name, Len(records))
    PROVE  /\ Starts(m, front)
           /\ Len(records) > 0 => Starts(m, front \o RecordBytes(records[1], name))
  <1> DEFINE top == Len(records)
             g == MessageSteps(n, name, records)
             first == front \o RecordBytes(records[1], name)
             S == {k \in Nat : k <= top =>
                      Starts(g[k], front) /\ (k > 0 => Starts(g[k], first))}
  <1>1. records \in Seq(Record) /\ top \in Nat
    BY DEF Writable
  <1>2. /\ m = g[top]
        /\ g[0] = front
        /\ \A i \in 1 .. top : g[i] = g[i - 1] \o RecordBytes(records[i], name)
    <2> HIDE DEF g
    <2>2. Len(records) \in Nat
      BY <1>1
    <2>3. /\ Message(n, name, records) = g[Len(records)]
          /\ \A i \in 0 .. Len(records) : g[i] = MessageStep(n, name, records, i, g)
      BY <2>2, MessageIs DEF g
    <2>4. g[0] = front
      BY <2>2, <2>3 DEF MessageStep
    <2>5. ASSUME NEW i \in 1 .. top PROVE g[i] = g[i - 1] \o RecordBytes(records[i], name)
      <3>1. i \in 0 .. Len(records) /\ i # 0
        BY <2>2
      <3>2. g[i] = MessageStep(n, name, records, i, g)
        BY <2>3, <3>1
      <3> QED BY <3>1, <3>2 DEF MessageStep
    <2> QED BY <2>3, <2>4, <2>5
  <1>3. front \in Seq(Nat)
    BY <1>1, FrontBytes
  <1>4. \A i \in 1 .. top : RecordBytes(records[i], name) \in Seq(Nat)
    BY <1>1, RecordType DEF Writable
  <1> HIDE DEF g, first
  <1>5. 0 \in S
    BY <1>2, <1>3, StartsItself
  <1>6. ASSUME NEW k \in Nat, k \in S PROVE k + 1 \in S
    <2> SUFFICES ASSUME k + 1 <= top
                 PROVE  Starts(g[k + 1], front) /\ Starts(g[k + 1], first)
      OBVIOUS
    <2> DEFINE t == RecordBytes(records[k + 1], name)
    <2>1. k + 1 \in 1 .. top /\ (k + 1) - 1 = k /\ k <= top
      BY <1>1
    <2>2. g[k + 1] = g[k] \o t /\ t \in Seq(Nat)
      BY <1>2, <1>4, <2>1
    <2>3. Starts(g[k], front) /\ (k > 0 => Starts(g[k], first))
      BY <1>6, <2>1
    <2> HIDE DEF t
    <2>4. Starts(g[k + 1], front)
      BY <2>2, <2>3, StartsLonger
    <2>5. CASE k > 0
      BY <2>2, <2>3, <2>4, <2>5, StartsLonger
    <2>6. CASE k = 0
      <3>1. g[k + 1] = first
        <4>1. k + 1 = 1 /\ g[k] = front
          BY <1>2, <2>6
        <4>2. t = RecordBytes(records[1], name)
          BY <4>1 DEF t
        <4> QED BY <2>2, <4>1, <4>2 DEF first
      <3>2. first \in Seq(Nat)
        BY <1>3, <2>2, <2>6, Joined DEF first, t
      <3> QED BY <2>4, <3>1, <3>2, StartsItself
    <2> QED BY <2>5, <2>6
  <1> HIDE DEF S
  <1>7. top \in S
    BY <1>1, <1>5, <1>6, Induction
  <1> QED BY <1>1, <1>2, <1>7 DEF S, first

LEMMA QuestionAnswered ==
    ASSUME NEW n \in Nat, NEW name \in Name, Question(name, Plain(name)),
           NEW records, Writable(records),
           NEW m, m = Message(n, name, records)
    PROVE  /\ Written(m, HeaderSize, name)
           /\ HeaderSize + Len(name) + 2 + QdSize <= Len(m)
           /\ At(m, 0) = (n \div IdBase) % IdBase /\ At(m, 1) = n % IdBase
           /\ At(m, 2) = 129 /\ At(m, 3) = 128 /\ Word(m, 4) = 1
           /\ Word(m, 6) = Len(records)
           /\ Word(m, HeaderSize + Len(name) + 2) = TypeA
           /\ Word(m, HeaderSize + Len(name) + 4) = 1
  <1> DEFINE front == Front(n, name, Len(records))
             len == Len(name)
             b == Plain(name)
             end == HeaderSize + len + 2
  <1>1. Len(records) \in Nat
    BY DEF Writable
  <1>2. len \in Nat /\ HeaderSize = 12 /\ QdSize = 4 /\ HeaderSize \in Nat
    BY NameIs DEF HeaderSize, QdSize
  <1>3. Starts(m, front)
    BY MessageStarts
  <1>4. /\ front \in Seq(Nat)
        /\ Len(front) = end + QdSize
        /\ \A k \in 1 .. HeaderSize : front[k] = Header(n, 33152, Len(records))[k]
        /\ \A k \in 1 .. len + 2 : front[HeaderSize + k] = b[k]
        /\ front[end + 1] = 0 /\ front[end + 2] = TypeA
        /\ front[end + 3] = 0 /\ front[end + 4] = 1
    <2>1. front \in Seq(Nat) /\ Len(front) = end + QdSize
      BY <1>1, FrontBytes
    <2>2. \A k \in 1 .. HeaderSize : front[k] = Header(n, 33152, Len(records))[k]
      BY <1>1, FrontBytes
    <2>3. \A k \in 1 .. len + 2 : front[HeaderSize + k] = b[k]
      BY <1>1, FrontBytes
    <2>4. /\ front[QuestionEnd(name) + 1] = 0 /\ front[QuestionEnd(name) + 2] = TypeA
          /\ front[QuestionEnd(name) + 3] = 0 /\ front[QuestionEnd(name) + 4] = 1
      BY <1>1, FrontBytes
    <2>5. end = QuestionEnd(name)
      BY DEF QuestionEnd
    <2> HIDE DEF end, front
    <2> QED BY <2>1, <2>2, <2>3, <2>4, <2>5
  <1> HIDE DEF front, len, b
  <1>5. /\ m \in Seq(Nat) /\ Len(m) \in Nat /\ end + QdSize <= Len(m)
        /\ \A k \in 1 .. end + QdSize : m[k] = front[k]
    BY <1>3, <1>4 DEF Starts
  <1>6. /\ At(m, 0) = (n \div IdBase) % IdBase /\ At(m, 1) = n % IdBase
        /\ At(m, 2) = 129 /\ At(m, 3) = 128 /\ Word(m, 4) = 1
        /\ Word(m, 6) = Len(records)
    <2> DEFINE head == Header(n, 33152, Len(records))
               count == Len(records)
    <2>1. ASSUME NEW k \in 1 .. 12 PROVE m[k] = head[k]
      <3>1. k \in 1 .. HeaderSize /\ k \in 1 .. end + QdSize
        BY <1>2
      <3> QED BY <1>4, <1>5, <3>1
    <2>2. /\ head[1] = (n \div IdBase) % IdBase /\ head[2] = n % IdBase
          /\ head[3] = 33152 \div 256 /\ head[4] = 33152 % 256
          /\ head[5] = 0 /\ head[6] = 1 /\ head[7] = 0 /\ head[8] = count
      BY HeaderBytes
    <2> HIDE DEF head
    <2>3. /\ 1 \in 1 .. 12 /\ 2 \in 1 .. 12 /\ 3 \in 1 .. 12 /\ 4 \in 1 .. 12
          /\ 5 \in 1 .. 12 /\ 6 \in 1 .. 12 /\ 7 \in 1 .. 12 /\ 8 \in 1 .. 12
      OBVIOUS
    <2>4. /\ m[1] = head[1] /\ m[2] = head[2] /\ m[3] = head[3] /\ m[4] = head[4]
          /\ m[5] = head[5] /\ m[6] = head[6] /\ m[7] = head[7] /\ m[8] = head[8]
      BY <2>1, <2>3
    <2>5. /\ At(m, 0) = m[1] /\ At(m, 1) = m[2] /\ At(m, 2) = m[3] /\ At(m, 3) = m[4]
          /\ At(m, 4) = m[5] /\ At(m, 4 + 1) = m[6] /\ At(m, 6) = m[7] /\ At(m, 6 + 1) = m[8]
      BY DEF At
    <2>6. count \in Nat
      BY <1>1
    <2> HIDE DEF count
    <2>7. Word(m, 6) = count
      BY <2>2, <2>4, <2>5, <2>6 DEF Word
    <2>8. At(m, 0) = (n \div IdBase) % IdBase /\ At(m, 1) = n % IdBase
      BY <2>2, <2>4, <2>5
    <2>9. At(m, 2) = 129 /\ At(m, 3) = 128
      <3>1. 33152 \div 256 = 129 /\ 33152 % 256 = 128
        OBVIOUS
      <3> QED BY <2>2, <2>4, <2>5, <3>1
    <2>10. Word(m, 4) = 1
      BY <2>2, <2>4, <2>5 DEF Word
    <2> QED BY <2>7, <2>8, <2>9, <2>10 DEF count
  <1>7. ASSUME NEW k \in 1 .. len + 2 PROVE At(m, HeaderSize + k - 1) = b[k]
    <2>1. HeaderSize + k \in 1 .. end + QdSize /\ (HeaderSize + k - 1) + 1 = HeaderSize + k
      BY <1>2
    <2> QED BY <1>4, <1>5, <2>1 DEF At
  <1>8. Written(m, HeaderSize, name)
    <2>1. end <= Len(m)
      BY <1>2, <1>5
    <2> QED BY <1>2, <1>5, <1>7, <2>1 DEF Written, len, b
  <1>9. ASSUME NEW k \in 1 .. 4 PROVE m[end + k] = front[end + k]
    <2>1. end + k \in 1 .. end + QdSize
      BY <1>2
    <2> QED BY <1>5, <2>1
  <1>10. m[end + 1] = 0 /\ m[end + 2] = 1 /\ m[end + 3] = 0 /\ m[end + 4] = 1
    <2>1. 1 \in 1 .. 4 /\ 2 \in 1 .. 4 /\ 3 \in 1 .. 4 /\ 4 \in 1 .. 4
      OBVIOUS
    <2> QED BY <1>4, <1>9, <2>1 DEF TypeA
  <1>11. /\ (end + 1) + 1 = end + 2 /\ HeaderSize + len + 4 = end + 2
         /\ (end + 2) + 1 = end + 3 /\ (end + 3) + 1 = end + 4
    BY <1>2
  <1> HIDE DEF end
  <1>12. Word(m, end) = TypeA /\ Word(m, end + 2) = 1
    <2>1. At(m, end) = 0 /\ At(m, end + 1) = 1 /\ At(m, end + 2) = 0
          /\ At(m, (end + 2) + 1) = 1
      BY <1>10, <1>11 DEF At
    <2> QED BY <2>1 DEF Word, TypeA
  <1>13. end + QdSize <= Len(m)
    BY <1>5
  <1> QED BY <1>6, <1>8, <1>11, <1>12, <1>13 DEF end, len

(* What the parser sees of a record.                                       *)
LEMMA RecordAt ==
    ASSUME NEW front \in Seq(Nat), NEW name \in Name, NEW r \in Record,
           Question(r.name, Plain(r.name)), NoEmptyLabel(r.name),
           NEW m, Starts(m, front \o RecordBytes(r, name)),
           NEW o, o = Len(front), NEW info, info = NameEnd(m, o)
    PROVE  /\ info \in Nat /\ info > o
           /\ info + RrSize + Len(r.rdata) <= Len(m)
           /\ At(m, info) = 0
           /\ Word(m, info) = r.type
           /\ Word(m, info + 2) = 1
           /\ Word(m, info + 8) = Len(r.rdata)
           /\ \A k \in 1 .. Len(r.rdata) : m[info + RrSize + k] = r.rdata[k]
           /\ dns_name_compare(m, o, name) => r.name = name
           /\ r.name = name => At(m, o) = Pointer /\ At(m, o + 1) = HeaderSize
  <1> DEFINE same == r.name = name
             head == IF same THEN <<Pointer, HeaderSize>> ELSE Plain(r.name)
             data == r.rdata
             i == Info(r)
             bytes == RecordBytes(r, name)
             h == Len(head)
  <1>1. /\ i \in Seq(Nat) /\ Len(i) = RrSize
        /\ i[1] = 0 /\ i[2] = r.type /\ i[3] = 0 /\ i[4] = 1
        /\ i[9] = 0 /\ i[10] = Len(data)
        /\ data \in Seq(Nat) /\ r.type \in Nat
    BY InfoBytes
  <1>2. head \in Seq(Nat) /\ h \in Nat
    BY DEF Question, Pointer, HeaderSize
  <1>3. bytes = (head \o i) \o data
    BY DEF RecordBytes, Info
  <1>4. r.name \in Name
    BY DEF Record
  <1>5. RrSize = 10
    BY DEF RrSize
  <1> HIDE DEF i, data, bytes, h, head
  <1>6. /\ head \o i \in Seq(Nat) /\ Len(head \o i) = h + RrSize
        /\ \A k \in 1 .. h : (head \o i)[k] = head[k]
        /\ \A k \in 1 .. RrSize : (head \o i)[h + k] = i[k]
    BY <1>1, <1>2, Joined DEF h
  <1> DEFINE hi == head \o i
  <1> HIDE DEF hi
  <1>7. /\ bytes \in Seq(Nat) /\ Len(bytes) = (h + RrSize) + Len(data)
        /\ \A k \in 1 .. h + RrSize : bytes[k] = hi[k]
        /\ \A k \in 1 .. Len(data) : bytes[(h + RrSize) + k] = data[k]
    <2>1. hi \in Seq(Nat) /\ Len(hi) = h + RrSize
      BY <1>6 DEF hi
    <2>2. bytes = hi \o data
      BY <1>3 DEF hi
    <2>3. /\ hi \o data \in Seq(Nat) /\ Len(hi \o data) = Len(hi) + Len(data)
          /\ \A k \in 1 .. Len(hi) : (hi \o data)[k] = hi[k]
          /\ \A k \in 1 .. Len(data) : (hi \o data)[Len(hi) + k] = data[k]
      BY <1>1, <2>1, Joined
    <2> QED BY <2>1, <2>2, <2>3
  <1>8. /\ o + Len(bytes) <= Len(m)
        /\ \A k \in 1 .. Len(bytes) : m[o + k] = bytes[k]
        /\ m \in Seq(Nat) /\ Len(m) \in Nat
    <2>1. Starts(m, front \o bytes)
      BY DEF bytes
    <2>2. Starts(m, front) /\ Len(front) + Len(bytes) <= Len(m)
          /\ \A k \in 1 .. Len(bytes) : m[Len(front) + k] = bytes[k]
      BY <1>7, <2>1, StartsJoined
    <2> QED BY <2>2 DEF Starts
  <1>9. o \in Nat /\ Len(data) \in Nat
    BY <1>1
  <1>10. ASSUME NEW k \in 1 .. h PROVE m[o + k] = head[k]
    <2>1. k \in 1 .. Len(bytes) /\ k \in 1 .. h + RrSize
      BY <1>2, <1>5, <1>7, <1>9
    <2> QED BY <1>6, <1>7, <1>8, <2>1 DEF hi
  <1>11. ASSUME NEW k \in 1 .. RrSize PROVE m[(o + h) + k] = i[k]
    <2>1. h + k \in 1 .. Len(bytes) /\ h + k \in 1 .. h + RrSize /\ (o + h) + k = o + (h + k)
      BY <1>2, <1>5, <1>7, <1>9
    <2> QED BY <1>6, <1>7, <1>8, <2>1 DEF hi
  <1>12. ASSUME NEW k \in 1 .. Len(data) PROVE m[(o + h) + RrSize + k] = data[k]
    <2>1. (h + RrSize) + k \in 1 .. Len(bytes)
          /\ (o + h) + RrSize + k = o + ((h + RrSize) + k)
      BY <1>2, <1>5, <1>7, <1>9
    <2> QED BY <1>7, <1>8, <2>1
  <1>13. (o + h) + RrSize + Len(data) <= Len(m)
    BY <1>2, <1>5, <1>7, <1>8, <1>9
  <1>14. ASSUME same
         PROVE  /\ o + h = NameEnd(m, o) /\ h > 0
                /\ At(m, o) = Pointer /\ At(m, o + 1) = HeaderSize
    <2>1. head = <<Pointer, HeaderSize>> /\ h = 2
      BY <1>14 DEF head, h
    <2>2. m[o + 1] = Pointer /\ m[o + 2] = HeaderSize
      BY <1>10, <2>1
    <2>3. At(m, o) = Pointer /\ At(m, o + 1) = HeaderSize
      <3>1. (o + 1) + 1 = o + 2
        BY <1>9
      <3> QED BY <2>2, <3>1 DEF At
    <2>4. o \in 0 .. Len(m) /\ ~(o >= Len(m)) /\ ~(o + 2 > Len(m))
      BY <1>5, <1>9, <1>8, <1>13, <2>1
    <2>5. EndStep(m, o, Ends(m)) = o + 2
      <3>1. Pointer >= Pointer /\ Pointer # 0
        BY DEF Pointer
      <3> QED BY <2>3, <2>4, <3>1 DEF EndStep
    <2>6. NameEnd(m, o) = o + 2
      BY <1>8, <2>4, <2>5, EndsDef
    <2> QED BY <2>1, <2>3, <2>6
  <1>15. ASSUME ~same
         PROVE  o + h = NameEnd(m, o) /\ h > 0 /\ ~dns_name_compare(m, o, name)
    <2>1. head = Plain(r.name) /\ h = Len(r.name) + 2
      BY <1>15 DEF head, h, Question
    <2>2. Len(r.name) \in Nat
      BY <1>4, NameIs
    <2>3. Written(m, o, r.name)
      <3>1. o + Len(r.name) + 2 <= Len(m)
        BY <1>5, <1>8, <1>9, <1>13, <2>1, <2>2
      <3>2. ASSUME NEW k \in 1 .. Len(r.name) + 2 PROVE At(m, o + k - 1) = Plain(r.name)[k]
        <4>1. (o + k - 1) + 1 = o + k
          BY <1>9, <2>2
        <4> QED BY <1>10, <2>1, <4>1 DEF At
      <3> QED BY <1>8, <1>9, <3>1, <3>2 DEF Written
    <2>4. NameEnd(m, o) = o + Len(r.name) + 2
      BY <1>4, <2>3, QuestionEnds
    <2>5. ~dns_name_compare(m, o, name)
      BY <1>4, <1>15, <2>3, OtherNames
    <2>6. o + h = NameEnd(m, o) /\ h > 0
      BY <1>9, <2>1, <2>2, <2>4
    <2> QED BY <2>5, <2>6
  <1>16. /\ info = o + h /\ h > 0
         /\ dns_name_compare(m, o, name) => same
         /\ same => At(m, o) = Pointer /\ At(m, o + 1) = HeaderSize
    BY <1>14, <1>15
  <1>17. info \in Nat /\ info > o /\ info + RrSize + Len(data) <= Len(m)
    BY <1>2, <1>9, <1>13, <1>16
  <1>18. /\ m[info + 1] = 0 /\ m[info + 2] = r.type /\ m[info + 3] = 0
         /\ m[info + 4] = 1 /\ m[info + 9] = 0 /\ m[info + 10] = Len(data)
    <2>1. \A k \in 1 .. 10 : m[info + k] = i[k]
      BY <1>5, <1>11, <1>16
    <2>2. 1 \in 1 .. 10 /\ 2 \in 1 .. 10 /\ 3 \in 1 .. 10 /\ 4 \in 1 .. 10
          /\ 9 \in 1 .. 10 /\ 10 \in 1 .. 10
      OBVIOUS
    <2> QED BY <1>1, <2>1, <2>2
  <1>19. /\ At(m, info) = 0 /\ At(m, info + 1) = r.type
         /\ At(m, info + 2) = 0 /\ At(m, (info + 2) + 1) = 1
         /\ At(m, info + 8) = 0 /\ At(m, (info + 8) + 1) = Len(data)
    <2>1. /\ (info + 1) + 1 = info + 2 /\ (info + 2) + 1 = info + 3
          /\ (info + 3) + 1 = info + 4 /\ (info + 8) + 1 = info + 9
          /\ (info + 9) + 1 = info + 10
      BY <1>17
    <2> QED BY <1>18, <2>1 DEF At
  <1>20. Word(m, info) = r.type /\ Word(m, info + 2) = 1 /\ Word(m, info + 8) = Len(data)
    <2> DEFINE t == r.type
               u == Len(data)
    <2>1. t \in Nat /\ u \in Nat /\ At(m, info + 1) = t /\ At(m, (info + 8) + 1) = u
      BY <1>1, <1>9, <1>19
    <2> HIDE DEF t, u
    <2>2. Word(m, info) = t /\ Word(m, info + 2) = 1 /\ Word(m, info + 8) = u
      BY <1>19, <2>1 DEF Word
    <2> QED BY <2>2 DEF t, u
  <1>21. \A k \in 1 .. Len(data) : m[info + RrSize + k] = data[k]
    BY <1>12, <1>16
  <1> QED BY <1>16, <1>17, <1>19, <1>20, <1>21 DEF same, data
-----------------------------------------------------------------------------
(* The records of an answer, one after the other.                          *)

ScanStep(m, first, name, k, g) ==
    IF k = 0 THEN [rc |-> -2, offset |-> first]
    ELSE IF g[k - 1].rc # -2 THEN g[k - 1]
    ELSE dns_get_answer(m, g[k - 1].offset, name)

Scans(m, first, name) ==
    CHOOSE g : g = [k \in 0 .. Word(m, 6) |-> ScanStep(m, first, name, k, g)]

LEMMA ReadIs ==
    ASSUME NEW m, NEW n, NEW name, NEW first, first = dns_verify_response(m, n, name),
           NEW found, found = Scans(m, first, name)[Word(m, 6)].rc
    PROVE  ReadAnswer(m, n, name) =
               IF first < 0 \/ found < 0 THEN Failed
               ELSE [ok |-> TRUE, ip |-> SubSeq(m, found + 1, found + 4)]
  BY DEF ReadAnswer, Scans, ScanStep

LEMMA ScansDef ==
    ASSUME NEW m, NEW first, NEW name, Word(m, 6) \in Nat
    PROVE  \A k \in 0 .. Word(m, 6) :
               Scans(m, first, name)[k] = ScanStep(m, first, name, k, Scans(m, first, name))
  <1> DEFINE g == Scans(m, first, name)
             top == Word(m, 6)
             P(k, f) == f = [i \in 0 .. k |-> ScanStep(m, first, name, i, f)]
             S == {k \in Nat : \E f : P(k, f)}
  <1>1. 0 \in S
    <2>1. P(0, [i \in 0 .. 0 |-> [rc |-> -2, offset |-> first]])
      BY DEF ScanStep
    <2> QED BY <2>1
  <1>2. ASSUME NEW k \in Nat, k \in S PROVE k + 1 \in S
    <2>1. PICK f : P(k, f)
      BY <1>2
    <2> DEFINE h == [i \in 0 .. k + 1 |-> ScanStep(m, first, name, i, f)]
    <2>2. ASSUME NEW i \in 0 .. k + 1 PROVE h[i] = ScanStep(m, first, name, i, h)
      <3>1. CASE i = 0
        BY <3>1 DEF ScanStep
      <3>2. CASE i # 0
        <4>1. i - 1 \in 0 .. k /\ i - 1 \in 0 .. k + 1
          BY <3>2
        <4>2. f[i - 1] = ScanStep(m, first, name, i - 1, f)
          BY <2>1, <4>1
        <4>3. h[i - 1] = f[i - 1]
          BY <4>1, <4>2
        <4>4. h[i] = ScanStep(m, first, name, i, f)
          OBVIOUS
        <4> HIDE DEF h
        <4> QED BY <3>2, <4>3, <4>4 DEF ScanStep
      <3> QED BY <3>1, <3>2
    <2>3. h = [i \in 0 .. k + 1 |-> h[i]]
      OBVIOUS
    <2> HIDE DEF h
    <2>4. P(k + 1, h)
      BY <2>2, <2>3
    <2> HIDE DEF P
    <2> QED BY <2>4
  <1> HIDE DEF S
  <1>3. top \in Nat
    OBVIOUS
  <1> HIDE DEF top
  <1>4. top \in S
    BY <1>1, <1>2, <1>3, Induction
  <1>5. \E f : P(top, f)
    BY <1>4 DEF S
  <1>6. P(top, g)
    <2>1. g = CHOOSE f : P(top, f)
      BY DEF Scans, top
    <2> HIDE DEF P, g
    <2> QED BY <1>5, <2>1
  <1> HIDE DEF g
  <1>7. \A k \in 0 .. top : g[k] = ScanStep(m, first, name, k, g)
    BY <1>6
  <1> QED BY <1>7 DEF g, top

(* A record of another name is left where it is.                           *)
LEMMA OtherRecord ==
    ASSUME NEW m, NEW o, NEW name, ~dns_name_compare(m, o, name)
    PROVE  \/ dns_get_answer(m, o, name).rc = -1
           \/ dns_get_answer(m, o, name) = [rc |-> -2, offset |-> o]
  BY DEF dns_get_answer

(* No name is found where one ends.                                        *)
LEMMA NoName ==
    ASSUME NEW m \in Seq(Nat), NEW name \in Name, NEW o \in 0 .. Len(m) - 1, At(m, o) = 0
    PROVE  ~dns_name_compare(m, o, name)
  <1>1. Len(name) \in Nat /\ Len(m) \in Nat
    BY NameIs
  <1> SUFFICES ASSUME Len(name) > 0 PROVE ~Sames(m, name)[<<o, 0>>]
    BY CompareIs
  <1>2. <<o, 0>> \in Pairs(m, name)
    BY <1>1 DEF Pairs
  <1> DEFINE x == <<o, 0>>
             g == Sames(m, name)
  <1>3. g[x] <=> SameStep(m, name, x, g)
    BY <1>2, SamesDef
  <1>4. x[1] = o /\ x[2] = 0
    OBVIOUS
  <1> HIDE DEF x, g
  <1>5. ~SameStep(m, name, x, g)
    BY <1>1, <1>4 DEF SameStep
  <1> QED BY <1>3, <1>5 DEF x, g

(* What the parser has found after some records, if the first one is r:    *)
(* nothing, with the offset at r or after its name, or the data of r, if   *)
(* it gives an address.                                                    *)
Gives(r, name) == r.name = name /\ r.type = TypeA /\ Len(r.rdata) = 4

Found(o, info, r, name, s) ==
    \/ s.rc = -1
    \/ s = [rc |-> -2, offset |-> o]
    \/ s = [rc |-> -2, offset |-> info]
    \/ s.rc = info + RrSize /\ Gives(r, name)

LEMMA FirstRecord ==
    ASSUME NEW front \in Seq(Nat), NEW name \in Name, NEW r \in Record,
           Question(r.name, Plain(r.name)), NoEmptyLabel(r.name),
           NEW m, Starts(m, front \o RecordBytes(r, name)),
           NEW o, o = Len(front), NEW info, info = NameEnd(m, o)
    PROVE  Found(o, info, r, name, dns_get_answer(m, o, name))
  <1>1. /\ info \in Nat /\ info > o
        /\ Word(m, info) = r.type
        /\ Word(m, info + 8) = Len(r.rdata)
        /\ dns_name_compare(m, o, name) => r.name = name
    BY RecordAt
  <1> DEFINE s == dns_get_answer(m, o, name)
             len == dns_name_len(m, o)
  <1>2. o \in Nat
    OBVIOUS
  <1>3. o + len = info
    <2>1. len = info - o
      BY <1>1 DEF dns_name_len
    <2> HIDE DEF len
    <2> QED BY <1>1, <1>2, <2>1
  <1>4. \/ s.rc = -1
        \/ s = [rc |-> -2, offset |-> o]
        \/ s = [rc |-> -2, offset |-> info]
        \/ /\ s.rc = info + RrSize /\ dns_name_compare(m, o, name)
           /\ Word(m, info) = TypeA /\ Word(m, info + 8) = 4
    BY <1>3 DEF dns_get_answer
  <1> HIDE DEF s
  <1> QED BY <1>1, <1>4 DEF Found, Gives, s

LEMMA FirstFound ==
    ASSUME NEW front \in Seq(Nat), NEW name \in Name, NEW r \in Record,
           Question(r.name, Plain(r.name)), NoEmptyLabel(r.name),
           NEW m, Starts(m, front \o RecordBytes(r, name)), Word(m, 6) \in Nat,
           NEW o, o = Len(front), NEW info, info = NameEnd(m, o),
           NEW g, g = Scans(m, o, name)
    PROVE  \A k \in 0 .. Word(m, 6) : Found(o, info, r, name, g[k])
  <1> DEFINE top == Word(m, 6)
             S == {k \in Nat : k <= top => Found(o, info, r, name, g[k])}
  <1>1. \A k \in 0 .. top : g[k] = ScanStep(m, o, name, k, g)
    BY ScansDef
  <1>2. top \in Nat
    OBVIOUS
  <1>3. Found(o, info, r, name, dns_get_answer(m, o, name))
    BY FirstRecord
  <1>4. info \in Nat /\ info + RrSize + Len(r.rdata) <= Len(m) /\ At(m, info) = 0
    BY RecordAt
  <1>5. m \in Seq(Nat) /\ Len(m) \in Nat
    BY DEF Starts
  <1>6. info \in 0 .. Len(m) - 1
    <2>1. Len(r.rdata) \in Nat /\ RrSize = 10
      BY InfoBytes DEF RrSize
    <2> QED BY <1>4, <1>5, <2>1
  <1>7. Found(o, info, r, name, dns_get_answer(m, info, name))
    <2>1. ~dns_name_compare(m, info, name)
      BY <1>4, <1>5, <1>6, NoName
    <2> QED BY <2>1, OtherRecord DEF Found
  <1> HIDE DEF top
  <1>8. 0 \in S
    <2>1. g[0] = [rc |-> -2, offset |-> o]
      BY <1>1, <1>2 DEF ScanStep
    <2> QED BY <2>1 DEF Found
  <1>9. ASSUME NEW k \in Nat, k \in S PROVE k + 1 \in S
    <2> SUFFICES ASSUME k + 1 <= top PROVE Found(o, info, r, name, g[k + 1])
      OBVIOUS
    <2>1. k + 1 \in 0 .. top /\ k + 1 # 0 /\ (k + 1) - 1 = k /\ k <= top
      BY <1>2
    <2>2. Found(o, info, r, name, g[k])
      BY <1>9, <2>1
    <2>3. g[k + 1] = IF g[k].rc # -2 THEN g[k]
                     ELSE dns_get_answer(m, g[k].offset, name)
      <3>1. g[k + 1] = ScanStep(m, o, name, k + 1, g)
        BY <1>1, <2>1
      <3> QED BY <2>1, <3>1 DEF ScanStep
    <2>4. CASE g[k].rc # -2
      BY <2>2, <2>3, <2>4
    <2>5. CASE g[k].rc = -2
      <3>1. g[k].offset = o \/ g[k].offset = info
        <4>1. info + RrSize # -2
          BY <1>4 DEF RrSize
        <4> QED BY <2>2, <2>5, <4>1 DEF Found
      <3> QED BY <1>3, <1>7, <2>3, <2>5, <3>1
    <2> QED BY <2>4, <2>5
  <1> HIDE DEF S
  <1>10. \A k \in Nat : k \in S
    BY <1>8, <1>9, Induction
  <1> QED BY <1>2, <1>10 DEF S, top

(* The identifier of an earlier request is another one.                    *)
LEMMA SameNumber ==
    ASSUME NEW n \in Nat, NEW to \in Nat, to <= n,
           ((to \div IdBase) % IdBase) * IdBase + (to % IdBase) = n
    PROVE  to = n
  <1> DEFINE q == to \div IdBase
             b == IdBase
  <1>1. b \in Nat /\ b > 0
    BY DnsAssumption
  <1>2. q \in Nat /\ to = q * b + (to % b) /\ to % b \in Nat
    BY <1>1
  <1>3. q % b \in Nat /\ q % b <= q
    <2> HIDE DEF q
    <2> QED BY <1>1, <1>2
  <1> HIDE DEF b, q
  <1>4. (q % b) * b <= q * b
    <2> DEFINE p == q % b
    <2>1. p \in Nat /\ p <= q
      BY <1>3
    <2> HIDE DEF p
    <2>2. p * b <= q * b
      BY <1>1, <1>2, <2>1
    <2> QED BY <2>2 DEF p
  <1>5. (q % b) * b + (to % b) = n
    BY DEF q, b
  <1> DEFINE x == (q % b) * b
             y == q * b
             z == to % b
  <1>6. x \in Nat /\ y \in Nat /\ z \in Nat
    BY <1>1, <1>2, <1>3
  <1>7. x <= y /\ to = y + z /\ x + z = n
    <2>1. x <= y
      BY <1>4
    <2>2. to = y + z
      BY <1>2
    <2>3. x + z = n
      BY <1>5
    <2> HIDE DEF x, y, z
    <2> QED BY <2>1, <2>2, <2>3
  <1> HIDE DEF x, y, z
  <1> QED BY <1>6, <1>7

(* An answer that is verified is the one to this request, and its records  *)
(* come after the question.                                                *)
LEMMA Verified ==
    ASSUME NEW n \in Nat, NEW to \in Nat, to <= n,
           NEW asked \in Name, Question(asked, Plain(asked)),
           NEW name \in Name, to = n => name = asked,
           NEW records, Writable(records),
           NEW m, m = Message(to, asked, records),
           NEW first, first = dns_verify_response(m, n, name), ~(first < 0)
    PROVE  /\ to = n
           /\ Word(m, 6) = Len(records) /\ Len(records) >= 1
           /\ first = Len(Front(to, asked, Len(records)))
  <1> DEFINE count == Len(records)
  <1>1. count \in Nat
    BY DEF Writable
  <1>2. /\ Written(m, HeaderSize, asked)
        /\ At(m, 0) = (to \div IdBase) % IdBase /\ At(m, 1) = to % IdBase
        /\ Word(m, 6) = count
    BY QuestionAnswered
  <1>3. /\ At(m, 0) * IdBase + At(m, 1) = n
        /\ Word(m, 6) >= 1
        /\ dns_name_compare(m, HeaderSize, name)
        /\ first = NameEnd(m, HeaderSize) + QdSize
    <2>1. -1 < 0
      OBVIOUS
    <2> QED BY <2>1 DEF dns_verify_response
  <1>4. to = n
    <2>1. ((to \div IdBase) % IdBase) * IdBase + (to % IdBase) = n
      BY <1>2, <1>3
    <2> QED BY <2>1, SameNumber
  <1>5. NoEmptyLabel(asked)
    BY <1>2, <1>3, <1>4, EmptyLabelEnds
  <1>6. NameEnd(m, HeaderSize) = HeaderSize + Len(asked) + 2
    BY <1>2, <1>5, QuestionEnds
  <1>7. Len(Front(to, asked, count)) = HeaderSize + Len(asked) + 2 + QdSize
    BY <1>1, FrontBytes
  <1> QED BY <1>2, <1>3, <1>4, <1>6, <1>7 DEF count

(* The address that is read.                                               *)
LEMMA FourBytes ==
    ASSUME NEW m \in Seq(Nat), NEW found \in Nat, found + 4 <= Len(m)
    PROVE  /\ SubSeq(m, found + 1, found + 4) \in Seq(Nat)
           /\ Len(SubSeq(m, found + 1, found + 4)) = 4
           /\ \A k \in 1 .. 4 : SubSeq(m, found + 1, found + 4)[k] = m[found + k]
  <1>1. Len(m) \in Nat
    OBVIOUS
  <1>2. found + 1 \in 1 .. Len(m) + 1 /\ found + 4 \in 0 .. Len(m) /\ found + 1 <= found + 4
    BY <1>1
  <1> QED BY <1>1, <1>2

LEMMA DataRead ==
    ASSUME NEW m \in Seq(Nat), NEW found \in Nat, found + 4 <= Len(m),
           NEW data \in Seq(Nat), Len(data) = 4,
           \A k \in 1 .. 4 : m[found + k] = data[k]
    PROVE  SubSeq(m, found + 1, found + 4) = data
  <1> DEFINE s == SubSeq(m, found + 1, found + 4)
  <1>1. s \in Seq(Nat) /\ Len(s) = 4 /\ \A k \in 1 .. 4 : s[k] = m[found + k]
    BY FourBytes
  <1> HIDE DEF s
  <1>2. s = data
    BY <1>1, SeqEqual
  <1> QED BY <1>2 DEF s

LEMMA ReadIsSound ==
    ASSUME NEW n \in Nat, NEW to \in Nat, to <= n,
           NEW asked \in Name, Question(asked, Plain(asked)),
           NEW name \in Name, to = n => name = asked,
           NEW records, Writable(records),
           NEW answer, answer = ReadAnswer(Message(to, asked, records), n, name), answer.ok
    PROVE  /\ to = n
           /\ \E i \in 1 .. Len(records) :
                 Gives(records[i], name) /\ answer.ip = records[i].rdata
  <1> DEFINE m == Message(to, asked, records)
             first == dns_verify_response(m, n, name)
             g == Scans(m, first, name)
             top == Word(m, 6)
             found == g[top].rc
             front == Front(to, asked, Len(records))
             r == records[1]
             info == NameEnd(m, first)
  <1>1. /\ ~(first < 0) /\ ~(found < 0)
        /\ answer.ip = SubSeq(m, found + 1, found + 4)
    <2>1. answer = IF first < 0 \/ found < 0 THEN Failed
                   ELSE [ok |-> TRUE, ip |-> SubSeq(m, found + 1, found + 4)]
      BY ReadIs
    <2> DEFINE bad == first < 0 \/ found < 0
               ip == SubSeq(m, found + 1, found + 4)
    <2>2. CASE bad
      <3>1. answer = Failed
        BY <2>1, <2>2
      <3>2. ~answer.ok
        BY <3>1 DEF Failed
      <3> QED BY <3>2
    <2>3. CASE ~bad
      <3>1. answer = [ok |-> TRUE, ip |-> ip]
        BY <2>1, <2>3
      <3> HIDE DEF ip
      <3>2. answer.ip = ip
        BY <3>1
      <3> QED BY <2>3, <3>2 DEF ip
    <2> HIDE DEF bad
    <2> QED BY <2>2, <2>3
  <1>2. /\ to = n /\ name = asked
        /\ top = Len(records) /\ Len(records) >= 1
        /\ first = Len(front)
    <2> HIDE DEF first
    <2>1. first = dns_verify_response(m, n, name)
      BY DEF first
    <2> HIDE DEF m
    <2> QED BY <1>1, <2>1, Verified DEF m
  <1>3. Len(records) \in Nat /\ 1 \in 1 .. Len(records)
    BY <1>2 DEF Writable
  <1>4. r \in Record /\ Question(r.name, Plain(r.name)) /\ NoEmptyLabel(r.name)
    BY <1>3 DEF Writable
  <1>5. Starts(m, front \o RecordBytes(r, name))
    BY <1>2, <1>3, MessageStarts
  <1>6. front \in Seq(Nat)
    BY <1>3, FrontBytes
  <1> HIDE DEF m, front, r, first
  <1>7. top \in Nat /\ top \in 0 .. top
    BY <1>2, <1>3
  <1>8. Found(first, info, r, name, g[top])
    BY <1>2, <1>4, <1>5, <1>6, <1>7, FirstFound
  <1>9. /\ info \in Nat /\ info + RrSize + Len(r.rdata) <= Len(m)
        /\ \A k \in 1 .. Len(r.rdata) : m[info + RrSize + k] = r.rdata[k]
    BY <1>2, <1>4, <1>5, <1>6, RecordAt
  <1> HIDE DEF g, top, info
  <1>10. found = info + RrSize /\ Gives(r, name)
    <2>1. -1 < 0 /\ -2 < 0
      OBVIOUS
    <2> QED BY <1>1, <1>8, <2>1 DEF Found
  <1> HIDE DEF found
  <1>11. SubSeq(m, found + 1, found + 4) = r.rdata
    <2> DEFINE data == r.rdata
    <2>1. m \in Seq(Nat) /\ Len(m) \in Nat
      BY <1>5 DEF Starts
    <2>2. data \in Seq(Nat) /\ Len(data) = 4
      BY <1>4, <1>10, InfoBytes DEF Gives
    <2>3. found \in Nat /\ found + 4 <= Len(m)
      BY <1>9, <1>10, <2>2 DEF RrSize
    <2>4. \A k \in 1 .. 4 : m[found + k] = data[k]
      BY <1>9, <1>10, <2>2
    <2> HIDE DEF data
    <2>5. SubSeq(m, found + 1, found + 4) = data
      BY <2>1, <2>2, <2>3, <2>4, DataRead
    <2> QED BY <2>5 DEF data
  <1> QED BY <1>1, <1>2, <1>3, <1>10, <1>11 DEF r

(* The whole identifier fits in two bytes.                                 *)
LEMMA WholeNumber ==
    ASSUME NEW n \in Nat, n < IdBase * IdBase
    PROVE  ((n \div IdBase) % IdBase) * IdBase + (n % IdBase) = n
  <1> DEFINE q == n \div IdBase
             b == IdBase
             z == n % IdBase
  <1>1. b \in Nat /\ b > 0
    BY DnsAssumption
  <1>2. q \in Nat /\ z \in Nat /\ n = q * b + z
    BY <1>1
  <1>3. n < b * b
    OBVIOUS
  <1>4. q < b
    <2> HIDE DEF q, b, z
    <2> SUFFICES ASSUME q >= b PROVE FALSE
      BY <1>1, <1>2
    <2>1. q * b >= b * b
      BY <1>1, <1>2
    <2>2. q * b \in Nat /\ b * b \in Nat
      BY <1>1, <1>2
    <2> QED BY <1>2, <1>3, <2>1, <2>2
  <1>5. q % b = q
    <2> HIDE DEF q, b
    <2> QED BY <1>1, <1>2, <1>4
  <1> QED BY <1>2, <1>5

(* A record with the name of the question has a pointer to it.             *)
LEMMA PointerIsSame ==
    ASSUME NEW m \in Seq(Nat), NEW name \in Name, Written(m, HeaderSize, name),
           NoEmptyLabel(name), NEW o \in Nat, o + 2 <= Len(m),
           At(m, o) = Pointer, At(m, o + 1) = HeaderSize
    PROVE  dns_name_compare(m, o, name)
  <1> DEFINE x == <<o, 0>>
             g == Sames(m, name)
  <1>1. Len(name) \in Nat /\ Len(m) \in Nat /\ HeaderSize = 12 /\ Pointer = 192
    BY NameIs DEF HeaderSize, Pointer
  <1>2. Len(name) > 0 /\ g[<<12, 0>>]
    BY <1>1, QuestionIsSame, CompareIs
  <1>3. x \in Pairs(m, name)
    BY <1>1 DEF Pairs
  <1>4. g[x] <=> SameStep(m, name, x, g)
    BY <1>3, SamesDef
  <1>5. x[1] = o /\ x[2] = 0
    OBVIOUS
  <1>6. 12 < Len(m)
    <2>1. HeaderSize + Len(name) + 2 <= Len(m)
      BY DEF Written
    <2> QED BY <1>1, <2>1
  <1>7. Target(m, o) = 12
    BY <1>1 DEF Target
  <1> HIDE DEF x, g
  <1>8. SameStep(m, name, x, g)
    BY <1>1, <1>2, <1>5, <1>6, <1>7 DEF SameStep
  <1> QED BY <1>2, <1>4, <1>8, CompareIs DEF x, g

(* The answer to this request is verified.                                 *)
LEMMA AnswerVerified ==
    ASSUME NEW n \in Nat, n < IdBase * IdBase,
           NEW name \in Name, Question(name, Plain(name)), NoEmptyLabel(name),
           NEW records, Writable(records), Len(records) >= 1,
           NEW m, m = Message(n, name, records)
    PROVE  /\ dns_verify_response(m, n, name) = Len(Front(n, name, Len(records)))
           /\ dns_verify_response(m, n, name) \in Nat
           /\ Word(m, 6) = Len(records)
  <1> DEFINE offset == NameEnd(m, HeaderSize)
             end == HeaderSize + Len(name) + 2
  <1>1. Len(records) \in Nat /\ Len(name) \in Nat /\ HeaderSize = 12 /\ QdSize = 4
    BY NameIs DEF Writable, HeaderSize, QdSize
  <1>2. /\ Written(m, HeaderSize, name)
        /\ end + QdSize <= Len(m)
        /\ At(m, 0) = (n \div IdBase) % IdBase /\ At(m, 1) = n % IdBase
        /\ At(m, 2) = 129 /\ At(m, 3) = 128 /\ Word(m, 4) = 1
        /\ Word(m, 6) = Len(records)
        /\ Word(m, end) = TypeA
        /\ Word(m, HeaderSize + Len(name) + 4) = 1
    BY QuestionAnswered
  <1>3. offset = end
    BY <1>2, QuestionEnds
  <1>4. dns_name_compare(m, HeaderSize, name)
    BY <1>2, QuestionIsSame
  <1>5. At(m, 0) * IdBase + At(m, 1) = n
    BY <1>2, WholeNumber
  <1>6. Len(m) \in Nat
    BY <1>2 DEF Written
  <1> HIDE DEF offset
  <1>7. Word(m, offset + 2) = 1
    <2>1. end + 2 = HeaderSize + Len(name) + 4
      BY <1>1
    <2> QED BY <1>2, <1>3, <2>1
  <1>8. At(m, 2) \in {129, 133} /\ At(m, 3) % 16 = 0
    <2>1. 128 % 16 = 0
      OBVIOUS
    <2> QED BY <1>2, <2>1
  <1>9. Len(m) >= HeaderSize
    BY <1>1, <1>2, <1>6
  <1> HIDE DEF end
  <1>10. dns_verify_response(m, n, name) = offset + QdSize
    <2>1. offset + QdSize <= Len(m) /\ Word(m, offset) = TypeA /\ Word(m, 4) = 1
          /\ Word(m, 6) >= 1
      BY <1>2, <1>3
    <2> QED BY <1>4, <1>5, <1>7, <1>8, <1>9, <2>1 DEF dns_verify_response, offset
  <1>11. Len(Front(n, name, Len(records))) = end + QdSize
    BY <1>1, FrontBytes DEF end
  <1>12. end + QdSize \in Nat
    BY <1>1 DEF end
  <1> QED BY <1>2, <1>3, <1>10, <1>11, <1>12

(* The first record, if it gives an address, is taken.                     *)
LEMMA FirstTaken ==
    ASSUME NEW front \in Seq(Nat), NEW name \in Name, NEW r \in Record,
           Question(r.name, Plain(r.name)), NoEmptyLabel(r.name), Gives(r, name),
           NEW m, Starts(m, front \o RecordBytes(r, name)), Word(m, 6) \in Nat,
           Word(m, 6) >= 1, Written(m, HeaderSize, name),
           NEW o, o = Len(front), NEW info, info = NameEnd(m, o),
           NEW g, g = Scans(m, o, name)
    PROVE  g[Word(m, 6)].rc = info + RrSize
  <1> DEFINE top == Word(m, 6)
             S == {k \in Nat : k + 1 <= top => g[k + 1].rc = info + RrSize}
             s == dns_get_answer(m, o, name)
             len == dns_name_len(m, o)
  <1>1. /\ info \in Nat /\ info > o
        /\ info + RrSize + Len(r.rdata) <= Len(m)
        /\ Word(m, info) = r.type
        /\ Word(m, info + 2) = 1
        /\ Word(m, info + 8) = Len(r.rdata)
        /\ r.name = name => At(m, o) = Pointer /\ At(m, o + 1) = HeaderSize
    BY RecordAt
  <1>2. r.name = name /\ r.type = TypeA /\ Len(r.rdata) = 4
    BY DEF Gives
  <1>3. m \in Seq(Nat) /\ Len(m) \in Nat /\ o \in Nat /\ RrSize = 10
    BY DEF Starts, RrSize
  <1>4. o + len = info /\ ~(len < 0)
    <2>1. len = info - o
      BY <1>1 DEF dns_name_len
    <2>2. info \in Nat /\ info > o /\ o \in Nat
      BY <1>1, <1>3
    <2> HIDE DEF len
    <2> QED BY <2>1, <2>2
  <1>5. dns_name_compare(m, o, name)
    <2>1. o + 2 <= Len(m)
      BY <1>1, <1>2, <1>3
    <2> QED BY <1>1, <1>2, <1>3, <2>1, PointerIsSame
  <1>6. s.rc = info + RrSize
    <2>1. ~(info + RrSize > Len(m)) /\ ~(info + RrSize + Word(m, info + 8) > Len(m))
      <3> DEFINE w == Word(m, info + 8)
      <3>1. w = 4
        BY <1>1, <1>2
      <3>2. info \in Nat /\ Len(m) \in Nat /\ info + RrSize + 4 <= Len(m)
        BY <1>1, <1>2, <1>3
      <3> HIDE DEF w
      <3>3. ~(info + RrSize > Len(m)) /\ ~(info + RrSize + w > Len(m))
        BY <1>3, <3>1, <3>2
      <3> QED BY <3>3 DEF w
    <2> HIDE DEF len
    <2>2. s = [rc |-> info + RrSize, offset |-> info + RrSize + Word(m, info + 8)]
      BY <1>1, <1>2, <1>4, <1>5, <2>1 DEF dns_get_answer, len
    <2> QED BY <2>2
  <1>7. \A k \in 0 .. top : g[k] = ScanStep(m, o, name, k, g)
    BY ScansDef
  <1>8. top \in Nat /\ top >= 1
    OBVIOUS
  <1>9. info + RrSize # -2
    BY <1>1, <1>3
  <1> HIDE DEF top, s
  <1>10. 0 \in S
    <2>1. g[0] = [rc |-> -2, offset |-> o]
      BY <1>7, <1>8 DEF ScanStep
    <2>2. 1 \in 0 .. top /\ 1 - 1 = 0 /\ 0 + 1 = 1
      BY <1>8
    <2>3. g[1] = s
      <3>1. g[1] = ScanStep(m, o, name, 1, g)
        BY <1>7, <2>2
      <3> QED BY <2>1, <2>2, <3>1 DEF ScanStep, s
    <2> QED BY <1>6, <2>2, <2>3
  <1>11. ASSUME NEW k \in Nat, k \in S PROVE k + 1 \in S
    <2> SUFFICES ASSUME (k + 1) + 1 <= top PROVE g[(k + 1) + 1].rc = info + RrSize
      OBVIOUS
    <2> DEFINE j == (k + 1) + 1
    <2>1. j \in 0 .. top /\ j # 0 /\ j - 1 = k + 1 /\ k + 1 <= top
      BY <1>8
    <2>2. g[k + 1].rc = info + RrSize
      BY <1>11, <2>1
    <2> HIDE DEF j
    <2>3. g[j] = ScanStep(m, o, name, j, g)
      BY <1>7, <2>1
    <2>4. g[j] = g[k + 1]
      BY <1>9, <2>1, <2>2, <2>3 DEF ScanStep
    <2> QED BY <2>2, <2>4 DEF j
  <1> HIDE DEF S
  <1>12. top - 1 \in S
    <2>1. top - 1 \in Nat
      BY <1>8
    <2> QED BY <1>10, <1>11, <2>1, Induction
  <1> QED BY <1>8, <1>12 DEF S, top

LEMMA ReadFinds ==
    ASSUME NEW n \in Nat, n < IdBase * IdBase,
           NEW name \in Name, Question(name, Plain(name)),
           NEW records, Writable(records), Len(records) >= 1, Gives(records[1], name)
    PROVE  ReadAnswer(Message(n, name, records), n, name)
               = [ok |-> TRUE, ip |-> records[1].rdata]
  <1> DEFINE m == Message(n, name, records)
             first == dns_verify_response(m, n, name)
             g == Scans(m, first, name)
             top == Word(m, 6)
             found == g[top].rc
             front == Front(n, name, Len(records))
             r == records[1]
             info == NameEnd(m, first)
  <1>1. Len(records) \in Nat /\ 1 \in 1 .. Len(records)
    BY DEF Writable
  <1>2. r \in Record /\ Question(r.name, Plain(r.name)) /\ NoEmptyLabel(r.name) /\ r.name = name
    BY <1>1 DEF Writable, Gives
  <1>3. Starts(m, front \o RecordBytes(r, name)) /\ Written(m, HeaderSize, name)
    BY <1>1, MessageStarts, QuestionAnswered
  <1>4. front \in Seq(Nat)
    BY <1>1, FrontBytes
  <1>5. first = Len(front) /\ first \in Nat /\ top = Len(records)
    BY <1>2, AnswerVerified
  <1>6. ReadAnswer(m, n, name) =
            IF first < 0 \/ found < 0 THEN Failed
            ELSE [ok |-> TRUE, ip |-> SubSeq(m, found + 1, found + 4)]
    BY ReadIs
  <1>7. Gives(r, name)
    OBVIOUS
  <1> HIDE DEF m, first, front, r
  <1>8. /\ info \in Nat /\ info + RrSize + Len(r.rdata) <= Len(m)
        /\ \A k \in 1 .. Len(r.rdata) : m[info + RrSize + k] = r.rdata[k]
    BY <1>2, <1>3, <1>4, <1>5, RecordAt
  <1>9. top \in Nat /\ top >= 1
    BY <1>1, <1>5
  <1>10. found = info + RrSize
    BY <1>2, <1>3, <1>4, <1>5, <1>7, <1>9, FirstTaken
  <1> HIDE DEF g, top, info, found
  <1>11. SubSeq(m, found + 1, found + 4) = r.rdata
    <2> DEFINE data == r.rdata
    <2>1. m \in Seq(Nat) /\ Len(m) \in Nat
      BY <1>3 DEF Starts
    <2>2. data \in Seq(Nat) /\ Len(data) = 4
      BY <1>2, <1>7, InfoBytes DEF Gives
    <2>3. found \in Nat /\ found + 4 <= Len(m)
      BY <1>8, <1>10, <2>2 DEF RrSize
    <2>4. \A k \in 1 .. 4 : m[found + k] = data[k]
      BY <1>8, <1>10, <2>2
    <2> HIDE DEF data
    <2>5. SubSeq(m, found + 1, found + 4) = data
      BY <2>1, <2>2, <2>3, <2>4, DataRead
    <2> QED BY <2>5 DEF data
  <1>12. ~(first < 0) /\ ~(found < 0)
    BY <1>5, <1>8, <1>10 DEF RrSize
  <1> QED BY <1>6, <1>11, <1>12 DEF m, r

-----------------------------------------------------------------------------
(* What is asked for is a name.                                            *)
Asked ==
    /\ id \in Nat
    /\ id > 0 => request \in [active : BOOLEAN, id : Nat, name : Names, server : Servers]

LEMMA AskedStep == Asked /\ [Next]_vars => Asked'
  <1> SUFFICES ASSUME Asked, [Next]_vars PROVE Asked'
    OBVIOUS
  <1>1. CASE mobile_dns_request_send
    <2>1. PICK name \in Names, server \in Servers :
             request' = [active |-> dns_make_query(id', name).ok, id |-> id',
                         name |-> name, server |-> server]
      BY <1>1 DEF mobile_dns_request_send
    <2>2. id' = id + 1 /\ id' \in Nat
      BY <1>1 DEF mobile_dns_request_send, Asked
    <2>3. dns_make_query(id', name).ok \in BOOLEAN
      BY DEF dns_make_query, Failed
    <2> QED BY <2>1, <2>2, <2>3 DEF Asked
  <1>2. CASE TimedOut
    BY <1>2 DEF TimedOut, Asked
  <1>3. ASSUME NEW a \in net, mobile_dns_request_recv(a) PROVE Asked'
    BY <1>3 DEF mobile_dns_request_recv, Asked
  <1>4. CASE UNCHANGED vars
    BY <1>4 DEF vars, Asked
  <1> QED BY <1>1, <1>2, <1>3, <1>4 DEF Next

THEOREM AskedForNames == Spec => []Asked
  <1>1. Init => Asked
    BY DEF Init, Asked
  <1> QED BY <1>1, AskedStep, PTL DEF Spec

(* QuerySent: what dns.c makes of a name of any length stays within the    *)
(* packet, is sent exactly if the name fits, and asks for that name.       *)
THEOREM QueriesAreSent == Spec => []QuerySent
  <1>1. ASSUME Asked PROVE QuerySent
    <2> SUFFICES ASSUME id > 0 PROVE QuerySent
      BY DEF QuerySent
    <2> DEFINE name == request.name
               n == request.id
               query == dns_make_query(n, name)
               made == dns_make_name(name, HeaderSize)
    <2>1. name \in Names /\ n \in Nat
      BY <1>1 DEF Asked
    <2>2. name \in Name
      BY <2>1, DnsAssumption DEF Name
    <2> HIDE DEF name, n
    <2>3. HeaderSize + Len(made.data) <= PacketSize
      BY <2>2, MadeName, HeaderFits
    <2>4. /\ query.ok <=> /\ LabelsFit(name)
                          /\ HeaderSize + Len(name) + 2 + QdSize <= PacketSize
          /\ query.ok => /\ Written(query.data, HeaderSize, name)
                         /\ HeaderSize + Len(name) + 2 + QdSize = Len(query.data)
      BY <2>1, <2>2, QueryMade
    <2> HIDE DEF query, made
    <2>5. ASSUME query.ok, NoEmptyLabel(name)
          PROVE  /\ dns_name_compare(query.data, HeaderSize, name)
                 /\ NameEnd(query.data, HeaderSize) + QdSize = Len(query.data)
      <3>1. Written(query.data, HeaderSize, name)
        BY <2>4, <2>5
      <3>2. dns_name_compare(query.data, HeaderSize, name)
        BY <2>2, <2>5, <3>1, QuestionIsSame
      <3>3. NameEnd(query.data, HeaderSize) = HeaderSize + Len(name) + 2
        BY <2>2, <2>5, <3>1, QuestionEnds
      <3> QED BY <2>4, <2>5, <3>2, <3>3
    <2> QED BY <2>3, <2>4, <2>5 DEF QuerySent, query, made, name, n
  <1> QED BY <1>1, AskedForNames, PTL

(* The answers on their way are to this request or to an earlier one, and  *)
(* to a query that could be sent.                                          *)
Sendable(name) ==
    LabelsFit(name) /\ HeaderSize + Len(name) + 2 + QdSize <= PacketSize

Traffic ==
    /\ Asked
    /\ request.active => id > 0
    /\ id > 0 => request.id = id
    /\ \A a \in net :
          /\ id > 0 /\ a.to \in 1 .. id
          /\ a.name \in Names /\ Sendable(a.name)
          /\ a.records \in Answers
          /\ a.to = id => a.name = request.name
    /\ AnswerSound

LEMMA SendableIsQuestion ==
    ASSUME NEW name \in Names, Sendable(name)
    PROVE  name \in Name /\ Question(name, Plain(name))
  <1>1. name \in Name
    BY DnsAssumption DEF Name
  <1>2. Len(name) + 2 <= PacketSize
    <2>1. Len(name) \in Nat /\ PacketSize \in Nat
      BY <1>1, NameIs, DnsAssumption
    <2> QED BY <2>1 DEF Sendable, HeaderSize, QdSize
  <1> QED BY <1>1, <1>2, PlainIs DEF Sendable

(* What an answer leads to.                                                *)
LEMMA ReceivedIsSound ==
    ASSUME Traffic, request.active, NEW a \in net,
           NEW answer, answer = ReadAnswer(Received(a), request.id, request.name), answer.ok
    PROVE  /\ a.to = request.id
           /\ \E i \in 1 .. Len(a.records) :
                 Gives(a.records[i], request.name) /\ answer.ip = a.records[i].rdata
  <1> DEFINE n == request.id
             name == request.name
             to == a.to
             asked == a.name
             records == a.records
  <1>1. n \in Nat /\ n = id /\ name \in Name
    BY DnsAssumption DEF Traffic, Asked, Name
  <1>2. to \in Nat /\ to <= n /\ (to = n => name = asked)
    BY <1>1 DEF Traffic, Asked
  <1>3. asked \in Name /\ Question(asked, Plain(asked))
    BY SendableIsQuestion DEF Traffic
  <1>4. Writable(records)
    BY AnswersWritable DEF Traffic
  <1>5. answer = ReadAnswer(Message(to, asked, records), n, name)
    BY DEF Received
  <1> HIDE DEF n, name, to, asked, records
  <1>6. /\ to = n
        /\ \E i \in 1 .. Len(records) :
              Gives(records[i], name) /\ answer.ip = records[i].rdata
    BY <1>1, <1>2, <1>3, <1>4, <1>5, ReadIsSound
  <1> QED BY <1>6 DEF n, name, to, asked, records

LEMMA TrafficStart == Init => Traffic
  BY DEF Init, Traffic, Asked, AnswerSound, Failed

LEMMA TrafficStep == Traffic /\ [Next]_vars => Traffic'
  <1> SUFFICES ASSUME Traffic, [Next]_vars PROVE Traffic'
    OBVIOUS
  <1>0. Asked'
    BY AskedStep DEF Traffic
  <1>1. CASE mobile_dns_request_send
    <2>1. PICK name \in Names, server \in Servers, records \in Answers :
            LET query == dns_make_query(id', name)
            IN  /\ request' = [active |-> query.ok, id |-> id',
                               name |-> name, server |-> server]
                /\ \/ net' = net
                   \/ /\ query.ok
                      /\ net' = net \cup {[to |-> id', from |-> server,
                                           records |-> records, name |-> name]}
      BY <1>1 DEF mobile_dns_request_send
    <2>2. id \in Nat /\ id' = id + 1 /\ id' \in Nat /\ id' > 0
      BY <1>1 DEF mobile_dns_request_send, Traffic, Asked
    <2> DEFINE new == [to |-> id', from |-> server, records |-> records, name |-> name]
    <2>3. request'.id = id' /\ request'.name = name
      BY <2>1
    <2>4. ASSUME NEW a \in net'
          PROVE  /\ a.to \in 1 .. id'
                 /\ a.name \in Names /\ Sendable(a.name)
                 /\ a.records \in Answers
                 /\ a.to = id' => a.name = request'.name
      <3>1. CASE a \in net
        <4>1. a.to \in 1 .. id /\ a.name \in Names /\ Sendable(a.name)
              /\ a.records \in Answers
          BY <3>1 DEF Traffic
        <4>2. a.to \in 1 .. id' /\ a.to # id'
          BY <2>2, <4>1
        <4> QED BY <4>1, <4>2
      <3>2. CASE a \notin net
        <4>1. a = new /\ dns_make_query(id', name).ok
          BY <2>1, <3>2
        <4>2. a.to = id' /\ a.name = name /\ a.records = records
          BY <4>1
        <4>3. Sendable(name)
          <5>1. name \in Name
            BY DnsAssumption DEF Name
          <5> QED BY <2>2, <4>1, <5>1, QueryMade DEF Sendable
        <4> QED BY <2>2, <2>3, <4>2, <4>3
      <3> QED BY <3>1, <3>2
    <2>5. AnswerSound'
      BY <1>1 DEF mobile_dns_request_send, AnswerSound, Failed
    <2> HIDE DEF new
    <2> QED BY <1>0, <2>2, <2>3, <2>4, <2>5 DEF Traffic
  <1>2. CASE TimedOut
    <2>1. id' = id /\ net' = net /\ outcome' = outcome /\ taken' = taken /\ id > 0
          /\ request' = [request EXCEPT !.active = FALSE]
      BY <1>2 DEF TimedOut, Traffic
    <2>2. request'.id = request.id /\ request'.name = request.name
      BY <2>1 DEF Traffic, Asked
    <2>3. AnswerSound'
      BY <2>1, <2>2 DEF Traffic, AnswerSound, GivesAddress
    <2> QED BY <1>0, <2>1, <2>2, <2>3 DEF Traffic
  <1>3. ASSUME NEW a \in net, mobile_dns_request_recv(a) PROVE Traffic'
    <2>1. id' = id /\ net' = net /\ id > 0 /\ request.active
      BY <1>3 DEF mobile_dns_request_recv, Traffic
    <2>2. CASE UNCHANGED <<request, outcome, taken>>
      <3>1. AnswerSound'
        BY <2>2 DEF Traffic, AnswerSound, GivesAddress
      <3> QED BY <1>0, <2>1, <2>2, <3>1 DEF Traffic
    <2>3. CASE /\ request' = [request EXCEPT !.active = FALSE]
               /\ outcome' = ReadAnswer(Received(a), request.id, request.name)
               /\ taken' = a
      <3>1. request'.id = request.id /\ request'.name = request.name
        BY <2>1, <2>3 DEF Traffic, Asked
      <3>2. AnswerSound'
        <4> SUFFICES ASSUME outcome'.ok
                     PROVE  /\ a.to = request.id
                            /\ \E i \in 1 .. Len(a.records) :
                                  /\ Gives(a.records[i], request.name)
                                  /\ outcome'.ip = a.records[i].rdata
          BY <2>3, <3>1 DEF AnswerSound, GivesAddress, Gives
        <4> QED BY <2>1, <2>3, ReceivedIsSound
      <3> QED BY <1>0, <2>1, <2>3, <3>1, <3>2 DEF Traffic
    <2> QED BY <1>3, <2>2, <2>3 DEF mobile_dns_request_recv
  <1>4. CASE UNCHANGED vars
    <2>1. AnswerSound'
      BY <1>4 DEF vars, Traffic, AnswerSound, GivesAddress
    <2> QED BY <1>0, <1>4, <2>1 DEF vars, Traffic
  <1> QED BY <1>1, <1>2, <1>3, <1>4 DEF Next

(* AnswerSound: an address that a request ends with is in a record for its *)
(* name, in the answer to it and not to an earlier request, whatever names *)
(* are asked for and whatever records the servers send.                    *)
THEOREM AnswersAreSound == Spec => []AnswerSound
  <1>1. Traffic => AnswerSound
    BY DEF Traffic
  <1> QED BY <1>1, TrafficStart, TrafficStep, PTL DEF Spec

(* What the last request ended with is what the parser finds.              *)
Latest ==
    /\ id <= MaxRequests
    /\ taken # NoAnswer =>
          /\ taken \in net /\ id > 0
          /\ outcome = ReadAnswer(Received(taken), request.id, request.name)

LEMMA LatestStep == Traffic /\ Latest /\ [Next]_vars => Latest'
  <1> SUFFICES ASSUME Traffic, Latest, [Next]_vars PROVE Latest'
    OBVIOUS
  <1>1. CASE mobile_dns_request_send
    <2>1. id' = id + 1 /\ id < MaxRequests /\ taken' = NoAnswer
      BY <1>1 DEF mobile_dns_request_send
    <2>2. id \in Nat /\ MaxRequests \in Nat
      BY DnsAssumption DEF Traffic, Asked
    <2> QED BY <2>1, <2>2 DEF Latest
  <1>2. ASSUME UNCHANGED <<id, net, outcome, taken>>,
               request' = [request EXCEPT !.active = FALSE] \/ UNCHANGED request
        PROVE  Latest'
    <2>1. id > 0 => request'.id = request.id /\ request'.name = request.name
      BY <1>2 DEF Traffic, Asked
    <2> QED BY <1>2, <2>1 DEF Latest, Received
  <1>3. CASE TimedOut
    BY <1>2, <1>3 DEF TimedOut
  <1>4. ASSUME NEW a \in net, mobile_dns_request_recv(a) PROVE Latest'
    <2>1. id' = id /\ net' = net /\ id > 0
      BY <1>4 DEF mobile_dns_request_recv, Traffic
    <2>2. CASE UNCHANGED <<request, outcome, taken>>
      BY <1>2, <2>1, <2>2
    <2>3. CASE /\ request' = [request EXCEPT !.active = FALSE]
               /\ outcome' = ReadAnswer(Received(a), request.id, request.name)
               /\ taken' = a
      <3>1. request'.id = request.id /\ request'.name = request.name
        BY <2>1, <2>3 DEF Traffic, Asked
      <3> QED BY <2>1, <2>3, <3>1 DEF Latest, Received
    <2> QED BY <1>4, <2>2, <2>3 DEF mobile_dns_request_recv
  <1>5. CASE UNCHANGED vars
    BY <1>2, <1>5 DEF vars
  <1> QED BY <1>1, <1>3, <1>4, <1>5 DEF Next

(* The servers put a record with the address for a name before the others. *)
AddressesFirst ==
    \A records \in Answers : \A i \in 1 .. Len(records) :
        Gives(records[i], records[i].name) => Gives(records[1], records[i].name)

(* AnswerFound, as far as it goes: if servers put addresses first, and the *)
(* counter of requests does not outgrow the identifier, the answer ends    *)
(* its request with the address.                                           *)
THEOREM AddressesAreFound ==
    ASSUME AddressesFirst, MaxRequests < IdBase * IdBase
    PROVE  Spec => []AnswerFound
  <1>1. Init => Latest
    BY DnsAssumption DEF Init, Latest
  <1>2. ASSUME Traffic, Latest PROVE AnswerFound
    <2> DEFINE n == request.id
               name == request.name
               records == taken.records
    <2> SUFFICES ASSUME taken # NoAnswer, taken.to = n,
                        NEW i \in 1 .. Len(records), Gives(records[i], name),
                        \A k \in 1 .. i - 1 : ~Gives(records[k], name)
                 PROVE  outcome = [ok |-> TRUE, ip |-> records[i].rdata]
      BY DEF AnswerFound, GivesAddress, Gives
    <2>1. /\ taken \in net /\ id > 0 /\ n = id /\ id \in Nat /\ id <= MaxRequests
          /\ taken.name = name /\ taken.name \in Names /\ Sendable(taken.name)
          /\ records \in Answers
      BY <1>2 DEF Traffic, Asked, Latest
    <2>2. outcome = ReadAnswer(Message(n, name, records), n, name)
      BY <1>2, <2>1 DEF Latest, Received
    <2>3. name \in Name /\ Question(name, Plain(name))
      BY <2>1, SendableIsQuestion
    <2>4. Writable(records)
      BY <2>1, AnswersWritable
    <2>5. n \in Nat /\ n < IdBase * IdBase
      <3>1. IdBase * IdBase \in Nat /\ MaxRequests \in Nat
        BY DnsAssumption
      <3> QED BY <2>1, <3>1
    <2> HIDE DEF n, name, records
    <2>6. Len(records) \in Nat
      BY <2>4 DEF Writable
    <2>7. Gives(records[1], name)
      <3>1. records[i].name = name /\ Gives(records[i], records[i].name)
        BY DEF Gives
      <3> QED BY <2>1, <3>1 DEF AddressesFirst
    <2>8. i = 1
      BY <2>6, <2>7
    <2>9. Len(records) >= 1
      BY <2>6, <2>8
    <2> QED BY <2>2, <2>3, <2>4, <2>5, <2>7, <2>8, <2>9, ReadFinds
  <1> QED BY <1>1, <1>2, LatestStep, TrafficStart, TrafficStep, PTL DEF Spec

=============================================================================
