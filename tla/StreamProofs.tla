---------------------------- MODULE StreamProofs ----------------------------
(***************************************************************************)
(* The relay client byte by byte, for answers and packets of any contents  *)
(* and length, cut into pieces of any size.                                *)
(*                                                                         *)
(* The receiving functions are characterised first, all four by the same   *)
(* words: how long the head of an answer is, what the head says about the  *)
(* answer and how much is to follow.  What has been received and what is   *)
(* still on the wire are together what was sent, whatever sock_recv        *)
(* returned; so the invariant can speak of the whole answer.               *)
(***************************************************************************)
EXTENDS RelayStream, SequenceTheorems, TLAPS

(* Sequences that are cut.                                                 *)
LEMMA Cut ==
    ASSUME NEW s \in Seq(Nat), NEW n \in 0 .. Len(s)
    PROVE  /\ SubSeq(s, 1, n) \in Seq(Nat) /\ Len(SubSeq(s, 1, n)) = n
           /\ SubSeq(s, n + 1, Len(s)) \in Seq(Nat)
           /\ Len(SubSeq(s, n + 1, Len(s))) = Len(s) - n
           /\ SubSeq(s, 1, n) \o SubSeq(s, n + 1, Len(s)) = s
  <1>1. Len(s) \in Nat /\ n \in Nat /\ n <= Len(s)
    BY LenProperties
  <1>2. \A i \in 1 .. Len(s) : s[i] \in Nat
    BY ElementOfSeq
  <1>3. /\ SubSeq(s, 1, n) \in Seq(Nat)
        /\ Len(SubSeq(s, 1, n)) = IF 1 <= n THEN n - 1 + 1 ELSE 0
    <2>1. \A i \in 1 .. n : s[i] \in Nat
      BY <1>1, <1>2
    <2> QED BY <1>1, <2>1, SubSeqProperties
  <1>4. /\ SubSeq(s, n + 1, Len(s)) \in Seq(Nat)
        /\ Len(SubSeq(s, n + 1, Len(s))) =
              IF n + 1 <= Len(s) THEN Len(s) - (n + 1) + 1 ELSE 0
    <2>1. \A i \in n + 1 .. Len(s) : s[i] \in Nat
      BY <1>1, <1>2
    <2> QED BY <1>1, <2>1, SubSeqProperties
  <1>5. SubSeq(s, 1, n) \o SubSeq(s, n + 1, Len(s)) = SubSeq(s, 1, Len(s))
    <2>1. 1 \in 1 .. Len(s) + 1 /\ n \in 1 - 1 .. Len(s) /\ Len(s) \in n .. Len(s)
      BY <1>1
    <2> QED BY <2>1, ConcatAdjacentSubSeq
  <1>6. SubSeq(s, 1, Len(s)) = s
    BY SubSeqFull
  <1>7. Len(SubSeq(s, 1, n)) = n
    BY <1>1, <1>3
  <1>8. Len(SubSeq(s, n + 1, Len(s))) = Len(s) - n
    BY <1>1, <1>4
  <1> QED BY <1>3, <1>4, <1>5, <1>6, <1>7, <1>8

(* The beginning of a sequence that is continued.                          *)
LEMMA Beginning ==
    ASSUME NEW s \in Seq(Nat), NEW t \in Seq(Nat), NEW n \in 0 .. Len(s)
    PROVE  SubSeq(s \o t, 1, n) = SubSeq(s, 1, n)
  <1>1. Len(s) \in Nat
    BY LenProperties
  <1>2. CASE n = 0
    BY <1>2, SubSeqEmpty
  <1>3. CASE n # 0
    <2>1. 1 \in 1 .. Len(s) /\ n \in 1 .. Len(s)
      BY <1>1, <1>3
    <2> QED BY <2>1, SubSeqOfConcat1
  <1> QED BY <1>2, <1>3

(* Two ways to cut the same sequence.                                      *)
SameWhole(b, w, m, p) ==
    /\ b \in Seq(Nat) /\ w \in Seq(Nat) /\ m \in Seq(Nat) /\ p \in Seq(Nat)
    /\ b \o w = m \o p

LEMMA SamePrefix ==
    ASSUME NEW b, NEW w, NEW m, NEW p, SameWhole(b, w, m, p),
           NEW n \in Nat, n <= Len(b), n <= Len(m)
    PROVE  SubSeq(b, 1, n) = SubSeq(m, 1, n)
  <1>1. Len(b) \in Nat /\ Len(m) \in Nat
    BY LenProperties DEF SameWhole
  <1>2. n \in 0 .. Len(b) /\ n \in 0 .. Len(m)
    BY <1>1
  <1>3. /\ SubSeq(b \o w, 1, n) = SubSeq(b, 1, n)
        /\ SubSeq(m \o p, 1, n) = SubSeq(m, 1, n)
    BY <1>2, Beginning DEF SameWhole
  <1> QED BY <1>3 DEF SameWhole

LEMMA SameElement ==
    ASSUME NEW b, NEW w, NEW m, NEW p, SameWhole(b, w, m, p),
           NEW i \in Nat \ {0}, i <= Len(b), i <= Len(m)
    PROVE  b[i] = m[i]
  <1>1. Len(b) \in Nat /\ Len(m) \in Nat
    BY LenProperties DEF SameWhole
  <1> QED BY <1>1, ConcatProperties DEF SameWhole

LEMMA SameCut ==
    ASSUME NEW b, NEW w, NEW m, NEW p, SameWhole(b, w, m, p), Len(b) = Len(m)
    PROVE  b = m /\ w = p
  <1>1. Len(b) \in Nat /\ Len(b) <= Len(b) /\ Len(b) <= Len(m)
    BY LenProperties DEF SameWhole
  <1>2. SubSeq(b, 1, Len(b)) = SubSeq(m, 1, Len(m))
    BY <1>1, SamePrefix
  <1>3. b = m
    BY <1>2, SubSeqFull DEF SameWhole
  <1> QED BY <1>3, ConcatSimplifications DEF SameWhole

LEMMA Associative ==
    \A s, t, u \in Seq(Nat) : (s \o t) \o u = s \o (t \o u)
  <1> SUFFICES ASSUME NEW s \in Seq(Nat), NEW t \in Seq(Nat), NEW u \in Seq(Nat)
               PROVE  (s \o t) \o u = s \o (t \o u)
    OBVIOUS
  <1> DEFINE lhs == (s \o t) \o u
             rhs == s \o (t \o u)
  <1>1. lhs \in Seq(Nat) /\ rhs \in Seq(Nat)
    BY ConcatProperties
  <1>2. Len(lhs) = Len(rhs) /\ Len(lhs) \in Nat
    BY ConcatProperties, LenProperties
  <1>3. \A i \in 1 .. Len(lhs) : lhs[i] = rhs[i]
    BY ConcatProperties, LenProperties
  <1> HIDE DEF lhs, rhs
  <1>4. lhs = rhs
    BY <1>1, <1>2, <1>3, SeqEqual
  <1> QED BY <1>4 DEF lhs, rhs

-----------------------------------------------------------------------------
(* relay_recv.                                                             *)
Reception == [buffer : Seq(Nat), wire : Seq(Nat), rc : Int]
Stream(r) == r.buffer \o r.wire

LEMMA Min3 ==
    ASSUME NEW a \in Nat, NEW b \in Nat, NEW c \in Nat
    PROVE  /\ Min({a, b, c}) \in Nat
           /\ Min({a, b, c}) <= a /\ Min({a, b, c}) <= b /\ Min({a, b, c}) <= c
           /\ Min({a, b, c}) \in {a, b, c}
  <1>1. \E x \in {a, b, c} : \A y \in {a, b, c} : x <= y
    <2>1. CASE a <= b /\ a <= c
      BY <2>1
    <2>2. CASE b <= a /\ b <= c
      BY <2>2
    <2>3. CASE c <= a /\ c <= b
      BY <2>3
    <2> QED BY <2>1, <2>2, <2>3
  <1> DEFINE x == Min({a, b, c})
  <1>2. x \in {a, b, c} /\ \A y \in {a, b, c} : x <= y
    BY <1>1 DEF Min
  <1> HIDE DEF x
  <1>3. x \in Nat /\ x <= a /\ x <= b /\ x <= c
    BY <1>2
  <1> QED BY <1>2, <1>3 DEF x

(* Bytes only move from the wire to the buffer, and never more than were   *)
(* asked for.                                                              *)
LEMMA RecvStep ==
    ASSUME NEW r \in Reception, NEW size \in Nat, 0 < size, size <= PacketSize,
           NEW k \in Int, NEW q, q = relay_recv(r, size, k)
    PROVE  /\ q \in Reception
           /\ Stream(q) = Stream(r)
           /\ Len(r.buffer) >= size => q = With(r, size)
           /\ Len(r.buffer) < size => Len(q.buffer) <= size
           /\ q.rc \in {-1, 0, size}
           /\ q.rc = -1 => k < 0
           /\ q.rc = size => Len(q.buffer) >= size
  <1> DEFINE room == size - Len(r.buffer)
             n == Min({k, room, Len(r.wire)})
             more == r.buffer \o SubSeq(r.wire, 1, n)
             rest == SubSeq(r.wire, n + 1, Len(r.wire))
  <1>0. /\ r.buffer \in Seq(Nat) /\ r.wire \in Seq(Nat) /\ r.rc \in Int
        /\ Len(r.buffer) \in Nat /\ Len(r.wire) \in Nat /\ PacketSize \in Nat
    BY LenProperties, BytesAssumption DEF Reception
  <1>1. \A rc \in Int : /\ With(r, rc) \in Reception /\ With(r, rc).rc = rc
                        /\ With(r, rc).buffer = r.buffer
                        /\ Stream(With(r, rc)) = Stream(r)
    BY DEF With, Reception, Stream
  <1>2. CASE room <= 0
    <2>1. q = With(r, size)
      BY <1>0, <1>2 DEF relay_recv
    <2> QED BY <1>0, <1>1, <1>2, <2>1
  <1>3. CASE room > 0 /\ k < 0
    <2>1. q = With(r, -1)
      BY <1>0, <1>3 DEF relay_recv
    <2> QED BY <1>0, <1>1, <1>3, <2>1
  <1>4. CASE room > 0 /\ k >= 0
    <2>1. q = Received(more, rest, IF Len(more) < size THEN 0 ELSE size)
      <3>1. ~(size > PacketSize) /\ ~(room <= 0) /\ ~(k < 0)
        BY <1>0, <1>4
      <3> QED BY <3>1 DEF relay_recv
    <2>2. n \in 0 .. Len(r.wire) /\ n <= room
      <3>1. k \in Nat /\ room \in Nat
        BY <1>0, <1>4
      <3> DEFINE left == Len(r.wire)
      <3>2. left \in Nat
        BY <1>0
      <3> HIDE DEF room, left
      <3>3. /\ Min({k, room, left}) \in Nat
            /\ Min({k, room, left}) <= room /\ Min({k, room, left}) <= left
        BY <3>1, <3>2, Min3
      <3> QED BY <3>3 DEF left
    <2> HIDE DEF n
    <2>3. /\ SubSeq(r.wire, 1, n) \in Seq(Nat) /\ Len(SubSeq(r.wire, 1, n)) = n
          /\ rest \in Seq(Nat) /\ SubSeq(r.wire, 1, n) \o rest = r.wire
      BY <1>0, <2>2, Cut
    <2>4. more \in Seq(Nat) /\ Len(more) = Len(r.buffer) + n
      <3> DEFINE piece == SubSeq(r.wire, 1, n)
                 had == r.buffer
      <3>1. had \in Seq(Nat) /\ piece \in Seq(Nat) /\ Len(piece) = n
            /\ more = had \o piece
        BY <1>0, <2>3
      <3> HIDE DEF piece, had, more
      <3>2. more \in Seq(Nat) /\ Len(more) = Len(had) + Len(piece)
        BY <3>1, ConcatProperties
      <3> QED BY <3>1, <3>2 DEF had
    <2>5. more \o rest = r.buffer \o r.wire
      <3>1. more \o rest = r.buffer \o (SubSeq(r.wire, 1, n) \o rest)
        <4> DEFINE piece == SubSeq(r.wire, 1, n)
                   had == r.buffer
        <4>1. piece \in Seq(Nat) /\ rest \in Seq(Nat) /\ had \in Seq(Nat)
          BY <1>0, <2>3
        <4> HIDE DEF piece, rest, had
        <4>2. (had \o piece) \o rest = had \o (piece \o rest)
          BY <4>1, Associative
        <4> QED BY <4>2 DEF piece, had
      <3> QED BY <2>3, <3>1
    <2> HIDE DEF more, rest
    <2>6. q \in Reception /\ q.buffer = more /\ q.wire = rest
      BY <1>0, <2>1, <2>3, <2>4 DEF Received, Reception
    <2>7. q.rc = IF Len(more) < size THEN 0 ELSE size
      BY <2>1 DEF Received
    <2>8. Len(more) <= size
      BY <1>0, <2>2, <2>4
    <2>9. Len(r.buffer) < size /\ q.rc # -1
      BY <1>0, <1>4, <2>7
    <2>10. q.rc = size => Len(q.buffer) >= size
      BY <2>4, <2>6, <2>7, <2>8
    <2>11. q.rc \in {0, size}
      BY <2>7
    <2>12. Stream(q) = Stream(r)
      BY <2>5, <2>6 DEF Stream
    <2> QED BY <2>6, <2>8, <2>9, <2>10, <2>11, <2>12
  <1> QED BY <1>0, <1>2, <1>3, <1>4
-----------------------------------------------------------------------------
(* What the head of an answer says: the result, -1 if the answer is not    *)
(* understood, and how many bytes follow the head.                         *)
HeadSize(kind) ==
    CASE kind = "handshake" -> Len(Magic) + 1
      [] kind = "number" -> 3
      [] kind = "call" -> 3
      [] kind = "wait" -> 4

Verdict(kind, b) ==
    CASE kind = "handshake" ->
            IF SubSeq(b, 1, Len(Magic)) # Magic \/ b[HeadSize(kind)] \notin {0, 1}
            THEN -1 ELSE b[HeadSize(kind)] + 1
      [] kind = "number" ->
            IF SubSeq(b, 1, 2) = <<Version, 2>> /\ b[3] \in 1 .. MaxNumber
            THEN 1 ELSE -1
      [] kind = "call" ->
            IF SubSeq(b, 1, 2) = <<Version, 0>> /\ b[3] + 1 < 5
            THEN b[3] + 1 ELSE -1
      [] kind = "wait" ->
            IF SubSeq(b, 1, 2) = <<Version, 1>> /\ b[3] + 1 < 3
               /\ b[4] \in 1 .. MaxNumber
            THEN b[3] + 1 ELSE -1

Rest(kind, b) ==
    CASE kind = "handshake" -> IF b[HeadSize(kind)] = 1 THEN TokenSize ELSE 0
      [] kind = "number" -> b[3]
      [] kind = "call" -> 0
      [] kind = "wait" -> b[4]

(* An answer of which no more than itself has been received.               *)
Unfinished(kind, b) ==
    \/ Len(b) <= HeadSize(kind)
    \/ Verdict(kind, b) > 0 /\ Len(b) <= HeadSize(kind) + Rest(kind, b)

Complete(kind, b) ==
    /\ Len(b) >= HeadSize(kind)
    /\ Verdict(kind, b) > 0
    /\ Len(b) = HeadSize(kind) + Rest(kind, b)

(* The heads of the answers that name their kind in two bytes.             *)
LEMMA NumberHead ==
    ASSUME NEW b
    PROVE  /\ HeadSize("number") = 3 /\ Rest("number", b) = b[3]
           /\ \/ Verdict("number", b) = -1
              \/ Verdict("number", b) = 1 /\ b[3] \in 1 .. MaxNumber
  BY DEF HeadSize, Rest, Verdict

LEMMA CallHead ==
    ASSUME NEW b
    PROVE  /\ HeadSize("call") = 3 /\ Rest("call", b) = 0
           /\ \/ Verdict("call", b) = -1
              \/ Verdict("call", b) = b[3] + 1 /\ b[3] + 1 < 5
  BY DEF HeadSize, Rest, Verdict

LEMMA WaitHead ==
    ASSUME NEW b
    PROVE  /\ HeadSize("wait") = 4 /\ Rest("wait", b) = b[4]
           /\ \/ Verdict("wait", b) = -1
              \/ Verdict("wait", b) = b[3] + 1 /\ b[3] + 1 < 3
                                               /\ b[4] \in 1 .. MaxNumber
  BY DEF HeadSize, Rest, Verdict

LEMMA HeadFacts ==
    ASSUME NEW kind \in Kinds, NEW b \in Seq(Nat), Len(b) >= HeadSize(kind)
    PROVE  /\ HeadSize(kind) \in Nat /\ 0 < HeadSize(kind)
           /\ HeadSize(kind) <= PacketSize
           /\ Rest(kind, b) \in Nat
           /\ Verdict(kind, b) \in {-1, 1, 2, 3, 4}
           /\ kind # "call" => Verdict(kind, b) \in {-1, 1, 2}
           /\ Verdict(kind, b) > 0 => HeadSize(kind) + Rest(kind, b) <= PacketSize
  <1>1. /\ Len(b) \in Nat /\ Len(Magic) \in Nat /\ TokenSize \in Nat
        /\ MaxNumber \in Nat /\ PacketSize \in Nat
        /\ Len(Magic) + 1 + TokenSize <= PacketSize /\ 4 + MaxNumber <= PacketSize
    BY LenProperties, BytesAssumption, PacketSizeAssumption
  <1>2. \A i \in 1 .. Len(b) : b[i] \in Nat
    BY ElementOfSeq
  <1>3. CASE kind = "handshake"
    <2>1. HeadSize(kind) = Len(Magic) + 1
      BY <1>3 DEF HeadSize
    <2>2. b[HeadSize(kind)] \in Nat
      BY <1>1, <1>2, <2>1
    <2>3. Rest(kind, b) \in {0, TokenSize}
      BY <1>3 DEF Rest
    <2>4. Verdict(kind, b) \in {-1, 1, 2}
      BY <1>3, <2>2 DEF Verdict
    <2> QED BY <1>1, <2>1, <2>3, <2>4
  <1>4. CASE kind = "number"
    <2> DEFINE x == b[3]
               v == Verdict(kind, b)
               t == Rest(kind, b)
    <2>1. HeadSize(kind) = 3
      BY <1>4, NumberHead
    <2>2. x \in Nat
      BY <1>1, <1>2, <2>1
    <2>3. t = x /\ (v = -1 \/ (v = 1 /\ x \in 1 .. MaxNumber))
      BY <1>4, NumberHead
    <2> HIDE DEF x, v, t
    <2>4. t \in Nat /\ v \in {-1, 1} /\ (v > 0 => 3 + t <= PacketSize)
      BY <1>1, <2>2, <2>3
    <2> QED BY <1>1, <2>1, <2>4 DEF v, t
  <1>5. CASE kind = "call"
    <2> DEFINE x == b[3]
               v == Verdict(kind, b)
    <2>1. HeadSize(kind) = 3 /\ Rest(kind, b) = 0
      BY <1>5, CallHead
    <2>2. x \in Nat
      BY <1>1, <1>2, <2>1
    <2>3. v = -1 \/ (v = x + 1 /\ x + 1 < 5)
      BY <1>5, CallHead
    <2> HIDE DEF x, v
    <2>4. v \in {-1, 1, 2, 3, 4}
      BY <2>2, <2>3
    <2> QED BY <1>1, <1>5, <2>1, <2>4 DEF v
  <1>6. CASE kind = "wait"
    <2> DEFINE x == b[3]
               y == b[4]
               v == Verdict(kind, b)
               t == Rest(kind, b)
    <2>1. HeadSize(kind) = 4
      BY <1>6, WaitHead
    <2>2. x \in Nat /\ y \in Nat
      BY <1>1, <1>2, <2>1
    <2>3. /\ t = y
          /\ v = -1 \/ (v = x + 1 /\ x + 1 < 3 /\ y \in 1 .. MaxNumber)
      BY <1>6, WaitHead
    <2> HIDE DEF x, y, v, t
    <2>4. t \in Nat /\ v \in {-1, 1, 2} /\ (v > 0 => 4 + t <= PacketSize)
      BY <1>1, <2>2, <2>3
    <2> QED BY <1>1, <2>1, <2>4 DEF v, t
  <1> QED BY <1>3, <1>4, <1>5, <1>6 DEF Kinds

(* The head decides, whatever else has been received.                      *)
LEMMA HeadsAgree ==
    ASSUME NEW kind \in Kinds, NEW b, NEW w, NEW m, NEW p, SameWhole(b, w, m, p),
           Len(b) >= HeadSize(kind), Len(m) >= HeadSize(kind)
    PROVE  Verdict(kind, b) = Verdict(kind, m) /\ Rest(kind, b) = Rest(kind, m)
  <1>1. Len(b) \in Nat /\ Len(m) \in Nat /\ Len(Magic) \in Nat
    BY LenProperties, BytesAssumption DEF SameWhole
  <1>2. CASE kind = "handshake"
    <2>1. HeadSize(kind) = Len(Magic) + 1
      BY <1>2 DEF HeadSize
    <2>2. SubSeq(b, 1, Len(Magic)) = SubSeq(m, 1, Len(Magic))
      <3>1. Len(Magic) <= Len(b) /\ Len(Magic) <= Len(m)
        BY <1>1, <2>1
      <3> QED BY <1>1, <3>1, SamePrefix
    <2>3. b[HeadSize(kind)] = m[HeadSize(kind)]
      <3>1. HeadSize(kind) \in Nat \ {0}
        BY <1>1, <2>1
      <3> QED BY <1>1, <3>1, SameElement
    <2> QED BY <1>2, <2>2, <2>3 DEF Verdict, Rest
  <1>3. CASE kind \in {"number", "call", "wait"}
    <2>1. HeadSize(kind) = IF kind = "wait" THEN 4 ELSE 3
      BY <1>3 DEF HeadSize
    <2>2. 3 <= Len(b) /\ 3 <= Len(m) /\ 2 <= Len(b) /\ 2 <= Len(m)
      BY <1>1, <2>1
    <2>3. SubSeq(b, 1, 2) = SubSeq(m, 1, 2)
      BY <2>2, SamePrefix
    <2>4. b[3] = m[3]
      BY <2>2, SameElement
    <2>5. kind = "wait" => b[4] = m[4]
      BY <2>1, SameElement
    <2> QED BY <1>3, <2>3, <2>4, <2>5 DEF Verdict, Rest
  <1> QED BY <1>2, <1>3 DEF Kinds

(* A poll of a receiving function.                                         *)
Receives(kind, r, q, k1, k2) ==
    /\ q \in Reception /\ Stream(q) = Stream(r)
    /\ q.rc \in {-1, 0, 1, 2, 3, 4}
    /\ q.rc = 0 => Unfinished(kind, q.buffer)
    /\ q.rc > 0 => Complete(kind, q.buffer) /\ q.rc = Verdict(kind, q.buffer)
    /\ q.rc < 0 => \/ -1 \in {k1, k2}
                   \/ Len(q.buffer) >= HeadSize(kind) /\ Verdict(kind, q.buffer) < 0

LEMMA FirstRecv ==
    ASSUME NEW kind \in Kinds, NEW r \in Reception, Unfinished(kind, r.buffer),
           NEW k \in Int, NEW h, h = relay_recv(r, HeadSize(kind), k)
    PROVE  /\ h \in Reception /\ Stream(h) = Stream(r)
           /\ Unfinished(kind, h.buffer)
           /\ h.rc \in {-1, 0, HeadSize(kind)}
           /\ h.rc = -1 => k < 0
           /\ h.rc > 0 => Len(h.buffer) >= HeadSize(kind)
  <1>1. /\ HeadSize(kind) \in Nat /\ 0 < HeadSize(kind)
        /\ HeadSize(kind) <= PacketSize
    <2>1. /\ Len(Magic) \in Nat /\ TokenSize \in Nat /\ MaxNumber \in Nat
          /\ PacketSize \in Nat
          /\ Len(Magic) + 1 + TokenSize <= PacketSize
          /\ 4 + MaxNumber <= PacketSize
      BY LenProperties, BytesAssumption, PacketSizeAssumption
    <2>2. HeadSize(kind) \in {Len(Magic) + 1, 3, 4}
      BY DEF HeadSize, Kinds
    <2> QED BY <2>1, <2>2
  <1>2. /\ h \in Reception /\ Stream(h) = Stream(r)
        /\ Len(r.buffer) >= HeadSize(kind) => h = With(r, HeadSize(kind))
        /\ Len(r.buffer) < HeadSize(kind) => Len(h.buffer) <= HeadSize(kind)
        /\ h.rc \in {-1, 0, HeadSize(kind)}
        /\ h.rc = -1 => k < 0
        /\ h.rc = HeadSize(kind) => Len(h.buffer) >= HeadSize(kind)
    BY <1>1, RecvStep
  <1>3. Unfinished(kind, h.buffer)
    <2>1. CASE Len(r.buffer) >= HeadSize(kind)
      <3>1. h.buffer = r.buffer
        BY <1>2, <2>1 DEF With, Reception
      <3> QED BY <3>1
    <2>2. CASE Len(r.buffer) < HeadSize(kind)
      BY <1>2, <2>2 DEF Unfinished
    <2>3. Len(r.buffer) \in Nat
      BY LenProperties DEF Reception
    <2> QED BY <1>1, <2>1, <2>2, <2>3
  <1>4. h.rc > 0 => Len(h.buffer) >= HeadSize(kind)
    BY <1>1, <1>2
  <1> QED BY <1>2, <1>3, <1>4

LEMMA SecondRecv ==
    ASSUME NEW kind \in Kinds, NEW h \in Reception, Unfinished(kind, h.buffer),
           Len(h.buffer) >= HeadSize(kind), Verdict(kind, h.buffer) > 0,
           NEW k \in Int, NEW t,
           t = relay_recv(h, HeadSize(kind) + Rest(kind, h.buffer), k)
    PROVE  /\ t \in Reception /\ Stream(t) = Stream(h)
           /\ t.rc \in {-1, 0, HeadSize(kind) + Rest(kind, h.buffer)}
           /\ t.rc = -1 => k < 0
           /\ t.rc = 0 => Unfinished(kind, t.buffer)
           /\ t.rc > 0 => /\ Complete(kind, t.buffer)
                          /\ Verdict(kind, t.buffer) = Verdict(kind, h.buffer)
  <1> DEFINE size == HeadSize(kind) + Rest(kind, h.buffer)
  <1>1. /\ h.buffer \in Seq(Nat) /\ h.wire \in Seq(Nat) /\ Len(h.buffer) \in Nat
    BY LenProperties DEF Reception
  <1>2. /\ HeadSize(kind) \in Nat /\ 0 < HeadSize(kind)
        /\ Rest(kind, h.buffer) \in Nat /\ size <= PacketSize
    BY <1>1, HeadFacts
  <1>3. size \in Nat /\ 0 < size /\ HeadSize(kind) <= size
    BY <1>2
  <1>4. Len(h.buffer) <= size
    BY <1>1, <1>2 DEF Unfinished
  <1> HIDE DEF size
  <1>5. /\ t \in Reception /\ Stream(t) = Stream(h)
        /\ Len(h.buffer) >= size => t = With(h, size)
        /\ Len(h.buffer) < size => Len(t.buffer) <= size
        /\ t.rc \in {-1, 0, size}
        /\ t.rc = -1 => k < 0
        /\ t.rc = size => Len(t.buffer) >= size
    <2>1. t = relay_recv(h, size, k)
      BY DEF size
    <2> QED BY <1>2, <1>3, <2>1, RecvStep
  <1>6. t.buffer \in Seq(Nat) /\ t.wire \in Seq(Nat) /\ Len(t.buffer) \in Nat
    BY <1>5, LenProperties DEF Reception
  <1>7. Len(t.buffer) <= size
    <2>1. CASE Len(h.buffer) >= size
      <3>1. t.buffer = h.buffer
        BY <1>5, <2>1 DEF With, Reception
      <3> QED BY <1>4, <3>1
    <2> QED BY <1>1, <1>3, <1>5, <2>1
  <1>8. ASSUME Len(t.buffer) >= HeadSize(kind)
        PROVE  /\ Verdict(kind, t.buffer) = Verdict(kind, h.buffer)
               /\ Rest(kind, t.buffer) = Rest(kind, h.buffer)
    <2>1. SameWhole(t.buffer, t.wire, h.buffer, h.wire)
      BY <1>1, <1>5, <1>6 DEF Stream, SameWhole
    <2> QED BY <1>1, <1>6, <1>8, <2>1, HeadsAgree
  <1>9. Unfinished(kind, t.buffer)
    BY <1>2, <1>6, <1>7, <1>8 DEF Unfinished, size
  <1>10. t.rc > 0 => /\ Complete(kind, t.buffer)
                     /\ Verdict(kind, t.buffer) = Verdict(kind, h.buffer)
    <2> SUFFICES ASSUME t.rc > 0
                 PROVE  /\ Complete(kind, t.buffer)
                        /\ Verdict(kind, t.buffer) = Verdict(kind, h.buffer)
      OBVIOUS
    <2>1. Len(t.buffer) = size
      BY <1>3, <1>5, <1>6, <1>7
    <2>2. Len(t.buffer) >= HeadSize(kind)
      BY <1>2, <1>3, <2>1
    <2> QED BY <1>8, <2>1, <2>2 DEF Complete, size
  <1>11. t.rc \in {-1, 0, HeadSize(kind) + Rest(kind, h.buffer)}
    BY <1>5 DEF size
  <1> QED BY <1>5, <1>9, <1>10, <1>11

(* The three ways a poll goes on once it has the head.                     *)
HeadHere(kind, r, h) ==
    /\ r \in Reception /\ h \in Reception /\ Stream(h) = Stream(r)
    /\ Unfinished(kind, h.buffer) /\ Len(h.buffer) >= HeadSize(kind)

LEMMA WithFacts ==
    ASSUME NEW r \in Reception, NEW rc \in Int
    PROVE  /\ With(r, rc) \in Reception /\ With(r, rc).rc = rc
           /\ With(r, rc).buffer = r.buffer /\ Stream(With(r, rc)) = Stream(r)
  BY DEF With, Reception, Stream

LEMMA HeadMissing ==
    ASSUME NEW kind \in Kinds, NEW r \in Reception, Unfinished(kind, r.buffer),
           NEW k1 \in Int, NEW k2 \in Int, k1 >= -1,
           relay_recv(r, HeadSize(kind), k1).rc <= 0
    PROVE  Receives(kind, r, relay_recv(r, HeadSize(kind), k1), k1, k2)
  <1> DEFINE h == relay_recv(r, HeadSize(kind), k1)
  <1>1. /\ h \in Reception /\ Stream(h) = Stream(r)
        /\ Unfinished(kind, h.buffer)
        /\ h.rc \in {-1, 0, HeadSize(kind)}
        /\ h.rc = -1 => k1 < 0
    BY FirstRecv
  <1>2. h.rc <= 0
    OBVIOUS
  <1>3. HeadSize(kind) \in Nat /\ 0 < HeadSize(kind)
    <2>1. Len(Magic) \in Nat
      BY LenProperties, BytesAssumption
    <2> QED BY <2>1 DEF HeadSize, Kinds
  <1> HIDE DEF h
  <1>4. h.rc \in {-1, 0} /\ (h.rc < 0 => k1 = -1)
    BY <1>1, <1>2, <1>3
  <1>5. Receives(kind, r, h, k1, k2)
    BY <1>1, <1>2, <1>4 DEF Receives
  <1> QED BY <1>5 DEF h

LEMMA HeadRefused ==
    ASSUME NEW kind \in Kinds, NEW r, NEW h, HeadHere(kind, r, h),
           Verdict(kind, h.buffer) = -1, NEW k1, NEW k2
    PROVE  Receives(kind, r, With(h, -1), k1, k2)
  <1> DEFINE q == With(h, -1)
  <1>1. /\ q \in Reception /\ q.rc = -1
        /\ q.buffer = h.buffer /\ Stream(q) = Stream(h)
    BY WithFacts DEF HeadHere
  <1> HIDE DEF q
  <1>2. Receives(kind, r, q, k1, k2)
    BY <1>1 DEF HeadHere, Receives
  <1> QED BY <1>2 DEF q

LEMMA HeadSuffices ==
    ASSUME NEW kind \in Kinds, NEW r, NEW h, HeadHere(kind, r, h),
           Verdict(kind, h.buffer) > 0, Rest(kind, h.buffer) = 0, NEW k1, NEW k2
    PROVE  Receives(kind, r, With(h, Verdict(kind, h.buffer)), k1, k2)
  <1>1. /\ Verdict(kind, h.buffer) \in {-1, 1, 2, 3, 4}
        /\ HeadSize(kind) \in Nat /\ Len(h.buffer) \in Nat
    BY HeadFacts, LenProperties DEF HeadHere, Reception
  <1>2. Complete(kind, h.buffer)
    BY <1>1 DEF HeadHere, Unfinished, Complete
  <1> DEFINE rc == Verdict(kind, h.buffer)
  <1>4. rc \in {1, 2, 3, 4} /\ Verdict(kind, h.buffer) = rc
    BY <1>1
  <1> HIDE DEF rc
  <1> DEFINE q == With(h, rc)
  <1>3. /\ q \in Reception /\ q.rc = rc
        /\ q.buffer = h.buffer /\ Stream(q) = Stream(h)
    BY <1>4, WithFacts DEF HeadHere
  <1> HIDE DEF q
  <1>5. Receives(kind, r, q, k1, k2)
    BY <1>2, <1>3, <1>4 DEF HeadHere, Receives
  <1> QED BY <1>5 DEF q, rc

LEMMA RestFollows ==
    ASSUME NEW kind \in Kinds, NEW r, NEW h, HeadHere(kind, r, h),
           Verdict(kind, h.buffer) > 0, NEW k1 \in Int, NEW k2 \in Int, k2 >= -1,
           NEW t, t = relay_recv(h, HeadSize(kind) + Rest(kind, h.buffer), k2)
    PROVE  Receives(kind, r,
                    IF t.rc <= 0 THEN t ELSE With(t, Verdict(kind, h.buffer)),
                    k1, k2)
  <1>1. /\ t \in Reception /\ Stream(t) = Stream(h)
        /\ t.rc \in {-1, 0, HeadSize(kind) + Rest(kind, h.buffer)}
        /\ t.rc = -1 => k2 < 0
        /\ t.rc = 0 => Unfinished(kind, t.buffer)
        /\ t.rc > 0 => /\ Complete(kind, t.buffer)
                       /\ Verdict(kind, t.buffer) = Verdict(kind, h.buffer)
    BY SecondRecv DEF HeadHere
  <1>2. /\ Verdict(kind, h.buffer) \in {1, 2, 3, 4}
        /\ HeadSize(kind) \in Nat /\ 0 < HeadSize(kind)
        /\ Rest(kind, h.buffer) \in Nat
    BY HeadFacts DEF HeadHere, Reception
  <1>3. Stream(t) = Stream(r)
    BY <1>1 DEF HeadHere
  <1>4. CASE t.rc <= 0
    <2>1. t.rc \in {-1, 0} /\ (t.rc < 0 => k2 = -1)
      BY <1>1, <1>2, <1>4
    <2> QED BY <1>1, <1>3, <1>4, <2>1 DEF Receives
  <1>5. CASE ~(t.rc <= 0)
    <2>1. t.rc > 0
      BY <1>5, <1>1 DEF Reception
    <2> DEFINE rc == Verdict(kind, h.buffer)
    <2>3. rc \in {1, 2, 3, 4} /\ Verdict(kind, t.buffer) = rc
      BY <1>1, <1>2, <2>1
    <2> HIDE DEF rc
    <2> DEFINE q == With(t, rc)
    <2>2. /\ q \in Reception /\ q.rc = rc
          /\ q.buffer = t.buffer /\ Stream(q) = Stream(t)
      <3>1. rc \in Int /\ t \in Reception
        BY <1>1, <2>3
      <3> QED BY <3>1, WithFacts
    <2> HIDE DEF q
    <2>4. Receives(kind, r, q, k1, k2)
      BY <1>1, <1>3, <2>1, <2>2, <2>3 DEF Receives
    <2> QED BY <1>5, <2>4 DEF q, rc
  <1> QED BY <1>4, <1>5

LEMMA HandshakeReceives ==
    ASSUME NEW r \in Reception, Unfinished("handshake", r.buffer),
           NEW k1 \in Int, NEW k2 \in Int, k1 >= -1, k2 >= -1
    PROVE  Receives("handshake", r, relay_handshake_recv(r, k1, k2), k1, k2)
  <1> DEFINE kind == "handshake"
             size == Len(Magic) + 1
             h == relay_recv(r, size, k1)
             t == relay_recv(h, size + TokenSize, k2)
             q == relay_handshake_recv(r, k1, k2)
  <1>1. kind \in Kinds /\ HeadSize(kind) = size
    BY DEF Kinds, HeadSize
  <1>2. CASE h.rc <= 0
    <2>1. q = h
      BY <1>2 DEF relay_handshake_recv
    <2>2. relay_recv(r, HeadSize(kind), k1).rc <= 0
      BY <1>1, <1>2
    <2> QED BY <1>1, <2>1, <2>2, HeadMissing
  <1>3. CASE ~(h.rc <= 0)
    <2>1. HeadHere(kind, r, h)
      <3>1. /\ h \in Reception /\ Stream(h) = Stream(r)
            /\ Unfinished(kind, h.buffer)
            /\ h.rc > 0 => Len(h.buffer) >= HeadSize(kind)
        BY <1>1, FirstRecv
      <3>2. h.rc > 0
        BY <1>3, <3>1 DEF Reception
      <3> QED BY <3>1, <3>2 DEF HeadHere
    <2> HIDE DEF h
    <2>2. q = IF SubSeq(h.buffer, 1, Len(Magic)) # Magic THEN With(h, -1)
              ELSE CASE h.buffer[size] = 0 -> With(h, 1)
                     [] h.buffer[size] = 1 ->
                            IF t.rc <= 0 THEN t ELSE With(t, 2)
                     [] OTHER -> With(h, -1)
      BY <1>3 DEF relay_handshake_recv, h
    <2> HIDE DEF q
    <2>3. CASE SubSeq(h.buffer, 1, Len(Magic)) # Magic
      <3>1. Verdict(kind, h.buffer) = -1 /\ q = With(h, -1)
        BY <2>2, <2>3 DEF Verdict
      <3> QED BY <1>1, <2>1, <3>1, HeadRefused DEF q
    <2>4. CASE SubSeq(h.buffer, 1, Len(Magic)) = Magic /\ h.buffer[size] = 0
      <3>1. /\ Verdict(kind, h.buffer) = 1 /\ Rest(kind, h.buffer) = 0
            /\ q = With(h, 1)
        BY <1>1, <2>2, <2>4 DEF Verdict, Rest
      <3> QED BY <1>1, <2>1, <3>1, HeadSuffices DEF q
    <2>5. CASE SubSeq(h.buffer, 1, Len(Magic)) = Magic /\ h.buffer[size] = 1
      <3>1. /\ Verdict(kind, h.buffer) = 2 /\ Rest(kind, h.buffer) = TokenSize
            /\ q = IF t.rc <= 0 THEN t ELSE With(t, 2)
        BY <1>1, <2>2, <2>5 DEF Verdict, Rest
      <3>2. t = relay_recv(h, HeadSize(kind) + Rest(kind, h.buffer), k2)
        BY <1>1, <3>1
      <3> HIDE DEF t, size, kind
      <3> QED BY <1>1, <2>1, <3>1, <3>2, RestFollows DEF q, kind
    <2>6. CASE SubSeq(h.buffer, 1, Len(Magic)) = Magic /\ h.buffer[size] \notin {0, 1}
      <3>1. Verdict(kind, h.buffer) = -1 /\ q = With(h, -1)
        BY <1>1, <2>2, <2>6 DEF Verdict
      <3> QED BY <1>1, <2>1, <3>1, HeadRefused DEF q
    <2> QED BY <2>3, <2>4, <2>5, <2>6
  <1> QED BY <1>2, <1>3

(* A head of which the last byte is the length of the number that follows. *)
LEMMA NumberFollows ==
    ASSUME NEW kind \in {"number", "wait"}, NEW r, NEW h, HeadHere(kind, r, h),
           NEW rc \in {1, 2}, NEW k1 \in Int, NEW k2 \in Int, k2 >= -1,
           h.buffer[HeadSize(kind)] \in 1 .. MaxNumber => Verdict(kind, h.buffer) = rc,
           h.buffer[HeadSize(kind)] \notin 1 .. MaxNumber => Verdict(kind, h.buffer) = -1
    PROVE  Receives(kind, r, NumberRecv(h, HeadSize(kind), k2, rc), k1, k2)
  <1> DEFINE size == HeadSize(kind)
             t == relay_recv(h, size + h.buffer[size], k2)
             q == NumberRecv(h, size, k2, rc)
  <1>1. kind \in Kinds /\ Rest(kind, h.buffer) = h.buffer[size]
    BY DEF Kinds, Rest, HeadSize
  <1>2. CASE h.buffer[size] \notin 1 .. MaxNumber
    <2>1. q = With(h, -1)
      BY <1>2 DEF NumberRecv
    <2> QED BY <1>1, <1>2, <2>1, HeadRefused
  <1>3. CASE h.buffer[size] \in 1 .. MaxNumber
    <2>1. q = IF t.rc <= 0 THEN t ELSE With(t, rc)
      BY <1>3 DEF NumberRecv
    <2>2. Verdict(kind, h.buffer) = rc /\ rc > 0
      BY <1>3
    <2>3. t = relay_recv(h, HeadSize(kind) + Rest(kind, h.buffer), k2)
      BY <1>1
    <2> HIDE DEF t, q
    <2>4. Receives(kind, r, IF t.rc <= 0 THEN t ELSE With(t, rc), k1, k2)
      BY <1>1, <2>2, <2>3, RestFollows
    <2> QED BY <2>1, <2>4 DEF q
  <1> QED BY <1>2, <1>3

LEMMA HeadReceived ==
    ASSUME NEW kind \in Kinds, NEW r \in Reception, Unfinished(kind, r.buffer),
           NEW k \in Int, NEW h, h = relay_recv(r, HeadSize(kind), k), ~(h.rc <= 0)
    PROVE  HeadHere(kind, r, h)
  <1>1. /\ h \in Reception /\ Stream(h) = Stream(r)
        /\ Unfinished(kind, h.buffer)
        /\ h.rc > 0 => Len(h.buffer) >= HeadSize(kind)
    BY FirstRecv
  <1>2. h.rc > 0
    BY <1>1 DEF Reception
  <1> QED BY <1>1, <1>2 DEF HeadHere

LEMMA NumberReceives ==
    ASSUME NEW r \in Reception, Unfinished("number", r.buffer),
           NEW k1 \in Int, NEW k2 \in Int, k1 >= -1, k2 >= -1
    PROVE  Receives("number", r, relay_get_number_recv(r, k1, k2), k1, k2)
  <1> DEFINE kind == "number"
             h == relay_recv(r, 3, k1)
             q == relay_get_number_recv(r, k1, k2)
  <1>1. kind \in Kinds /\ HeadSize(kind) = 3 /\ kind \in {"number", "wait"}
    BY DEF Kinds, HeadSize
  <1>2. CASE h.rc <= 0
    <2>1. q = h
      BY <1>2 DEF relay_get_number_recv
    <2>2. relay_recv(r, HeadSize(kind), k1).rc <= 0
      BY <1>1, <1>2
    <2> QED BY <1>1, <2>1, <2>2, HeadMissing
  <1>3. CASE ~(h.rc <= 0)
    <2>1. HeadHere(kind, r, h)
      BY <1>1, <1>3, HeadReceived
    <2> HIDE DEF h
    <2>2. q = IF SubSeq(h.buffer, 1, 2) # <<Version, 2>> THEN With(h, -1)
              ELSE NumberRecv(h, 3, k2, 1)
      BY <1>3 DEF relay_get_number_recv, h
    <2> HIDE DEF q
    <2>3. CASE SubSeq(h.buffer, 1, 2) # <<Version, 2>>
      <3>1. Verdict(kind, h.buffer) = -1 /\ q = With(h, -1)
        BY <2>2, <2>3 DEF Verdict
      <3> QED BY <1>1, <2>1, <3>1, HeadRefused DEF q
    <2>4. CASE SubSeq(h.buffer, 1, 2) = <<Version, 2>>
      <3>1. /\ h.buffer[3] \in 1 .. MaxNumber => Verdict(kind, h.buffer) = 1
            /\ h.buffer[3] \notin 1 .. MaxNumber => Verdict(kind, h.buffer) = -1
        BY <2>4 DEF Verdict
      <3>2. q = NumberRecv(h, HeadSize(kind), k2, 1)
        BY <1>1, <2>2, <2>4
      <3>3. Receives(kind, r, NumberRecv(h, HeadSize(kind), k2, 1), k1, k2)
        BY <1>1, <2>1, <3>1, NumberFollows
      <3> QED BY <3>2, <3>3 DEF q
    <2> QED BY <2>3, <2>4
  <1> QED BY <1>2, <1>3

LEMMA CallReceives ==
    ASSUME NEW r \in Reception, Unfinished("call", r.buffer),
           NEW k1 \in Int, NEW k2 \in Int, k1 >= -1, k2 >= -1
    PROVE  Receives("call", r, relay_call_recv(r, k1), k1, k2)
  <1> DEFINE kind == "call"
             h == relay_recv(r, 3, k1)
             q == relay_call_recv(r, k1)
  <1>1. kind \in Kinds /\ HeadSize(kind) = 3
    BY DEF Kinds, HeadSize
  <1>2. CASE h.rc <= 0
    <2>1. q = h
      BY <1>2 DEF relay_call_recv
    <2>2. relay_recv(r, HeadSize(kind), k1).rc <= 0
      BY <1>1, <1>2
    <2> QED BY <1>1, <2>1, <2>2, HeadMissing
  <1>3. CASE ~(h.rc <= 0)
    <2>1. HeadHere(kind, r, h)
      BY <1>1, <1>3, HeadReceived
    <2> HIDE DEF h
    <2>2. q = IF SubSeq(h.buffer, 1, 2) # <<Version, 0>> \/ h.buffer[3] + 1 >= 5
              THEN With(h, -1) ELSE With(h, h.buffer[3] + 1)
      BY <1>3 DEF relay_call_recv, h
    <2>0. h.buffer[3] \in Nat
      <3>1. h.buffer \in Seq(Nat) /\ 3 \in 1 .. Len(h.buffer)
        BY <1>1, <2>1, LenProperties DEF HeadHere, Reception
      <3> QED BY <3>1, ElementOfSeq
    <2> HIDE DEF q
    <2>3. CASE SubSeq(h.buffer, 1, 2) # <<Version, 0>> \/ h.buffer[3] + 1 >= 5
      <3>1. Verdict(kind, h.buffer) = -1 /\ q = With(h, -1)
        BY <2>0, <2>2, <2>3 DEF Verdict
      <3> QED BY <1>1, <2>1, <3>1, HeadRefused DEF q
    <2>4. CASE ~(SubSeq(h.buffer, 1, 2) # <<Version, 0>> \/ h.buffer[3] + 1 >= 5)
      <3>1. Verdict(kind, h.buffer) = h.buffer[3] + 1
        BY <2>0, <2>4 DEF Verdict
      <3>2. /\ q = With(h, Verdict(kind, h.buffer))
            /\ Verdict(kind, h.buffer) > 0 /\ Rest(kind, h.buffer) = 0
        BY <2>0, <2>2, <2>4, <3>1 DEF Rest
      <3> QED BY <1>1, <2>1, <3>2, HeadSuffices DEF q
    <2> QED BY <2>3, <2>4
  <1> QED BY <1>2, <1>3

LEMMA WaitReceives ==
    ASSUME NEW r \in Reception, Unfinished("wait", r.buffer),
           NEW k1 \in Int, NEW k2 \in Int, k1 >= -1, k2 >= -1
    PROVE  Receives("wait", r, relay_wait_recv(r, k1, k2), k1, k2)
  <1> DEFINE kind == "wait"
             h == relay_recv(r, 4, k1)
             q == relay_wait_recv(r, k1, k2)
  <1>1. kind \in Kinds /\ HeadSize(kind) = 4 /\ kind \in {"number", "wait"}
    BY DEF Kinds, HeadSize
  <1>2. CASE h.rc <= 0
    <2>1. q = h
      BY <1>2 DEF relay_wait_recv
    <2>2. relay_recv(r, HeadSize(kind), k1).rc <= 0
      BY <1>1, <1>2
    <2> QED BY <1>1, <2>1, <2>2, HeadMissing
  <1>3. CASE ~(h.rc <= 0)
    <2>1. HeadHere(kind, r, h)
      BY <1>1, <1>3, HeadReceived
    <2> HIDE DEF h
    <2> DEFINE res == h.buffer[3] + 1
    <2>2. q = IF SubSeq(h.buffer, 1, 2) # <<Version, 1>> \/ res >= 3
              THEN With(h, -1) ELSE NumberRecv(h, 4, k2, res)
      BY <1>3 DEF relay_wait_recv, h
    <2>0. h.buffer[3] \in Nat
      <3>1. h.buffer \in Seq(Nat) /\ 3 \in 1 .. Len(h.buffer)
        BY <1>1, <2>1, LenProperties DEF HeadHere, Reception
      <3> QED BY <3>1, ElementOfSeq
    <2> HIDE DEF q
    <2>3. CASE SubSeq(h.buffer, 1, 2) # <<Version, 1>> \/ res >= 3
      <3>1. Verdict(kind, h.buffer) = -1 /\ q = With(h, -1)
        BY <2>0, <2>2, <2>3 DEF Verdict
      <3> QED BY <1>1, <2>1, <3>1, HeadRefused DEF q
    <2>4. CASE ~(SubSeq(h.buffer, 1, 2) # <<Version, 1>> \/ res >= 3)
      <3>1. /\ h.buffer[4] \in 1 .. MaxNumber => Verdict(kind, h.buffer) = res
            /\ h.buffer[4] \notin 1 .. MaxNumber => Verdict(kind, h.buffer) = -1
        BY <2>0, <2>4 DEF Verdict
      <3>2. q = NumberRecv(h, HeadSize(kind), k2, res)
        BY <1>1, <2>2, <2>4
      <3>4. res \in {1, 2}
        BY <2>0, <2>4
      <3> HIDE DEF res
      <3>3. Receives(kind, r, NumberRecv(h, HeadSize(kind), k2, res), k1, k2)
        BY <1>1, <2>1, <3>1, <3>4, NumberFollows
      <3> QED BY <3>2, <3>3 DEF q
    <2> QED BY <2>3, <2>4
  <1> QED BY <1>2, <1>3

-----------------------------------------------------------------------------
(* What the receiving functions accept is what Carries describes.          *)
Value(kind, m) ==
    IF kind = "call" THEN <<>> ELSE SubSeq(m, HeadSize(kind) + 1, Len(m))

LEMMA NextByte ==
    ASSUME NEW m \in Seq(Nat), NEW n \in Nat, n < Len(m),
           NEW s, SubSeq(m, 1, n) = s
    PROVE  SubSeq(m, 1, n + 1) = Append(s, m[n + 1])
  <1> DEFINE lhs == SubSeq(m, 1, n + 1)
             rhs == Append(s, m[n + 1])
  <1>1. Len(m) \in Nat /\ n \in 0 .. Len(m) /\ n + 1 \in 0 .. Len(m)
    BY LenProperties
  <1>2. /\ s \in Seq(Nat) /\ Len(s) = n
        /\ lhs \in Seq(Nat) /\ Len(lhs) = n + 1
    BY <1>1, Cut
  <1>3. m[n + 1] \in Nat
    BY <1>1, ElementOfSeq
  <1>4. rhs \in Seq(Nat) /\ Len(rhs) = n + 1
    BY <1>2, <1>3, AppendProperties
  <1>5. ASSUME NEW i \in 1 .. n + 1 PROVE lhs[i] = rhs[i]
    <2>1. lhs[i] = m[i]
      BY <1>1
    <2>2. CASE i = n + 1
      BY <1>2, <1>3, <2>1, <2>2, AppendProperties
    <2>3. CASE i # n + 1
      <3>1. i \in 1 .. n
        BY <2>3
      <3>2. s[i] = m[i]
        BY <1>1, <3>1
      <3>3. rhs[i] = s[i]
        BY <1>2, <1>3, <3>1, AppendProperties
      <3> QED BY <2>1, <3>2, <3>3
    <2> QED BY <2>2, <2>3
  <1> HIDE DEF lhs, rhs
  <1>6. lhs = rhs
    BY <1>2, <1>4, <1>5, SeqEqual
  <1> QED BY <1>6 DEF lhs, rhs

(* Tuples, as they are built.                                              *)
LEMMA ThreeBytes ==
    ASSUME NEW a \in Nat, NEW b \in Nat, NEW c \in Nat
    PROVE  Append(<<a, b>>, c) = <<a, b, c>>
  <1> DEFINE lhs == Append(<<a, b>>, c)
             rhs == <<a, b, c>>
  <1>1. <<a, b>> \in Seq(Nat) /\ Len(<<a, b>>) = 2
    OBVIOUS
  <1>2. lhs \in Seq(Nat) /\ Len(lhs) = 3
    BY <1>1, AppendProperties
  <1>3. rhs \in Seq(Nat) /\ Len(rhs) = 3
    OBVIOUS
  <1>4. \A i \in 1 .. 3 : lhs[i] = rhs[i]
    <2>1. lhs[1] = a /\ lhs[2] = b /\ lhs[3] = c
      BY <1>1, AppendProperties
    <2>2. rhs[1] = a /\ rhs[2] = b /\ rhs[3] = c
      OBVIOUS
    <2> QED BY <2>1, <2>2
  <1> HIDE DEF lhs, rhs
  <1>5. lhs = rhs
    BY <1>2, <1>3, <1>4, SeqEqual
  <1> QED BY <1>5 DEF lhs, rhs

LEMMA FourBytes ==
    ASSUME NEW a \in Nat, NEW b \in Nat, NEW c \in Nat, NEW d \in Nat
    PROVE  Append(<<a, b, c>>, d) = <<a, b, c, d>>
  <1> DEFINE lhs == Append(<<a, b, c>>, d)
             rhs == <<a, b, c, d>>
  <1>1. <<a, b, c>> \in Seq(Nat) /\ Len(<<a, b, c>>) = 3
    OBVIOUS
  <1>2. lhs \in Seq(Nat) /\ Len(lhs) = 4
    BY <1>1, AppendProperties
  <1>3. rhs \in Seq(Nat) /\ Len(rhs) = 4
    OBVIOUS
  <1>4. \A i \in 1 .. 4 : lhs[i] = rhs[i]
    <2>1. lhs[1] = a /\ lhs[2] = b /\ lhs[3] = c /\ lhs[4] = d
      BY <1>1, AppendProperties
    <2>2. rhs[1] = a /\ rhs[2] = b /\ rhs[3] = c /\ rhs[4] = d
      OBVIOUS
    <2> QED BY <2>1, <2>2
  <1> HIDE DEF lhs, rhs
  <1>5. lhs = rhs
    BY <1>2, <1>3, <1>4, SeqEqual
  <1> QED BY <1>5 DEF lhs, rhs

LEMMA CompleteIsCarried ==
    ASSUME NEW kind \in Kinds, NEW m \in Seq(Nat), Complete(kind, m)
    PROVE  Carries(kind, m, Verdict(kind, m), Value(kind, m))
  <1> DEFINE n == HeadSize(kind)
             v == SubSeq(m, n + 1, Len(m))
  <1>1. /\ Len(m) \in Nat /\ Len(Magic) \in Nat /\ TokenSize \in Nat
        /\ n \in {Len(Magic) + 1, 3, 4} /\ n <= Len(m)
    BY LenProperties, BytesAssumption DEF Complete, HeadSize, Kinds
  <1>2. /\ SubSeq(m, 1, n) \o v = m
        /\ v \in Seq(Nat) /\ Len(v) = Rest(kind, m)
    <2>1. n \in 0 .. Len(m)
      BY <1>1
    <2>2. Len(v) = Len(m) - n /\ v \in Seq(Nat) /\ SubSeq(m, 1, n) \o v = m
      BY <2>1, Cut
    <2>3. Len(m) = n + Rest(kind, m) /\ Rest(kind, m) \in Nat
      BY HeadFacts DEF Complete
    <2> HIDE DEF n, v
    <2> QED BY <1>1, <2>2, <2>3
  <1>3. Verdict(kind, m) > 0
    BY DEF Complete
  <1>4. \A i \in 1 .. Len(m) : m[i] \in Nat
    BY ElementOfSeq
  <1>5. CASE kind = "handshake"
    <2>1. n = Len(Magic) + 1
      BY <1>5 DEF HeadSize
    <2>2. /\ SubSeq(m, 1, Len(Magic)) = Magic /\ m[n] \in {0, 1}
          /\ Verdict(kind, m) = m[n] + 1
      BY <1>3, <1>5, <2>1 DEF Verdict
    <2>3. SubSeq(m, 1, n) = Append(Magic, m[n])
      <3>1. Len(Magic) < Len(m)
        BY <1>1, <2>1
      <3> QED BY <1>1, <2>1, <2>2, <3>1, NextByte
    <2>4. CASE m[n] = 0
      <3>1. Len(v) = 0
        BY <1>2, <1>5, <2>4 DEF Rest
      <3>2. v = <<>>
        BY <1>2, <3>1, EmptySeq
      <3>3. m = Append(Magic, 0)
        <4>1. SubSeq(m, 1, n) \in Seq(Nat)
          BY <1>1, Cut
        <4> QED BY <1>2, <2>3, <2>4, <3>2, <4>1, ConcatEmptySeq
      <3>4. Value(kind, m) = <<>> /\ Verdict(kind, m) = 1
        BY <1>5, <2>2, <2>4, <3>2 DEF Value
      <3> QED BY <1>5, <3>3, <3>4 DEF Carries
    <2>5. CASE m[n] = 1
      <3>1. Len(v) = TokenSize
        BY <1>2, <1>5, <2>5 DEF Rest
      <3>2. m = Append(Magic, 1) \o v
        BY <1>2, <2>3, <2>5
      <3>3. Value(kind, m) = v /\ Verdict(kind, m) = 2
        BY <1>5, <2>2, <2>5 DEF Value
      <3> QED BY <1>5, <3>1, <3>2, <3>3 DEF Carries
    <2> QED BY <2>2, <2>4, <2>5
  <1>6. ASSUME n \in {3, 4}
        PROVE  SubSeq(m, 1, 3) = Append(SubSeq(m, 1, 2), m[3])
    <2>1. 2 < Len(m)
      BY <1>1, <1>6
    <2> QED BY <2>1, NextByte
  <1>7. CASE kind = "number"
    <2>1. n = 3
      BY <1>7 DEF HeadSize
    <2>2. /\ SubSeq(m, 1, 2) = <<Version, 2>> /\ m[3] \in 1 .. MaxNumber
          /\ Verdict(kind, m) = 1
      BY <1>3, <1>7 DEF Verdict
    <2>3. Len(v) = m[3] /\ Value(kind, m) = v
      BY <1>2, <1>7 DEF Rest, Value
    <2>4. SubSeq(m, 1, n) = <<Version, 2, m[3]>>
      <3>1. SubSeq(m, 1, n) = Append(<<Version, 2>>, m[3])
        BY <1>6, <2>1, <2>2
      <3>2. Version \in Nat /\ 2 \in Nat /\ m[3] \in Nat
        BY <2>2 DEF Version
      <3> QED BY <3>1, <3>2, ThreeBytes
    <2>5. m = <<Version, 2, Len(v)>> \o v
      BY <1>2, <2>3, <2>4
    <2> QED BY <1>7, <2>2, <2>3, <2>5 DEF Carries
  <1>8. CASE kind = "call"
    <2>1. n = 3
      BY <1>8 DEF HeadSize
    <2>0. m[3] \in Nat
      BY <1>1, <1>4, <2>1
    <2>2. /\ SubSeq(m, 1, 2) = <<Version, 0>>
          /\ Verdict(kind, m) = m[3] + 1 /\ m[3] + 1 < 5
      BY <1>3, <1>8 DEF Verdict
    <2>3. Len(v) = 0 /\ Value(kind, m) = <<>>
      BY <1>2, <1>8 DEF Rest, Value
    <2>4. SubSeq(m, 1, n) = <<Version, 0, m[3]>>
      <3>1. SubSeq(m, 1, n) = Append(<<Version, 0>>, m[3])
        BY <1>6, <2>1, <2>2
      <3>2. Version \in Nat /\ 0 \in Nat
        BY DEF Version
      <3> QED BY <2>0, <3>1, <3>2, ThreeBytes
    <2>5. m = <<Version, 0, m[3]>>
      <3>1. v = <<>>
        BY <1>2, <2>3, EmptySeq
      <3>2. SubSeq(m, 1, n) \in Seq(Nat)
        BY <1>1, Cut
      <3> QED BY <1>2, <2>4, <3>1, <3>2, ConcatEmptySeq
    <2>6. Verdict(kind, m) - 1 = m[3] /\ Verdict(kind, m) \in 1 .. 4
      BY <2>0, <2>2
    <2> QED BY <1>8, <2>3, <2>5, <2>6 DEF Carries
  <1>9. CASE kind = "wait"
    <2>1. n = 4
      BY <1>9 DEF HeadSize
    <2>0. m[3] \in Nat
      BY <1>1, <1>4, <2>1
    <2>2. /\ SubSeq(m, 1, 2) = <<Version, 1>> /\ m[4] \in 1 .. MaxNumber
          /\ Verdict(kind, m) = m[3] + 1 /\ m[3] + 1 < 3
      BY <1>3, <1>9 DEF Verdict
    <2>3. Len(v) = m[4] /\ Value(kind, m) = v
      BY <1>2, <1>9 DEF Rest, Value
    <2>4. SubSeq(m, 1, n) = <<Version, 1, m[3], m[4]>>
      <3>0. Version \in Nat /\ 1 \in Nat /\ m[4] \in Nat
        BY <2>2 DEF Version
      <3>1. SubSeq(m, 1, 3) = <<Version, 1, m[3]>>
        <4>1. SubSeq(m, 1, 3) = Append(<<Version, 1>>, m[3])
          BY <1>6, <2>1, <2>2
        <4> QED BY <2>0, <3>0, <4>1, ThreeBytes
      <3>2. SubSeq(m, 1, 4) = Append(SubSeq(m, 1, 3), m[4])
        <4> DEFINE i == 3
                   j == 4
        <4>1. i \in Nat /\ i < Len(m) /\ i + 1 = j
          BY <1>1, <2>1
        <4> HIDE DEF i, j
        <4>2. SubSeq(m, 1, i + 1) = Append(SubSeq(m, 1, i), m[i + 1])
          BY <4>1, NextByte
        <4>3. SubSeq(m, 1, j) = Append(SubSeq(m, 1, i), m[j])
          BY <4>1, <4>2
        <4> QED BY <4>3 DEF i, j
      <3>3. SubSeq(m, 1, 4) = Append(<<Version, 1, m[3]>>, m[4])
        BY <3>1, <3>2
      <3>4. Append(<<Version, 1, m[3]>>, m[4]) = <<Version, 1, m[3], m[4]>>
        BY <2>0, <3>0, FourBytes
      <3> QED BY <2>1, <3>3, <3>4
    <2>5. m = <<Version, 1, m[3], Len(v)>> \o v
      BY <1>2, <2>3, <2>4
    <2>6. Verdict(kind, m) - 1 = m[3] /\ Verdict(kind, m) \in 1 .. 2
      BY <2>0, <2>2
    <2> QED BY <1>9, <2>2, <2>3, <2>5, <2>6 DEF Carries
  <1> QED BY <1>5, <1>7, <1>8, <1>9 DEF Kinds

LEMMA CompleteIsWellFormed ==
    ASSUME NEW kind \in Kinds, NEW m \in Seq(Nat), Complete(kind, m)
    PROVE  WellFormed(kind, m)
  <1>1. Carries(kind, m, Verdict(kind, m), Value(kind, m))
    BY CompleteIsCarried
  <1>2. Verdict(kind, m) \in 1 .. 4
    BY HeadFacts DEF Complete
  <1>3. \E i \in 0 .. Len(m) : Value(kind, m) = SubSeq(m, i + 1, Len(m))
    <2>1. HeadSize(kind) \in 0 .. Len(m)
      BY HeadFacts, LenProperties DEF Complete
    <2>2. CASE kind = "call"
      <3>1. Len(m) + 1 > Len(m) /\ Len(m) \in Nat
        BY LenProperties
      <3>2. SubSeq(m, Len(m) + 1, Len(m)) = <<>>
        BY <3>1, SubSeqEmpty
      <3>3. Value(kind, m) = SubSeq(m, Len(m) + 1, Len(m)) /\ Len(m) \in 0 .. Len(m)
        BY <2>2, <3>1, <3>2 DEF Value
      <3> QED BY <3>3
    <2>3. CASE kind # "call"
      BY <2>1, <2>3 DEF Value
    <2> QED BY <2>2, <2>3
  <1> QED BY <1>1, <1>2, <1>3 DEF WellFormed

LEMMA Heading ==
    ASSUME NEW s \in Seq(Nat), NEW t \in Seq(Nat), NEW m, m = s \o t
    PROVE  SubSeq(m, 1, Len(s)) = s
  <1>1. Len(s) \in 0 .. Len(s)
    BY LenProperties
  <1> QED BY <1>1, Beginning, SubSeqFull

Prolongs(m, s, x, t) ==
    s \in Seq(Nat) /\ x \in Nat /\ t \in Seq(Nat) /\ m = Append(s, x) \o t

LEMMA Prolonged ==
    ASSUME NEW m, NEW s, NEW x, NEW t, Prolongs(m, s, x, t)
    PROVE  /\ m \in Seq(Nat) /\ Len(m) = Len(s) + 1 + Len(t)
           /\ SubSeq(m, 1, Len(s)) = s
           /\ m[Len(s) + 1] = x
  <1>0. s \in Seq(Nat) /\ x \in Nat /\ t \in Seq(Nat) /\ m = Append(s, x) \o t
    BY DEF Prolongs
  <1> DEFINE head == Append(s, x)
  <1>1. /\ head \in Seq(Nat) /\ Len(head) = Len(s) + 1
        /\ head[Len(s) + 1] = x
        /\ \A i \in 1 .. Len(s) : head[i] = s[i]
        /\ Len(s) \in Nat /\ Len(t) \in Nat
    BY <1>0, AppendProperties, LenProperties
  <1>2. SubSeq(head, 1, Len(s)) = s
    <2> DEFINE beginning == SubSeq(head, 1, Len(s))
    <2>1. beginning \in Seq(Nat) /\ Len(beginning) = Len(s)
      <3>1. Len(s) \in 0 .. Len(head)
        BY <1>1
      <3> QED BY <1>1, <3>1, Cut
    <2>2. \A i \in 1 .. Len(s) : beginning[i] = s[i]
      <3> HIDE DEF head
      <3>1. \A i \in 1 .. Len(s) : beginning[i] = head[i]
        BY <1>1, <2>1
      <3> QED BY <1>0, <1>1, <3>1
    <2> HIDE DEF beginning
    <2>3. beginning = s
      BY <1>0, <2>1, <2>2, SeqEqual
    <2> QED BY <2>3 DEF beginning
  <1> HIDE DEF head
  <1>3. m = head \o t
    BY <1>0 DEF head
  <1>4. /\ m \in Seq(Nat) /\ Len(m) = Len(s) + 1 + Len(t)
        /\ m[Len(s) + 1] = x
    <2> DEFINE whole == head \o t
    <2>1. /\ whole \in Seq(Nat) /\ Len(whole) = Len(head) + Len(t)
          /\ \A i \in 1 .. Len(head) + Len(t) :
                whole[i] = IF i <= Len(head) THEN head[i] ELSE t[i - Len(head)]
      BY <1>0, <1>1, ConcatProperties
    <2>2. m = whole
      BY <1>3
    <2> HIDE DEF whole
    <2> QED BY <1>1, <2>1, <2>2
  <1>5. SubSeq(m, 1, Len(s)) = SubSeq(head, 1, Len(s))
    <2>1. Len(s) \in 0 .. Len(head)
      BY <1>1
    <2> QED BY <1>0, <1>1, <1>3, <2>1, Beginning
  <1> QED BY <1>2, <1>4, <1>5

LEMMA WellFormedIsComplete ==
    ASSUME NEW kind \in Kinds, NEW m \in Seq(Nat), WellFormed(kind, m)
    PROVE  Complete(kind, m)
  <1>1. PICK r \in 1 .. 4, i \in 0 .. Len(m) :
             Carries(kind, m, r, SubSeq(m, i + 1, Len(m)))
    BY DEF WellFormed
  <1> DEFINE v == SubSeq(m, i + 1, Len(m))
  <1>2. v \in Seq(Nat) /\ Len(v) \in Nat /\ Len(m) \in Nat
    <2>1. v \in Seq(Nat)
      BY Cut
    <2> QED BY <2>1, LenProperties
  <1>3. Carries(kind, m, r, v)
    BY <1>1
  <1> HIDE DEF v
  <1>4. /\ Magic \in Seq(Nat) /\ Len(Magic) \in Nat /\ TokenSize \in Nat
        /\ MaxNumber \in Nat /\ Version \in Nat /\ Version = 0
        /\ <<>> \in Seq(Nat)
    BY LenProperties, BytesAssumption, EmptySeq DEF Version
  <1>5. CASE kind = "handshake"
    <2>1. HeadSize(kind) = Len(Magic) + 1
      BY <1>5 DEF HeadSize
    <2>2. ASSUME NEW x \in {0, 1}, NEW t, Prolongs(m, Magic, x, t),
                 Len(t) = IF x = 1 THEN TokenSize ELSE 0
          PROVE  Complete(kind, m)
      <3>1. /\ Len(m) = Len(Magic) + 1 + Len(t)
            /\ SubSeq(m, 1, Len(Magic)) = Magic /\ m[Len(Magic) + 1] = x
        BY <2>2, Prolonged
      <3>2. Verdict(kind, m) = x + 1 /\ Rest(kind, m) = Len(t)
        BY <1>5, <2>1, <2>2, <3>1 DEF Verdict, Rest
      <3>3. Len(t) \in Nat
        BY <2>2, LenProperties DEF Prolongs
      <3> QED BY <1>4, <2>1, <2>2, <3>1, <3>2, <3>3 DEF Complete
    <2>3. CASE m = Append(Magic, 0)
      <3>1. Append(Magic, 0) \in Seq(Nat)
        BY <2>3
      <3>2. m = Append(Magic, 0) \o <<>> /\ Len(<<>>) = 0
        BY <2>3, <3>1, ConcatEmptySeq, EmptySeq
      <3>3. Prolongs(m, Magic, 0, <<>>)
        BY <1>4, <3>2 DEF Prolongs
      <3> QED BY <2>2, <3>2, <3>3
    <2>4. CASE Len(v) = TokenSize /\ m = Append(Magic, 1) \o v
      <3>1. Prolongs(m, Magic, 1, v)
        BY <1>2, <1>4, <2>4 DEF Prolongs
      <3> QED BY <2>2, <2>4, <3>1
    <2> QED BY <1>3, <1>5, <2>3, <2>4 DEF Carries
  <1>6. CASE kind = "number"
    <2>1. Len(v) \in 1 .. MaxNumber /\ m = <<Version, 2, Len(v)>> \o v
      BY <1>3, <1>6 DEF Carries
    <2>2. <<Version, 2>> \in Seq(Nat) /\ Len(<<Version, 2>>) = 2
      BY <1>4
    <2>3. m = Append(<<Version, 2>>, Len(v)) \o v
      <3>1. Append(<<Version, 2>>, Len(v)) = <<Version, 2, Len(v)>>
        BY <1>2, <1>4, ThreeBytes
      <3> QED BY <2>1, <3>1
    <2>4. /\ Len(m) = 3 + Len(v) /\ SubSeq(m, 1, 2) = <<Version, 2>>
          /\ m[3] = Len(v)
      <3> DEFINE two == <<Version, 2>>
      <3>1. two \in Seq(Nat) /\ Len(two) = 2 /\ m = Append(two, Len(v)) \o v
        BY <2>2, <2>3
      <3> HIDE DEF two
      <3>2. Prolongs(m, two, Len(v), v)
        BY <1>2, <3>1 DEF Prolongs
      <3>3. /\ Len(m) = Len(two) + 1 + Len(v)
            /\ SubSeq(m, 1, Len(two)) = two
            /\ m[Len(two) + 1] = Len(v)
        BY <3>2, Prolonged
      <3>4. /\ Len(m) = 3 + Len(v) /\ SubSeq(m, 1, 2) = two
            /\ m[3] = Len(v)
        BY <1>2, <3>1, <3>3
      <3> QED BY <3>4 DEF two
    <2>5. HeadSize(kind) = 3 /\ Rest(kind, m) = Len(v) /\ Verdict(kind, m) = 1
      BY <1>6, <2>1, <2>4 DEF HeadSize, Rest, Verdict
    <2> QED BY <1>2, <2>4, <2>5 DEF Complete
  <1>7. CASE kind = "call"
    <2>1. r \in 1 .. 4 /\ m = <<Version, 0, r - 1>> /\ r - 1 \in Nat
      BY <1>3, <1>7 DEF Carries
    <2>2. <<Version, 0>> \in Seq(Nat) /\ Len(<<Version, 0>>) = 2
      BY <1>4
    <2>3. m = Append(<<Version, 0>>, r - 1) \o <<>>
      <3>1. Append(<<Version, 0>>, r - 1) = <<Version, 0, r - 1>>
        BY <1>4, <2>1, ThreeBytes
      <3> QED BY <2>1, <3>1, ConcatEmptySeq
    <2>4. Len(m) = 3 /\ SubSeq(m, 1, 2) = <<Version, 0>> /\ m[3] = r - 1
      <3> DEFINE two == <<Version, 0>>
                 x == r - 1
                 t == <<>>
      <3>1. /\ two \in Seq(Nat) /\ Len(two) = 2 /\ x \in Nat
            /\ t \in Seq(Nat) /\ Len(t) = 0
            /\ m = Append(two, x) \o t
        BY <1>4, <2>1, <2>2, <2>3, EmptySeq
      <3> HIDE DEF two, x, t
      <3>2. Prolongs(m, two, x, t)
        BY <3>1 DEF Prolongs
      <3>3. /\ Len(m) = Len(two) + 1 + Len(t)
            /\ SubSeq(m, 1, Len(two)) = two
            /\ m[Len(two) + 1] = x
        BY <3>2, Prolonged
      <3>4. /\ Len(m) = 3 /\ SubSeq(m, 1, 2) = two /\ m[3] = x
        BY <3>1, <3>3
      <3> QED BY <3>4 DEF two, x
    <2>5. HeadSize(kind) = 3 /\ Rest(kind, m) = 0 /\ Verdict(kind, m) = r
      BY <1>7, <2>1, <2>4 DEF HeadSize, Rest, Verdict
    <2> QED BY <2>1, <2>4, <2>5 DEF Complete
  <1>8. CASE kind = "wait"
    <2>1. /\ r \in 1 .. 2 /\ r - 1 \in Nat /\ Len(v) \in 1 .. MaxNumber
          /\ m = <<Version, 1, r - 1, Len(v)>> \o v
      <3>1. /\ r \in 1 .. 2 /\ Len(v) \in 1 .. MaxNumber
            /\ m = <<Version, 1, r - 1, Len(v)>> \o v
        BY <1>3, <1>8, Zenon DEF Carries
      <3>2. r - 1 \in Nat
        BY <3>1
      <3> QED BY <3>1, <3>2
    <2> DEFINE three == <<Version, 1, r - 1>>
    <2>2. three \in Seq(Nat) /\ Len(three) = 3 /\ three[3] = r - 1
      BY <1>4, <2>1
    <2>3. SubSeq(three, 1, 2) = <<Version, 1>>
      <3>1. <<Version, 1>> \in Seq(Nat) /\ Len(<<Version, 1>>) = 2
        BY <1>4
      <3>2. three = Append(<<Version, 1>>, r - 1) \o <<>>
        <4>1. Append(<<Version, 1>>, r - 1) = three
          BY <1>4, <2>1, ThreeBytes
        <4> HIDE DEF three
        <4> QED BY <2>2, <4>1, ConcatEmptySeq
      <3>3. SubSeq(three, 1, Len(<<Version, 1>>)) = <<Version, 1>>
        <4>1. Prolongs(three, <<Version, 1>>, r - 1, <<>>)
          BY <1>4, <2>1, <3>1, <3>2 DEF Prolongs
        <4> QED BY <4>1, Prolonged
      <3> QED BY <3>1, <3>3
    <2>4. m = Append(three, Len(v)) \o v
      <3>1. Append(three, Len(v)) = <<Version, 1, r - 1, Len(v)>>
        BY <1>2, <1>4, <2>1, FourBytes
      <3> QED BY <2>1, <3>1
    <2> HIDE DEF three
    <2>5. Len(m) = 4 + Len(v) /\ SubSeq(m, 1, 3) = three /\ m[4] = Len(v)
      <3>1. /\ Len(m) = Len(three) + 1 + Len(v)
            /\ SubSeq(m, 1, Len(three)) = three
            /\ m[Len(three) + 1] = Len(v)
        <4>1. Prolongs(m, three, Len(v), v)
          BY <1>2, <2>2, <2>4 DEF Prolongs
        <4> QED BY <4>1, Prolonged
      <3> QED BY <1>2, <2>2, <3>1
    <2>6. m[3] = r - 1
      BY <1>2, <2>2, <2>5
    <2>7. SubSeq(m, 1, 2) = <<Version, 1>>
      <3>1. SubSeq(three, 1, 2) = SubSeq(m, 1, 2)
        <4> DEFINE rest == SubSeq(m, 3 + 1, Len(m))
        <4>1. 3 \in 0 .. Len(m)
          BY <1>2, <2>5
        <4>2. rest \in Seq(Nat) /\ three \o rest = m
          BY <2>5, <4>1, Cut
        <4>3. 2 \in 0 .. Len(three)
          BY <2>2
        <4> HIDE DEF rest
        <4> QED BY <2>2, <4>2, <4>3, Beginning
      <3> QED BY <2>3, <3>1
    <2>8. HeadSize(kind) = 4 /\ Rest(kind, m) = Len(v) /\ Verdict(kind, m) = r
      BY <1>8, <2>1, <2>5, <2>6, <2>7 DEF HeadSize, Rest, Verdict
    <2>9. Len(m) >= 4 /\ r > 0
      BY <1>2, <2>1, <2>5
    <2> QED BY <2>5, <2>8, <2>9 DEF Complete
  <1> QED BY <1>5, <1>6, <1>7, <1>8 DEF Kinds

-----------------------------------------------------------------------------
(* The invariant.                                                          *)
Bytes == Seq(Nat)

Typed ==
    /\ sock \in [Conn -> Socket]
    /\ goal \in {"none", "call", "wait", "number"}
    /\ buffer \in Bytes /\ token \in Bytes /\ user_number \in Bytes
    /\ peer_number \in Bytes /\ calling \in Bytes /\ packet \in Bytes
    /\ wire \in Bytes /\ answer \in Bytes /\ sent \in Bytes /\ meant \in Bytes
    /\ peer_sent \in Bytes /\ game_got \in Bytes
    /\ sent_size \in Nat
    /\ goal # "none" => calling \in CallNumbers

(* The request that is answered in a state of the client.                  *)
Awaited(state) ==
    CASE state = "RECV_HANDSHAKE"  -> "handshake"
      [] state = "RECV_GET_NUMBER" -> "number"
      [] state = "RECV_CALL"       -> "call"
      [] state = "RECV_WAIT"       -> "wait"

(* Result 1 of CALL or WAIT, after which the bytes are the peer's.         *)
LinksPhones(kind, m) ==
    kind \in {"call", "wait"} /\ WellFormed(kind, m) /\ m[3] = 0

(* Before and after the answer of the server, with b in the buffer and w   *)
(* on the wire: nothing of the answer and of the peer's bytes is lost.     *)
Unanswered(kind, b, w) ==
    /\ b = <<>> /\ w = <<>> /\ peer_sent = <<>>
    /\ \/ asked = "none"
       \/ asked = kind /\ sent = meant

Answered(kind, b, w) ==
    /\ answer \in Answers[kind]
    /\ b \o w = answer \o peer_sent
    /\ Unfinished(kind, b)
    /\ sent = meant
    /\ \/ asked = "linked" /\ LinksPhones(kind, answer)
       \/ asked = "none" /\ ~LinksPhones(kind, answer) /\ peer_sent = <<>>

Awaiting(kind, b, w) == Unanswered(kind, b, w) \/ Answered(kind, b, w)

NoData == game_got = <<>> /\ ~data_pending

Connects ==
    /\ relay_state \in {"DISCONNECTED", "RECV_CONNECT"}
    /\ relay_processing = "BEGIN"
    /\ asked = "none" /\ wire = <<>> /\ peer_sent = <<>>
    /\ sent = <<>> /\ meant = <<>> /\ NoData
    /\ sock[conn] = Slot("tcp", "ipv4")

WaitsIn(state, g, processing) ==
    \/ state = "RECV_HANDSHAKE" /\ processing = "BEGIN"
    \/ /\ state = "RECV_GET_NUMBER"
       /\ processing = IF g = "number" THEN "BEGIN" ELSE "GET_NUMBER"
    \/ state = "RECV_CALL" /\ g = "call" /\ processing = "FINAL"
    \/ state = "RECV_WAIT" /\ g = "wait" /\ processing = "FINAL"

Waits ==
    /\ WaitsIn(relay_state, goal, relay_processing)
    /\ Awaiting(Awaited(relay_state), buffer, wire)
    /\ NoData
    /\ sock[conn] = Slot("connected", "ipv4")

Linked ==
    /\ relay_state = "LINKED" /\ goal \in {"call", "wait"} /\ asked = "linked"
    /\ game_got \o wire = peer_sent
    /\ data_pending =>
           /\ sent_size <= Len(packet)
           /\ sent \o SubSeq(packet, sent_size + 1, Len(packet)) = meant
    /\ ~data_pending => sent = meant
    /\ sock[conn] = Slot("connected", "ipv4")

Idle == ~data_pending /\ sock[conn] = Closed

StreamInv ==
    /\ Typed
    /\ goal = "none" => Idle
    /\ goal # "none" => Connects \/ Waits \/ Linked

(* The sockets.                                                            *)
LEMMA ConnIsOne == conn \in Conn
  BY MaxConnectionsAssumption DEF conn, Conn

LEMMA SocketOpened ==
    ASSUME NEW s \in [Conn -> Socket], s[conn] = Closed
    PROVE  /\ SockOpen(s, conn, "tcp", "ipv4") \in [Conn -> Socket]
           /\ SockOpen(s, conn, "tcp", "ipv4")[conn] = Slot("tcp", "ipv4")
  BY ConnIsOne DEF SockOpen, Socket, Slot, HostType

LEMMA SocketClosed ==
    ASSUME NEW s \in [Conn -> Socket], NEW phase \in {"tcp", "connected"},
           s[conn] = Slot(phase, "ipv4")
    PROVE  /\ SockClose(s, conn) \in [Conn -> Socket]
           /\ SockClose(s, conn)[conn] = Closed
  BY ConnIsOne DEF SockClose, Socket, Slot, Closed, Misused

LEMMA SocketConnects ==
    ASSUME NEW s \in [Conn -> Socket], s[conn] = Slot("tcp", "ipv4"),
           NEW rc \in {-1, 0, 1}
    PROVE  /\ SockConnect(s, conn, "ipv4", rc) \in [Conn -> Socket]
           /\ SockConnect(s, conn, "ipv4", rc)[conn] =
                 IF rc = 1 THEN Slot("connected", "ipv4") ELSE Slot("tcp", "ipv4")
  BY ConnIsOne DEF SockConnect, Socket, Slot, HostType

LEMMA SocketStreams ==
    ASSUME NEW s \in [Conn -> Socket], s[conn] = Slot("connected", "ipv4")
    PROVE  SockStream(s, conn) = s
  <1>1. s[conn].phase = "connected"
    BY DEF Slot
  <1> QED BY <1>1, ConnIsOne DEF SockStream

LEMMA InitInv == Init => StreamInv
  <1> SUFFICES ASSUME Init PROVE StreamInv
    OBVIOUS
  <1>1. <<>> \in Bytes
    BY EmptySeq DEF Bytes
  <1>2. sock \in [Conn -> Socket] /\ sock[conn] = Closed
    BY ConnIsOne DEF Init, Socket
  <1> QED BY <1>1, <1>2 DEF Init, StreamInv, Typed, Idle

-----------------------------------------------------------------------------
(* A request goes out, whole or not.                                       *)
AfterAsk(kind, waiting) ==
    /\ sent' \in Bytes /\ meant' \in Bytes /\ buffer' \in Bytes
    /\ sock' \in [Conn -> Socket] /\ goal' \in {goal, "none"}
    /\ goal' = "none" => sock'[conn] = Closed
    /\ goal' # "none" =>
           /\ sock'[conn] = Slot("connected", "ipv4")
           /\ relay_state' = waiting /\ buffer' = <<>>
           /\ \/ asked' = "none"
              \/ asked' = kind /\ sent' = meant'

LEMMA KeepFacts == 0 \in Keep /\ -1 \notin Keep /\ Keep \subseteq {0, 1}
  BY DEF Keep

LEMMA EndedStep ==
    ASSUME goal # "none", NEW s \in [Conn -> Socket],
           NEW phase \in {"tcp", "connected"},
           s[conn] = Slot(phase, "ipv4"), NEW rc, Ended(s, rc)
    PROVE  /\ sock' \in [Conn -> Socket]
           /\ rc \in Keep => goal' = goal /\ sock'[conn] = Slot(phase, "ipv4")
           /\ rc \notin Keep => goal' = "none" /\ sock'[conn] = Closed
  <1>1. /\ sock' = IF rc \in Keep THEN s ELSE SockClose(s, conn)
        /\ goal' = IF rc \in Keep THEN goal ELSE "none"
    BY DEF Ended
  <1>2. /\ SockClose(s, conn) \in [Conn -> Socket]
        /\ SockClose(s, conn)[conn] = Closed
    BY SocketClosed
  <1> QED BY <1>1, <1>2

LEMMA AskStep ==
    ASSUME Typed, goal # "none", NEW s \in [Conn -> Socket],
           s[conn] = Slot("connected", "ipv4"), sent = meant,
           NEW kind \in Kinds, NEW request \in Bytes, NEW waiting, NEW failed,
           Ask(s, kind, request, waiting, failed)
    PROVE  AfterAsk(kind, waiting)
  <1>1. PICK n \in SendResults(request) :
           /\ sent' = sent \o SubSeq(request, 1, n)
           /\ meant' = meant \o request
           /\ asked' = IF n = Len(request) THEN kind ELSE "none"
           /\ relay_state' = IF n = 0 THEN failed ELSE waiting
           /\ buffer' = IF n = 0 THEN buffer ELSE <<>>
           /\ Ended(SockStream(s, conn), IF n = 0 THEN -1 ELSE 0)
    BY DEF Ask
  <1>2. Len(request) \in Nat /\ n \in -1 .. Len(request)
    BY LenProperties DEF SendResults, Bytes
  <1>3. SubSeq(request, 1, n) \in Bytes
    <2>1. CASE n = -1
      <3>1. SubSeq(request, 1, n) = <<>>
        BY <2>1, SubSeqEmpty
      <3> QED BY <3>1, EmptySeq DEF Bytes
    <2>2. CASE n # -1
      <3>1. n \in 0 .. Len(request)
        BY <1>2, <2>2
      <3> QED BY <3>1, Cut DEF Bytes
    <2> QED BY <2>1, <2>2
  <1>4. sent' \in Bytes /\ meant' \in Bytes /\ buffer' \in Bytes
    BY <1>1, <1>3, ConcatProperties, EmptySeq DEF Typed, Bytes
  <1>5. n = Len(request) => sent' = meant'
    BY <1>1, SubSeqFull DEF Bytes
  <1> DEFINE rc == IF n = 0 THEN -1 ELSE 0
  <1>6. /\ sock' \in [Conn -> Socket]
        /\ rc \in Keep => goal' = goal /\ sock'[conn] = Slot("connected", "ipv4")
        /\ rc \notin Keep => goal' = "none" /\ sock'[conn] = Closed
    <2>1. SockStream(s, conn) = s
      BY SocketStreams
    <2>2. Ended(s, rc)
      BY <1>1, <2>1
    <2> HIDE DEF rc
    <2> QED BY <2>2, EndedStep
  <1>7. CASE n = 0
    <2>1. goal' = "none" /\ sock'[conn] = Closed
      BY <1>6, <1>7, KeepFacts
    <2> QED BY <1>4, <1>6, <2>1 DEF AfterAsk
  <1>8. CASE n # 0
    <2>1. goal' = goal /\ sock'[conn] = Slot("connected", "ipv4")
      BY <1>6, <1>8, KeepFacts
    <2>2. relay_state' = waiting /\ buffer' = <<>>
      BY <1>1, <1>8
    <2>3. \/ asked' = "none"
          \/ asked' = kind /\ sent' = meant'
      BY <1>1, <1>5
    <2> QED BY <1>4, <1>6, <2>1, <2>2, <2>3 DEF AfterAsk
  <1> QED BY <1>7, <1>8

(* A poll of a receiving function in a state that awaits an answer.        *)
LEMMA ReceivedStep ==
    ASSUME Typed, NEW kind \in Kinds, Awaiting(kind, buffer, wire),
           NEW q, NEW k1, NEW k2,
           Receives(kind, Received(buffer, wire, 0), q, k1, k2)
    PROVE  /\ q.buffer \in Bytes /\ q.wire \in Bytes
           /\ q.rc \in {-1, 0, 1, 2, 3, 4}
           /\ q.rc = 0 => Awaiting(kind, q.buffer, q.wire)
           /\ q.rc < 0 /\ -1 \notin {k1, k2} => ~WellFormed(kind, answer)
           /\ q.rc > 0 => /\ Answered(kind, buffer, wire)
                          /\ q.buffer = answer /\ q.wire = peer_sent
                          /\ Complete(kind, answer)
                          /\ q.rc = Verdict(kind, answer)
  <1>1. /\ buffer \in Seq(Nat) /\ wire \in Seq(Nat) /\ answer \in Seq(Nat)
        /\ peer_sent \in Seq(Nat)
    BY DEF Typed, Bytes
  <1>2. /\ q.buffer \in Seq(Nat) /\ q.wire \in Seq(Nat)
        /\ q.rc \in {-1, 0, 1, 2, 3, 4}
        /\ q.buffer \o q.wire = buffer \o wire
        /\ q.rc = 0 => Unfinished(kind, q.buffer)
        /\ q.rc > 0 => Complete(kind, q.buffer) /\ q.rc = Verdict(kind, q.buffer)
        /\ q.rc < 0 => \/ -1 \in {k1, k2}
                       \/ /\ Len(q.buffer) >= HeadSize(kind)
                          /\ Verdict(kind, q.buffer) < 0
    BY DEF Receives, Stream, Received, Reception
  <1>3. /\ Len(q.buffer) \in Nat /\ Len(answer) \in Nat
        /\ HeadSize(kind) \in Nat /\ 0 < HeadSize(kind)
    <2>1. Len(Magic) \in Nat
      BY LenProperties, BytesAssumption
    <2> QED BY <1>1, <1>2, <2>1, LenProperties DEF HeadSize, Kinds
  <1>4. CASE Unanswered(kind, buffer, wire)
    <2>1. buffer = <<>> /\ wire = <<>>
      BY <1>4 DEF Unanswered
    <2>2. q.buffer = <<>> /\ q.wire = <<>>
      <3>1. q.buffer \o q.wire = <<>>
        BY <1>1, <1>2, <2>1, ConcatEmptySeq
      <3> QED BY <1>2, <3>1, ConcatEqualIffEmpty
    <2>3. ~(Len(q.buffer) >= HeadSize(kind))
      BY <1>3, <2>2, EmptySeq
    <2>4. q.rc = 0 => Awaiting(kind, q.buffer, q.wire)
      BY <1>4, <2>1, <2>2 DEF Awaiting
    <2> QED BY <1>2, <2>3, <2>4 DEF Bytes, Complete
  <1>5. CASE Answered(kind, buffer, wire)
    <2>1. /\ answer \in Answers[kind]
          /\ buffer \o wire = answer \o peer_sent
          /\ LinksPhones(kind, answer) \/ peer_sent = <<>>
      BY <1>5 DEF Answered
    <2>2. q.rc = 0 => Awaiting(kind, q.buffer, q.wire)
      BY <1>2, <1>5 DEF Awaiting, Answered
    <2>3. SameWhole(q.buffer, q.wire, answer, peer_sent)
      BY <1>1, <1>2, <2>1 DEF SameWhole
    <2>4. ASSUME Len(q.buffer) >= HeadSize(kind), Len(answer) >= HeadSize(kind)
          PROVE  /\ Verdict(kind, q.buffer) = Verdict(kind, answer)
                 /\ Rest(kind, q.buffer) = Rest(kind, answer)
      BY <2>3, <2>4, HeadsAgree
    <2>5. ASSUME WellFormed(kind, answer)
          PROVE  /\ Complete(kind, answer) /\ Len(answer) >= HeadSize(kind)
                 /\ Verdict(kind, answer) > 0
                 /\ Len(answer) = HeadSize(kind) + Rest(kind, answer)
      <3>1. Complete(kind, answer)
        BY <1>1, <2>5, WellFormedIsComplete
      <3> QED BY <3>1 DEF Complete
    <2>6. q.rc < 0 /\ -1 \notin {k1, k2} => ~WellFormed(kind, answer)
      <3> SUFFICES ASSUME q.rc < 0, -1 \notin {k1, k2}, WellFormed(kind, answer)
                   PROVE  FALSE
        OBVIOUS
      <3>1. Len(q.buffer) >= HeadSize(kind) /\ Verdict(kind, q.buffer) < 0
        BY <1>2
      <3>2. Verdict(kind, answer) > 0 /\ Len(answer) >= HeadSize(kind)
        BY <2>5
      <3>3. Verdict(kind, q.buffer) = Verdict(kind, answer)
        BY <2>4, <3>1, <3>2
      <3>4. Verdict(kind, answer) \in {-1, 1, 2, 3, 4}
        BY <1>1, <3>2, HeadFacts
      <3> QED BY <3>1, <3>2, <3>3, <3>4
    <2>7. ASSUME q.rc > 0
          PROVE  /\ q.buffer = answer /\ q.wire = peer_sent
                 /\ Complete(kind, answer)
                 /\ q.rc = Verdict(kind, answer)
      <3>1. /\ Complete(kind, q.buffer) /\ q.rc = Verdict(kind, q.buffer)
            /\ Len(q.buffer) >= HeadSize(kind)
            /\ Len(q.buffer) = HeadSize(kind) + Rest(kind, q.buffer)
        BY <1>2, <2>7 DEF Complete
      <3>2. ~(Len(q.buffer) < Len(answer))
        <4> SUFFICES ASSUME Len(q.buffer) < Len(answer) PROVE FALSE
          OBVIOUS
        <4> DEFINE i == Len(q.buffer)
        <4>1. i \in Nat /\ i <= Len(q.buffer) /\ i <= Len(answer)
              /\ i \in 0 .. Len(answer) - 1
          BY <1>3
        <4>2. SubSeq(q.buffer, 1, i) = SubSeq(answer, 1, i)
          BY <2>3, <4>1, SamePrefix
        <4>3. SubSeq(answer, 1, i) = q.buffer
          BY <1>2, <4>2, SubSeqFull
        <4>4. WellFormed(kind, q.buffer)
          BY <1>2, <3>1, CompleteIsWellFormed
        <4> HIDE DEF i
        <4>5. ~WellFormed(kind, SubSeq(answer, 1, i))
          BY <2>1, <4>1, AnswersAssumption
        <4> QED BY <4>3, <4>4, <4>5
      <3>3. ~(Len(q.buffer) > Len(answer))
        <4> SUFFICES ASSUME Len(q.buffer) > Len(answer) PROVE FALSE
          OBVIOUS
        <4>1. CASE WellFormed(kind, answer)
          <5>1. /\ Len(answer) >= HeadSize(kind)
                /\ Len(answer) = HeadSize(kind) + Rest(kind, answer)
            BY <2>5, <4>1
          <5>2. Rest(kind, q.buffer) = Rest(kind, answer)
            BY <2>4, <3>1, <5>1
          <5>3. Len(q.buffer) = Len(answer)
            BY <3>1, <5>1, <5>2
          <5> QED BY <1>3, <5>3
        <4>2. CASE ~WellFormed(kind, answer)
          <5>1. peer_sent = <<>>
            BY <2>1, <4>2 DEF LinksPhones
          <5>2. q.buffer \o q.wire = answer
            BY <1>1, <1>2, <2>1, <5>1, ConcatEmptySeq
          <5>3. Len(q.buffer \o q.wire) = Len(q.buffer) + Len(q.wire)
            BY <1>2, ConcatProperties
          <5>4. Len(q.wire) \in Nat
            BY <1>2, LenProperties
          <5>5. Len(answer) = Len(q.buffer) + Len(q.wire)
            BY <5>2, <5>3
          <5> DEFINE lq == Len(q.buffer)
                     lw == Len(q.wire)
                     la == Len(answer)
          <5>6. lq \in Nat /\ lw \in Nat /\ la = lq + lw /\ lq > la
            BY <1>3, <5>4, <5>5
          <5> HIDE DEF lq, lw, la
          <5> QED BY <5>6
        <4> QED BY <4>1, <4>2
      <3>4. Len(q.buffer) = Len(answer)
        BY <1>3, <3>2, <3>3
      <3>5. q.buffer = answer /\ q.wire = peer_sent
        BY <2>3, <3>4, SameCut
      <3> QED BY <3>1, <3>5
    <2> QED BY <1>2, <1>5, <2>2, <2>6, <2>7 DEF Bytes
  <1> QED BY <1>4, <1>5 DEF Awaiting

-----------------------------------------------------------------------------
(* The polls keep the invariant.                                           *)
PollFrame == UNCHANGED <<calling, gameVars, answer, peer_sent, procedures>>

LEMMA AwaitedKinds ==
    \A state, g, processing : WaitsIn(state, g, processing) =>
        /\ state \in {"RECV_HANDSHAKE", "RECV_GET_NUMBER", "RECV_CALL", "RECV_WAIT"}
        /\ Awaited(state) \in Kinds
  BY DEF WaitsIn, Awaited, Kinds

LEMMA AfterAskInv ==
    ASSUME Typed, goal # "none", NoData, PollFrame, peer_sent = <<>>,
           NEW waiting, AfterAsk(Awaited(waiting), waiting), wire' = <<>>,
           WaitsIn(waiting, goal, relay_processing'),
           token' \in Bytes, user_number' \in Bytes, peer_number' \in Bytes
    PROVE  StreamInv'
  <1>1. Typed'
    <2>1. wire' \in Bytes
      BY EmptySeq DEF Bytes
    <2> QED BY <2>1 DEF Typed, PollFrame, gameVars, AfterAsk
  <1>2. NoData'
    BY DEF NoData, PollFrame, gameVars
  <1>3. CASE goal' = "none"
    BY <1>1, <1>2, <1>3 DEF StreamInv, Idle, NoData, AfterAsk
  <1>4. CASE goal' # "none"
    <2>1. /\ goal' = goal /\ sock'[conn] = Slot("connected", "ipv4")
          /\ relay_state' = waiting /\ buffer' = <<>>
          /\ \/ asked' = "none"
             \/ asked' = Awaited(waiting) /\ sent' = meant'
      BY <1>4 DEF AfterAsk
    <2>2. peer_sent' = <<>>
      BY DEF PollFrame
    <2>3. Awaiting(Awaited(relay_state), buffer, wire)'
      BY <2>1, <2>2 DEF Awaiting, Unanswered, Awaited
    <2>4. Waits'
      BY <1>2, <2>1, <2>3 DEF Waits
    <2> QED BY <1>1, <1>4, <2>4 DEF StreamInv
  <1> QED BY <1>3, <1>4

LEMMA ConnectPollInv ==
    ASSUME StreamInv, goal # "none", ConnectPoll, PollFrame
    PROVE  StreamInv'
  <1>1. Typed /\ Connects
    <2>1. relay_state \in {"DISCONNECTED", "RECV_CONNECT"}
      BY DEF ConnectPoll, Connecting
    <2> QED BY <2>1, AwaitedKinds DEF StreamInv, Waits, Linked
  <1>2. /\ sock \in [Conn -> Socket] /\ sock[conn] = Slot("tcp", "ipv4")
        /\ token \in Bytes /\ NoData
        /\ wire = <<>> /\ peer_sent = <<>> /\ sent = <<>> /\ meant = <<>>
        /\ relay_processing = "BEGIN"
    BY <1>1 DEF Typed, Connects
  <1>3. UNCHANGED <<relay_processing, token, user_number, peer_number, wire>>
    BY DEF ConnectPoll
  <1>4. ASSUME NEW rc \in {0, -1},
               relay_state' = IF rc = 0 THEN "RECV_CONNECT" ELSE "DISCONNECTED",
               Ended(SockConnect(sock, conn, "ipv4", rc), rc),
               UNCHANGED buffer, NothingAsked
        PROVE  StreamInv'
    <2> DEFINE s == SockConnect(sock, conn, "ipv4", rc)
    <2>1. s \in [Conn -> Socket] /\ s[conn] = Slot("tcp", "ipv4")
      BY <1>2, SocketConnects
    <2>2. /\ sock' \in [Conn -> Socket]
          /\ rc \in Keep => goal' = goal /\ sock'[conn] = Slot("tcp", "ipv4")
          /\ rc \notin Keep => goal' = "none" /\ sock'[conn] = Closed
      <3>1. Ended(s, rc)
        BY <1>4
      <3> HIDE DEF s
      <3> QED BY <2>1, <3>1, EndedStep
    <2>3. Typed'
      BY <1>1, <1>3, <1>4, <2>2 DEF Typed, PollFrame, gameVars, NothingAsked
    <2>4. NoData'
      BY <1>2 DEF NoData, PollFrame, gameVars
    <2>5. CASE rc = -1
      BY <2>2, <2>3, <2>4, <2>5, KeepFacts DEF StreamInv, Idle, NoData
    <2>6. CASE rc = 0
      <3>1. goal' = goal /\ sock'[conn] = Slot("tcp", "ipv4")
        BY <2>2, <2>6, KeepFacts
      <3>2. Connects'
        BY <1>1, <1>2, <1>3, <1>4, <2>4, <2>6, <3>1
           DEF Connects, PollFrame, NothingAsked
      <3> QED BY <2>3, <3>1, <3>2 DEF StreamInv
    <2> QED BY <2>5, <2>6
  <1>5. ASSUME Ask(SockConnect(sock, conn, "ipv4", 1), "handshake",
                   HandshakeRequest, "RECV_HANDSHAKE", "RECV_CONNECT")
        PROVE  StreamInv'
    <2> DEFINE s == SockConnect(sock, conn, "ipv4", 1)
    <2>1. s \in [Conn -> Socket] /\ s[conn] = Slot("connected", "ipv4")
      BY <1>2, SocketConnects
    <2>2. HandshakeRequest \in Bytes
      BY <1>2, BytesAssumption, AppendProperties, ConcatProperties
         DEF HandshakeRequest, Bytes
    <2>3. Awaited("RECV_HANDSHAKE") = "handshake" /\ "handshake" \in Kinds
      BY DEF Awaited, Kinds
    <2>4. Ask(s, "handshake", HandshakeRequest, "RECV_HANDSHAKE", "RECV_CONNECT")
      BY <1>5
    <2> HIDE DEF s
    <2>5. AfterAsk("handshake", "RECV_HANDSHAKE")
      BY <1>1, <1>2, <2>1, <2>2, <2>3, <2>4, AskStep
    <2>6. WaitsIn("RECV_HANDSHAKE", goal, relay_processing')
      BY <1>2, <1>3 DEF WaitsIn
    <2>7. token' \in Bytes /\ user_number' \in Bytes /\ peer_number' \in Bytes
      BY <1>1, <1>3 DEF Typed
    <2> QED BY <1>1, <1>2, <1>3, <2>3, <2>5, <2>6, <2>7, AfterAskInv
  <1> QED BY <1>4, <1>5 DEF ConnectPoll

(* What the three polls that receive have in common.                       *)
Receiving(kind, q, k1, k2) ==
    /\ StreamInv /\ goal # "none" /\ PollFrame /\ Waits
    /\ kind = Awaited(relay_state)
    /\ Receives(kind, Received(buffer, wire, 0), q, k1, k2)
    /\ Settled(kind, q, k1, k2)

LEMMA ReceivingFacts ==
    ASSUME NEW kind, NEW q, NEW k1, NEW k2, Receiving(kind, q, k1, k2)
    PROVE  /\ kind \in Kinds /\ Typed /\ NoData
           /\ Awaiting(kind, buffer, wire)
           /\ sock \in [Conn -> Socket]
           /\ sock[conn] = Slot("connected", "ipv4")
           /\ SockStream(sock, conn) = sock
           /\ wire' = q.wire
           /\ q.buffer \in Bytes /\ q.wire \in Bytes
           /\ q.rc \in {-1, 0, 1, 2, 3, 4}
           /\ q.rc = 0 => Awaiting(kind, q.buffer, q.wire)
           /\ q.rc < 0 /\ -1 \notin {k1, k2} => ~WellFormed(kind, answer)
           /\ q.rc > 0 => /\ Answered(kind, buffer, wire)
                          /\ q.buffer = answer /\ q.wire = peer_sent
                          /\ Complete(kind, answer)
                          /\ q.rc = Verdict(kind, answer)
  <1>1. Typed /\ Waits /\ kind = Awaited(relay_state)
    BY DEF Receiving, StreamInv
  <1>2. kind \in Kinds /\ Awaiting(kind, buffer, wire)
    BY <1>1, AwaitedKinds DEF Waits
  <1>3. sock \in [Conn -> Socket] /\ sock[conn] = Slot("connected", "ipv4")
        /\ NoData
    BY <1>1 DEF Typed, Waits
  <1>4. SockStream(sock, conn) = sock
    BY <1>3, SocketStreams
  <1>5. wire' = q.wire
    BY DEF Receiving, Settled
  <1>6. Receives(kind, Received(buffer, wire, 0), q, k1, k2)
    BY DEF Receiving
  <1> QED BY <1>1, <1>2, <1>3, <1>4, <1>5, <1>6, ReceivedStep

LEMMA UnsettledInv ==
    ASSUME NEW kind, NEW q, NEW k1, NEW k2, Receiving(kind, q, k1, k2),
           NEW failed, Unsettled(q, failed)
    PROVE  StreamInv'
  <1>1. /\ kind \in Kinds /\ Typed /\ NoData
        /\ sock \in [Conn -> Socket]
        /\ sock[conn] = Slot("connected", "ipv4")
        /\ SockStream(sock, conn) = sock
        /\ wire' = q.wire
        /\ q.buffer \in Bytes /\ q.wire \in Bytes
        /\ q.rc \in {-1, 0, 1, 2, 3, 4}
        /\ q.rc = 0 => Awaiting(kind, q.buffer, q.wire)
    BY ReceivingFacts
  <1>2. /\ q.rc <= 0
        /\ relay_state' = IF q.rc = 0 THEN relay_state ELSE failed
        /\ buffer' = q.buffer
        /\ Ended(sock, q.rc)
        /\ UNCHANGED <<sent, meant, asked>>
        /\ UNCHANGED <<relay_processing, token, user_number, peer_number>>
    BY <1>1 DEF Unsettled, NothingAsked
  <1>3. goal # "none" /\ PollFrame /\ Waits /\ kind = Awaited(relay_state)
    BY DEF Receiving
  <1>4. /\ sock' \in [Conn -> Socket]
        /\ q.rc \in Keep => goal' = goal /\ sock'[conn] = Slot("connected", "ipv4")
        /\ q.rc \notin Keep => goal' = "none" /\ sock'[conn] = Closed
    BY <1>1, <1>2, <1>3, EndedStep
  <1>5. Typed'
    BY <1>1, <1>2, <1>3, <1>4 DEF Typed, PollFrame, gameVars
  <1>6. NoData'
    BY <1>1, <1>3 DEF NoData, PollFrame, gameVars
  <1>7. CASE q.rc = 0
    <2>1. goal' = goal /\ sock'[conn] = Slot("connected", "ipv4")
      BY <1>4, <1>7, KeepFacts
    <2>2. relay_state' = relay_state /\ relay_processing' = relay_processing
      BY <1>2, <1>7
    <2>3. Awaiting(kind, q.buffer, q.wire)
      BY <1>1, <1>7
    <2>4. Awaiting(Awaited(relay_state), buffer, wire)'
      BY <1>1, <1>2, <1>3, <2>2, <2>3
         DEF Awaiting, Unanswered, Answered, LinksPhones, PollFrame
    <2>5. Waits'
      BY <1>3, <1>6, <2>1, <2>2, <2>4 DEF Waits
    <2> QED BY <1>3, <1>5, <2>1, <2>5 DEF StreamInv
  <1>8. CASE q.rc # 0
    <2>1. q.rc = -1
      BY <1>1, <1>2, <1>8
    <2>2. goal' = "none" /\ sock'[conn] = Closed
      BY <1>4, <2>1, KeepFacts
    <2> QED BY <1>5, <1>6, <2>2 DEF StreamInv, Idle, NoData
  <1> QED BY <1>7, <1>8

(* The first n bytes of a sequence are left out.                           *)
LEMMA Dropped ==
    ASSUME NEW s \in Bytes, NEW n \in Nat, n <= Len(s), NEW i, i = n + 1
    PROVE  /\ SubSeq(s, i, Len(s)) \in Bytes
           /\ Len(SubSeq(s, i, Len(s))) = Len(s) - n
  <1>1. n \in 0 .. Len(s)
    BY LenProperties DEF Bytes
  <1>2. /\ SubSeq(s, n + 1, Len(s)) \in Bytes
        /\ Len(SubSeq(s, n + 1, Len(s))) = Len(s) - n
    BY <1>1, Cut DEF Bytes
  <1> QED BY <1>2

LEMMA AnsweredFacts ==
    ASSUME NEW kind, NEW q, NEW k1, NEW k2, Receiving(kind, q, k1, k2), q.rc > 0
    PROVE  /\ answer \in Bytes /\ q.buffer = answer /\ q.wire = peer_sent
           /\ sent = meant
           /\ WellFormed(kind, answer) /\ Carries(kind, answer, q.rc, Value(kind, answer))
           /\ Len(answer) >= HeadSize(kind)
           /\ Len(answer) = HeadSize(kind) + Rest(kind, answer)
           /\ q.rc = Verdict(kind, answer)
           /\ kind \in {"handshake", "number"} => peer_sent = <<>>
           /\ kind \in {"call", "wait"} /\ q.rc = 1 => asked = "linked"
  <1>1. /\ kind \in Kinds /\ Typed
        /\ Answered(kind, buffer, wire)
        /\ q.buffer = answer /\ q.wire = peer_sent
        /\ Complete(kind, answer)
        /\ q.rc = Verdict(kind, answer)
    BY ReceivingFacts
  <1>2. answer \in Bytes
    BY <1>1 DEF Typed
  <1>3. WellFormed(kind, answer) /\ Carries(kind, answer, q.rc, Value(kind, answer))
    BY <1>1, <1>2, CompleteIsWellFormed, CompleteIsCarried DEF Bytes
  <1>4. sent = meant /\ (kind \in {"handshake", "number"} => peer_sent = <<>>)
    BY <1>1 DEF Answered, LinksPhones
  <1>5. kind \in {"call", "wait"} /\ q.rc = 1 => asked = "linked"
    <2> SUFFICES ASSUME kind \in {"call", "wait"}, q.rc = 1 PROVE asked = "linked"
      OBVIOUS
    <2>1. answer[3] \in Nat
      <3>1. 3 \in 1 .. Len(answer)
        <4>1. HeadSize(kind) \in {3, 4} /\ Len(answer) >= HeadSize(kind)
          BY <1>1 DEF HeadSize, Complete
        <4> QED BY <1>2, <4>1, LenProperties DEF Bytes
      <3> QED BY <1>2, <3>1, ElementOfSeq DEF Bytes
    <2>2. answer[3] + 1 = 1
      BY <1>1 DEF Verdict
    <2>3. LinksPhones(kind, answer)
      BY <1>3, <2>1, <2>2 DEF LinksPhones
    <2> QED BY <1>1, <2>3 DEF Answered
  <1> QED BY <1>1, <1>2, <1>3, <1>4, <1>5 DEF Complete

HandshakeHere(q, k1, k2) ==
    /\ relay_state = "RECV_HANDSHAKE"
    /\ q = relay_handshake_recv(Received(buffer, wire, 0), k1, k2)
    /\ Settled("handshake", q, k1, k2)

NumberHere(q, k1, k2) ==
    /\ relay_state = "RECV_GET_NUMBER"
    /\ q = relay_get_number_recv(Received(buffer, wire, 0), k1, k2)
    /\ Settled("number", q, k1, k2)

AnswerHere(kind, q, k1, k2) ==
    /\ \/ /\ relay_state = "RECV_CALL" /\ kind = "call"
          /\ q = relay_call_recv(Received(buffer, wire, 0), k1)
       \/ /\ relay_state = "RECV_WAIT" /\ kind = "wait"
          /\ q = relay_wait_recv(Received(buffer, wire, 0), k1, k2)
    /\ Settled(kind, q, k1, k2)

LEMMA ReceivingHere ==
    ASSUME StreamInv, goal # "none", PollFrame, NEW kind \in Kinds, NEW q,
           NEW k1 \in Int, NEW k2 \in Int, k1 >= -1, k2 >= -1,
           \/ HandshakeHere(q, k1, k2) /\ kind = "handshake"
           \/ NumberHere(q, k1, k2) /\ kind = "number"
           \/ AnswerHere(kind, q, k1, k2)
    PROVE  Receiving(kind, q, k1, k2)
  <1> DEFINE r == Received(buffer, wire, 0)
  <1>1. /\ Waits /\ kind = Awaited(relay_state)
        /\ Settled(kind, q, k1, k2)
    <2>1. relay_state \in {"RECV_HANDSHAKE", "RECV_GET_NUMBER", "RECV_CALL", "RECV_WAIT"}
          /\ kind = Awaited(relay_state) /\ Settled(kind, q, k1, k2)
      BY DEF HandshakeHere, NumberHere, AnswerHere, Awaited
    <2>2. Waits
      BY <2>1 DEF StreamInv, Connects, Linked
    <2> QED BY <2>1, <2>2
  <1>2. r \in Reception /\ r.buffer = buffer
    BY DEF StreamInv, Typed, Bytes, Received, Reception
  <1>3. Unfinished(kind, buffer)
    <2>1. CASE Unanswered(kind, buffer, wire)
      <3>1. Len(buffer) = 0
        BY <2>1, EmptySeq DEF Unanswered
      <3>2. Len(Magic) \in Nat
        BY LenProperties, BytesAssumption
      <3>3. HeadSize(kind) \in Nat
        BY <3>2 DEF HeadSize, Kinds
      <3> QED BY <3>1, <3>3 DEF Unfinished
    <2>2. CASE Answered(kind, buffer, wire)
      BY <2>2 DEF Answered
    <2> QED BY <1>1, <2>1, <2>2 DEF Waits, Awaiting
  <1> HIDE DEF r
  <1>4. Receives(kind, r, q, k1, k2)
    <2>1. CASE HandshakeHere(q, k1, k2) /\ kind = "handshake"
      BY <1>2, <1>3, <2>1, HandshakeReceives DEF HandshakeHere, r
    <2>2. CASE NumberHere(q, k1, k2) /\ kind = "number"
      BY <1>2, <1>3, <2>2, NumberReceives DEF NumberHere, r
    <2>3. CASE AnswerHere(kind, q, k1, k2)
      BY <1>2, <1>3, <2>3, CallReceives, WaitReceives DEF AnswerHere, r
    <2> QED BY <2>1, <2>2, <2>3
  <1> QED BY <1>1, <1>4 DEF Receiving, r

LEMMA HandshakePollInv ==
    ASSUME StreamInv, goal # "none", PollFrame,
           NEW k1 \in Int, NEW k2 \in Int, k1 >= -1, k2 >= -1,
           HandshakePoll(k1, k2)
    PROVE  StreamInv'
  <1> DEFINE q == relay_handshake_recv(Received(buffer, wire, 0), k1, k2)
  <1>1. /\ HandshakeHere(q, k1, k2)
        /\ \/ Unsettled(q, "DISCONNECTED")
           \/ /\ q.rc > 0
              /\ token' = IF q.rc = 2
                          THEN SubSeq(q.buffer, Len(Magic) + 2, Len(q.buffer))
                          ELSE token
              /\ relay_processing' = IF goal = "number" THEN relay_processing
                                     ELSE "GET_NUMBER"
              /\ Ask(sock, "number", <<Version, 2>>, "RECV_GET_NUMBER", "CONNECTED")
              /\ UNCHANGED <<user_number, peer_number>>
    BY DEF HandshakePoll, HandshakeHere
  <1> HIDE DEF q
  <1>2. Receiving("handshake", q, k1, k2)
    BY <1>1, ReceivingHere DEF Kinds
  <1>3. CASE Unsettled(q, "DISCONNECTED")
    BY <1>2, <1>3, UnsettledInv
  <1>4. CASE ~Unsettled(q, "DISCONNECTED")
    <2>1. /\ q.rc > 0
          /\ token' = IF q.rc = 2
                      THEN SubSeq(q.buffer, Len(Magic) + 2, Len(q.buffer))
                      ELSE token
          /\ relay_processing' = IF goal = "number" THEN relay_processing
                                 ELSE "GET_NUMBER"
          /\ Ask(sock, "number", <<Version, 2>>, "RECV_GET_NUMBER", "CONNECTED")
          /\ UNCHANGED <<user_number, peer_number>>
      BY <1>1, <1>4
    <2>2. /\ Typed /\ NoData /\ sock \in [Conn -> Socket]
          /\ sock[conn] = Slot("connected", "ipv4")
          /\ wire' = q.wire
      BY <1>2, ReceivingFacts
    <2>3. /\ answer \in Bytes /\ q.buffer = answer /\ q.wire = peer_sent
          /\ sent = meant /\ peer_sent = <<>>
          /\ Len(answer) >= Len(Magic) + 1
      BY <1>2, <2>1, AnsweredFacts DEF HeadSize
    <2>4. token' \in Bytes /\ user_number' \in Bytes /\ peer_number' \in Bytes
      <3>1. SubSeq(answer, Len(Magic) + 2, Len(answer)) \in Bytes
        <4> DEFINE n == Len(Magic) + 1
                   i == Len(Magic) + 2
        <4>1. n \in Nat /\ n <= Len(answer) /\ i = n + 1
          BY <2>3, LenProperties, BytesAssumption
        <4> HIDE DEF n, i
        <4>2. SubSeq(answer, i, Len(answer)) \in Bytes
          BY <2>3, <4>1, Dropped
        <4> QED BY <4>2 DEF i
      <3> QED BY <2>1, <2>2, <2>3, <3>1 DEF Typed
    <2>5. AfterAsk("number", "RECV_GET_NUMBER")
      <3>1. <<Version, 2>> \in Bytes /\ "number" \in Kinds
        BY DEF Version, Bytes, Kinds
      <3> QED BY <2>1, <2>2, <2>3, <3>1, AskStep
    <2>6. Awaited("RECV_GET_NUMBER") = "number"
      BY DEF Awaited
    <2>7. WaitsIn("RECV_GET_NUMBER", goal, relay_processing')
      <3>1. relay_processing = "BEGIN"
        BY <1>1, <1>2 DEF Receiving, Waits, WaitsIn, HandshakeHere
      <3> QED BY <2>1, <3>1 DEF WaitsIn
    <2>8. wire' = <<>>
      BY <2>2, <2>3
    <2> QED BY <2>2, <2>3, <2>4, <2>5, <2>6, <2>7, <2>8, AfterAskInv
  <1> QED BY <1>3, <1>4

(* CALL or WAIT is asked, when the number has been received.               *)
LEMMA AskCallOrWaitInv ==
    ASSUME Typed, goal # "none", NoData, PollFrame, peer_sent = <<>>,
           sock[conn] = Slot("connected", "ipv4"), sent = meant, wire' = <<>>,
           AskCallOrWait, relay_processing' = "FINAL",
           token' \in Bytes, user_number' \in Bytes, peer_number' \in Bytes
    PROVE  StreamInv'
  <1>1. sock \in [Conn -> Socket] /\ calling \in Bytes
    BY DEF Typed
  <1>2. CASE /\ goal = "call"
             /\ Ask(sock, "call", <<Version, 0, Len(calling)>> \o calling,
                    "RECV_CALL", "CONNECTED")
    <2>1. AfterAsk("call", "RECV_CALL")
      <3> DEFINE head == <<Version, 0, Len(calling)>>
                 request == head \o calling
      <3>1. Version \in Nat /\ 0 \in Nat /\ Len(calling) \in Nat
        BY <1>1, LenProperties DEF Version, Bytes
      <3>2. head \in Bytes
        BY <3>1 DEF Bytes
      <3> HIDE DEF head
      <3>3. request \in Bytes /\ "call" \in Kinds
        BY <1>1, <3>2, ConcatProperties DEF Bytes, Kinds
      <3>4. Ask(sock, "call", request, "RECV_CALL", "CONNECTED")
        BY <1>2 DEF head
      <3> HIDE DEF request
      <3> QED BY <1>1, <3>3, <3>4, AskStep
    <2>2. /\ Awaited("RECV_CALL") = "call"
          /\ WaitsIn("RECV_CALL", goal, relay_processing')
      BY <1>2 DEF Awaited, WaitsIn
    <2> QED BY <2>1, <2>2, AfterAskInv
  <1>3. CASE /\ goal = "call" /\ Len(calling) > MaxNumber
             /\ relay_state' = "CONNECTED"
             /\ Ended(SockStream(sock, conn), -1)
             /\ UNCHANGED buffer /\ NothingAsked
    <2>1. SockStream(sock, conn) = sock
      BY <1>1, SocketStreams
    <2>2. Ended(sock, -1)
      BY <1>3, <2>1
    <2>3. sock' \in [Conn -> Socket] /\ goal' = "none" /\ sock'[conn] = Closed
      BY <1>1, <2>2, EndedStep, KeepFacts
    <2>4. wire' \in Bytes
      BY EmptySeq DEF Bytes
    <2>5. Typed'
      BY <1>3, <2>3, <2>4 DEF Typed, PollFrame, gameVars, NothingAsked
    <2> QED BY <2>3, <2>5 DEF StreamInv, Idle, NoData, PollFrame, gameVars
  <1>4. CASE /\ goal = "wait"
             /\ Ask(sock, "wait", <<Version, 1>>, "RECV_WAIT", "CONNECTED")
    <2>1. AfterAsk("wait", "RECV_WAIT")
      <3>1. <<Version, 1>> \in Bytes /\ "wait" \in Kinds
        BY DEF Version, Bytes, Kinds
      <3> QED BY <1>1, <1>4, <3>1, AskStep
    <2>2. /\ Awaited("RECV_WAIT") = "wait"
          /\ WaitsIn("RECV_WAIT", goal, relay_processing')
      BY <1>4 DEF Awaited, WaitsIn
    <2> QED BY <2>1, <2>2, AfterAskInv
  <1> QED BY <1>2, <1>3, <1>4 DEF AskCallOrWait

LEMMA NumberPollInv ==
    ASSUME StreamInv, goal # "none", PollFrame,
           NEW k1 \in Int, NEW k2 \in Int, k1 >= -1, k2 >= -1,
           NumberPoll(k1, k2)
    PROVE  StreamInv'
  <1> DEFINE q == relay_get_number_recv(Received(buffer, wire, 0), k1, k2)
             told == SubSeq(q.buffer, 4, Len(q.buffer))
  <1>1. /\ NumberHere(q, k1, k2)
        /\ \/ Unsettled(q, "CONNECTED")
           \/ /\ q.rc > 0
              /\ user_number' = told
              /\ \/ /\ goal = "number"
                    /\ relay_state' = "CONNECTED"
                    /\ Ended(SockStream(sock, conn), 1)
                    /\ UNCHANGED <<buffer, relay_processing>> /\ NothingAsked
                 \/ /\ AskCallOrWait
                    /\ relay_processing' = "FINAL"
              /\ UNCHANGED <<token, peer_number>>
    BY DEF NumberPoll, NumberHere
  <1> HIDE DEF q
  <1>2. Receiving("number", q, k1, k2)
    BY <1>1, ReceivingHere DEF Kinds
  <1>3. CASE Unsettled(q, "CONNECTED")
    BY <1>2, <1>3, UnsettledInv
  <1>4. CASE ~Unsettled(q, "CONNECTED")
    <2>1. /\ q.rc > 0 /\ user_number' = told
          /\ UNCHANGED <<token, peer_number>>
      BY <1>1, <1>4
    <2>2. /\ Typed /\ NoData /\ sock \in [Conn -> Socket]
          /\ sock[conn] = Slot("connected", "ipv4")
          /\ SockStream(sock, conn) = sock
          /\ wire' = q.wire
      BY <1>2, ReceivingFacts
    <2>3. /\ answer \in Bytes /\ q.buffer = answer /\ q.wire = peer_sent
          /\ sent = meant /\ peer_sent = <<>>
          /\ Len(answer) >= 3
      BY <1>2, <2>1, AnsweredFacts DEF HeadSize
    <2>4. token' \in Bytes /\ user_number' \in Bytes /\ peer_number' \in Bytes
      <3>1. SubSeq(answer, 4, Len(answer)) \in Bytes
        <4> DEFINE n == 3
                   i == 4
        <4>1. n \in Nat /\ n <= Len(answer) /\ i = n + 1
          BY <2>3
        <4> HIDE DEF n, i
        <4>2. SubSeq(answer, i, Len(answer)) \in Bytes
          BY <2>3, <4>1, Dropped
        <4> QED BY <4>2 DEF i
      <3> QED BY <2>1, <2>2, <2>3, <3>1 DEF Typed
    <2>5. wire' = <<>>
      BY <2>2, <2>3
    <2>6. CASE AskCallOrWait /\ relay_processing' = "FINAL"
      BY <2>2, <2>3, <2>4, <2>5, <2>6, AskCallOrWaitInv
    <2>7. CASE /\ goal = "number"
               /\ Ended(SockStream(sock, conn), 1)
               /\ UNCHANGED <<buffer, relay_processing>> /\ NothingAsked
      <3>1. 1 \notin Keep
        BY <2>7 DEF Keep
      <3>2. Ended(sock, 1)
        BY <2>2, <2>7
      <3>3. sock' \in [Conn -> Socket] /\ goal' = "none" /\ sock'[conn] = Closed
        BY <2>2, <3>1, <3>2, EndedStep
      <3>4. wire' \in Bytes
        BY <2>5, EmptySeq DEF Bytes
      <3>5. Typed'
        BY <2>2, <2>4, <2>7, <3>3, <3>4 DEF Typed, PollFrame, gameVars, NothingAsked
      <3> QED BY <2>2, <3>3, <3>5 DEF StreamInv, Idle, NoData, PollFrame, gameVars
    <2> QED BY <1>1, <1>4, <2>6, <2>7
  <1> QED BY <1>3, <1>4

LEMMA AnswerPollInv ==
    ASSUME StreamInv, goal # "none", PollFrame,
           NEW k1 \in Int, NEW k2 \in Int, k1 >= -1, k2 >= -1,
           AnswerPoll(k1, k2)
    PROVE  StreamInv'
  <1> DEFINE in == Received(buffer, wire, 0)
             q == IF relay_state = "RECV_CALL" THEN relay_call_recv(in, k1)
                  ELSE relay_wait_recv(in, k1, k2)
             kind == IF goal = "call" THEN "call" ELSE "wait"
             told == SubSeq(q.buffer, 5, Len(q.buffer))
  <1>1. /\ relay_state \in {"RECV_CALL", "RECV_WAIT"}
        /\ Settled(kind, q, k1, k2)
        /\ \/ Unsettled(q, "CONNECTED")
           \/ /\ q.rc > 0
              /\ relay_state' = IF q.rc = 1 THEN "LINKED" ELSE "CONNECTED"
              /\ peer_number' = IF q.rc # 1 THEN peer_number
                                ELSE IF goal = "call" THEN calling
                                ELSE told
              /\ buffer' = q.buffer
              /\ Ended(SockStream(sock, conn), q.rc)
              /\ NothingAsked
              /\ UNCHANGED <<relay_processing, token, user_number>>
    BY DEF AnswerPoll
  <1>2. /\ relay_state = (IF goal = "call" THEN "RECV_CALL" ELSE "RECV_WAIT")
        /\ goal \in {"call", "wait"}
    BY <1>1 DEF StreamInv, Connects, Waits, WaitsIn, Linked
  <1>3. AnswerHere(kind, q, k1, k2) /\ kind \in Kinds
    BY <1>1, <1>2 DEF AnswerHere, Kinds
  <1> HIDE DEF q
  <1>4. Receiving(kind, q, k1, k2)
    <2> HIDE DEF kind
    <2> QED BY <1>3, ReceivingHere
  <1>5. CASE Unsettled(q, "CONNECTED")
    BY <1>4, <1>5, UnsettledInv
  <1>6. CASE ~Unsettled(q, "CONNECTED")
    <2>1. /\ q.rc > 0
          /\ relay_state' = IF q.rc = 1 THEN "LINKED" ELSE "CONNECTED"
          /\ peer_number' = IF q.rc # 1 THEN peer_number
                            ELSE IF goal = "call" THEN calling ELSE told
          /\ buffer' = q.buffer
          /\ Ended(SockStream(sock, conn), q.rc)
          /\ NothingAsked
          /\ UNCHANGED <<relay_processing, token, user_number>>
      BY <1>1, <1>6
    <2>2. /\ Typed /\ NoData /\ sock \in [Conn -> Socket]
          /\ sock[conn] = Slot("connected", "ipv4")
          /\ SockStream(sock, conn) = sock
          /\ wire' = q.wire /\ q.wire \in Bytes
      BY <1>4, ReceivingFacts
    <2>3. /\ answer \in Bytes /\ q.buffer = answer /\ q.wire = peer_sent
          /\ sent = meant
          /\ kind = "wait" => Len(answer) >= 4
          /\ q.rc = 1 => asked = "linked"
      BY <1>2, <1>4, <2>1, AnsweredFacts DEF HeadSize
    <2>4. peer_number' \in Bytes
      <3>1. CASE goal = "call"
        BY <2>1, <2>2, <3>1 DEF Typed
      <3>2. CASE goal # "call"
        <4> DEFINE n == 4
                   i == 5
        <4>1. n \in Nat /\ n <= Len(answer) /\ i = n + 1
          BY <2>3, <3>2
        <4> HIDE DEF n, i
        <4>2. SubSeq(answer, i, Len(answer)) \in Bytes
          BY <2>3, <4>1, Dropped
        <4>3. told \in Bytes
          BY <2>3, <4>2 DEF i
        <4> QED BY <2>1, <2>2, <3>2, <4>3 DEF Typed
      <3> QED BY <3>1, <3>2
    <2>5. /\ sock' \in [Conn -> Socket]
          /\ q.rc \in Keep => goal' = goal /\ sock'[conn] = Slot("connected", "ipv4")
          /\ q.rc \notin Keep => goal' = "none" /\ sock'[conn] = Closed
      <3>1. Ended(sock, q.rc)
        BY <2>1, <2>2
      <3> QED BY <2>2, <3>1, EndedStep
    <2>6. Typed'
      BY <2>1, <2>2, <2>3, <2>4, <2>5 DEF Typed, PollFrame, gameVars, NothingAsked
    <2>7. NoData'
      BY <2>2 DEF NoData, PollFrame, gameVars
    <2>8. CASE q.rc = 1
      <3>1. q.rc \in Keep
        BY <1>2, <2>8 DEF Keep
      <3>2. goal' = goal /\ sock'[conn] = Slot("connected", "ipv4")
        BY <2>5, <3>1
      <3>3. (game_got \o wire)' = peer_sent'
        <4>1. game_got' = <<>> /\ wire' = peer_sent /\ peer_sent' = peer_sent
          BY <2>2, <2>3, <2>7 DEF NoData, PollFrame
        <4> QED BY <2>2, <4>1, ConcatEmptySeq DEF Typed, Bytes
      <3>4. sent' = meant' /\ asked' = "linked"
        BY <2>1, <2>3, <2>8 DEF NothingAsked
      <3>5. Linked'
        BY <1>2, <2>1, <2>7, <2>8, <3>2, <3>3, <3>4 DEF Linked, NoData
      <3> QED BY <2>6, <3>2, <3>5 DEF StreamInv
    <2>9. CASE q.rc # 1
      <3>1. q.rc \notin Keep
        <4>1. q.rc \in {-1, 0, 1, 2, 3, 4}
          BY <1>4, ReceivingFacts
        <4> QED BY <2>1, <2>9, <4>1, KeepFacts
      <3> QED BY <2>5, <2>6, <2>7, <3>1 DEF StreamInv, Idle, NoData
    <2> QED BY <2>8, <2>9
  <1> QED BY <1>5, <1>6

LEMMA PollInv ==
    ASSUME StreamInv, Poll
    PROVE  StreamInv'
  <1>1. goal # "none" /\ PollFrame
    BY DEF Poll, PollFrame
  <1>2. CASE ConnectPoll
    BY <1>1, <1>2, ConnectPollInv
  <1>3. ASSUME NEW k1 \in -1 .. Len(wire), NEW k2 \in -1 .. Len(wire),
               HandshakePoll(k1, k2) \/ NumberPoll(k1, k2) \/ AnswerPoll(k1, k2)
        PROVE  StreamInv'
    <2>1. k1 \in Int /\ k2 \in Int /\ k1 >= -1 /\ k2 >= -1
      BY LenProperties DEF StreamInv, Typed, Bytes
    <2> QED BY <1>1, <1>3, <2>1, HandshakePollInv, NumberPollInv, AnswerPollInv
  <1> QED BY <1>2, <1>3 DEF Poll

-----------------------------------------------------------------------------
(* The other actions.                                                      *)
LEMMA BeginInv ==
    ASSUME StreamInv, NEW g \in {"call", "wait", "number"}, Begin(g)
    PROVE  StreamInv'
  <1>1. Typed /\ goal = "none" /\ sock[conn] = Closed /\ ~data_pending
    BY DEF Begin, StreamInv, Idle
  <1>2. sock' \in [Conn -> Socket] /\ sock'[conn] = Slot("tcp", "ipv4")
    BY <1>1, SocketOpened DEF Begin, Typed
  <1>3. <<>> \in Bytes /\ calling' \in CallNumbers /\ calling' \in Bytes
    BY BytesAssumption, EmptySeq DEF Begin, Bytes
  <1>4. Typed'
    BY <1>1, <1>2, <1>3 DEF Begin, Typed
  <1>5. Connects'
    BY <1>1, <1>2 DEF Begin, Connects, NoData
  <1>6. goal' # "none"
    BY DEF Begin
  <1> QED BY <1>4, <1>5, <1>6 DEF StreamInv

LEMMA HangUpInv ==
    ASSUME StreamInv, HangUp
    PROVE  StreamInv'
  <1>1. /\ Typed /\ goal # "none"
        /\ sock[conn] \in {Slot("tcp", "ipv4"), Slot("connected", "ipv4")}
    BY DEF HangUp, StreamInv, Connects, Waits, Linked
  <1>2. sock' \in [Conn -> Socket] /\ sock'[conn] = Closed
    BY <1>1, SocketClosed DEF HangUp, Typed
  <1>3. Typed'
    BY <1>1, <1>2, EmptySeq DEF HangUp, Typed, Bytes, serverVars
  <1> QED BY <1>2, <1>3 DEF HangUp, StreamInv, Idle

LEMMA GameSendsInv ==
    ASSUME StreamInv, GameSends
    PROVE  StreamInv'
  <1>1. Typed /\ Linked /\ goal # "none" /\ ~data_pending
    BY DEF GameSends, StreamInv, Connects, Waits, WaitsIn
  <1>2. /\ packet' \in Packets /\ meant' = meant \o packet'
        /\ sent_size' = 0 /\ data_pending'
        /\ UNCHANGED <<sock, goal, clientVars, calling, game_got, serverVars,
                       wire, sent, result>>
    BY DEF GameSends
  <1>3. packet' \in Bytes /\ meant' \in Bytes
    BY <1>1, <1>2, BytesAssumption, ConcatProperties DEF Typed, Bytes
  <1>4. Typed'
    BY <1>1, <1>2, <1>3 DEF Typed, clientVars, serverVars
  <1>5. Linked'
    <2>1. sent = meant
      BY <1>1 DEF Linked
    <2>2. SubSeq(packet', 1, Len(packet')) = packet' /\ 0 <= Len(packet')
      BY <1>3, SubSeqFull, LenProperties DEF Bytes
    <2>3. SubSeq(packet', 0 + 1, Len(packet')) = packet'
      BY <2>2
    <2> QED BY <1>1, <1>2, <2>1, <2>2, <2>3 DEF Linked, clientVars, serverVars
  <1> QED BY <1>1, <1>2, <1>4, <1>5 DEF StreamInv

LEMMA ServerAnswersInv ==
    ASSUME StreamInv, ServerAnswers
    PROVE  StreamInv'
  <1>1. Typed /\ Waits /\ goal # "none" /\ asked \in Kinds
    BY DEF ServerAnswers, StreamInv, Connects, Linked, Kinds
  <1>2. PICK m \in Answers[asked] :
           /\ wire' = wire \o m
           /\ answer' = m
           /\ asked' = IF /\ asked \in {"call", "wait"}
                          /\ m[3] = 0 /\ WellFormed(asked, m)
                       THEN "linked" ELSE "none"
    BY DEF ServerAnswers
  <1>3. UNCHANGED <<sock, goal, clientVars, calling, gameVars, peer_sent,
                    procedures, sent, meant, result>>
    BY DEF ServerAnswers
  <1>4. /\ asked = Awaited(relay_state) /\ sent = meant
        /\ buffer = <<>> /\ wire = <<>> /\ peer_sent = <<>>
    BY <1>1 DEF Waits, Awaiting, Unanswered, Answered, Kinds
  <1>5. m \in Bytes /\ <<>> \in Bytes /\ Len(<<>>) = 0
    BY <1>1, BytesAssumption, EmptySeq DEF Bytes
  <1>6. wire' = m /\ (buffer \o wire)' = m /\ (answer \o peer_sent)' = m
    BY <1>2, <1>3, <1>4, <1>5, ConcatEmptySeq DEF Bytes, clientVars
  <1>7. Typed'
    BY <1>1, <1>2, <1>3, <1>5, <1>6 DEF Typed, clientVars, gameVars
  <1>8. Answered(Awaited(relay_state), buffer, wire)'
    <2>1. Unfinished(asked, buffer')
      <3>1. HeadSize(asked) \in Nat
        <4>1. Len(Magic) \in Nat
          BY LenProperties, BytesAssumption
        <4> QED BY <1>1, <4>1 DEF HeadSize, Kinds
      <3> QED BY <1>3, <1>4, <1>5, <3>1 DEF Unfinished, clientVars
    <2>2. Awaited(relay_state)' = asked
      BY <1>3, <1>4 DEF clientVars, Awaited
    <2>3. \/ asked' = "linked" /\ LinksPhones(asked, m)
          \/ asked' = "none" /\ ~LinksPhones(asked, m)
      BY <1>2 DEF LinksPhones
    <2> QED BY <1>2, <1>3, <1>4, <1>6, <2>1, <2>2, <2>3
            DEF Answered, LinksPhones
  <1>9. Waits'
    <2>1. Awaiting(Awaited(relay_state), buffer, wire)'
      BY <1>8 DEF Awaiting
    <2> QED BY <1>1, <1>3, <2>1 DEF Waits, NoData, clientVars, gameVars
  <1> QED BY <1>1, <1>3, <1>7, <1>9 DEF StreamInv

(* A byte behind both of two sequences.                                    *)
LEMMA Behind ==
    \A s, t \in Seq(Nat), x \in Nat : s \o Append(t, x) = Append(s \o t, x)
  <1> SUFFICES ASSUME NEW s \in Seq(Nat), NEW t \in Seq(Nat), NEW x \in Nat
               PROVE  s \o Append(t, x) = Append(s \o t, x)
    OBVIOUS
  <1> DEFINE last == <<x>>
  <1>1. last \in Seq(Nat) /\ s \o t \in Seq(Nat)
    BY ConcatProperties
  <1>2. Append(t, x) = t \o last /\ Append(s \o t, x) = (s \o t) \o last
    BY <1>1, AppendIsConcat
  <1> HIDE DEF last
  <1>3. (s \o t) \o last = s \o (t \o last)
    BY <1>1, Associative
  <1> QED BY <1>2, <1>3

LEMMA PeerSendsInv ==
    ASSUME StreamInv, PeerSends
    PROVE  StreamInv'
  <1> DEFINE b == PeerBytes[Len(peer_sent) + 1]
  <1>1. Typed /\ goal # "none" /\ asked = "linked" /\ (Waits \/ Linked)
    BY DEF PeerSends, ServerLinked, StreamInv, Connects
  <1>2. /\ wire' = Append(wire, b) /\ peer_sent' = Append(peer_sent, b)
        /\ UNCHANGED <<sock, goal, clientVars, calling, gameVars, asked, answer,
                       procedures, sent, meant, result>>
    BY DEF PeerSends
  <1>3. b \in Nat
    <2>1. Len(peer_sent) \in Nat /\ Len(peer_sent) < Len(PeerBytes)
          /\ Len(PeerBytes) \in Nat
      BY <1>1, LenProperties, BytesAssumption DEF PeerSends, Typed, Bytes
    <2>2. Len(peer_sent) + 1 \in 1 .. Len(PeerBytes)
      BY <2>1
    <2> QED BY <2>2, ElementOfSeq, BytesAssumption
  <1> HIDE DEF b
  <1>4. Typed'
    <2>1. wire' \in Bytes /\ peer_sent' \in Bytes
      BY <1>1, <1>2, <1>3, AppendProperties DEF Typed, Bytes
    <2> QED BY <1>1, <1>2, <2>1 DEF Typed, clientVars, gameVars
  <1>5. CASE Waits
    <2> DEFINE kind == Awaited(relay_state)
    <2>1. Answered(kind, buffer, wire)
      <3>1. kind \in Kinds /\ Awaiting(kind, buffer, wire)
        BY <1>5, AwaitedKinds DEF Waits
      <3>2. ~Unanswered(kind, buffer, wire)
        BY <1>1, <3>1 DEF Unanswered, Kinds
      <3> QED BY <3>1, <3>2 DEF Awaiting
    <2>2. (buffer \o wire)' = (answer \o peer_sent)'
      <3>1. /\ buffer \in Seq(Nat) /\ wire \in Seq(Nat) /\ answer \in Seq(Nat)
            /\ peer_sent \in Seq(Nat) /\ buffer \o wire = answer \o peer_sent
        BY <1>1, <2>1 DEF Typed, Bytes, Answered
      <3>2. /\ buffer \o Append(wire, b) = Append(buffer \o wire, b)
            /\ answer \o Append(peer_sent, b) = Append(answer \o peer_sent, b)
        BY <1>3, <3>1, Behind
      <3>3. buffer \o Append(wire, b) = answer \o Append(peer_sent, b)
        BY <3>1, <3>2
      <3> QED BY <1>2, <3>3 DEF clientVars
    <2>3. Awaited(relay_state)' = kind
      BY <1>2 DEF clientVars, Awaited
    <2>4. Answered(Awaited(relay_state), buffer, wire)'
      BY <1>1, <1>2, <2>1, <2>2, <2>3 DEF Answered, LinksPhones, clientVars
    <2>5. Awaiting(Awaited(relay_state), buffer, wire)'
      BY <2>4 DEF Awaiting
    <2>6. Waits'
      BY <1>2, <1>5, <2>5 DEF Waits, NoData, clientVars, gameVars
    <2> QED BY <1>1, <1>2, <1>4, <2>6 DEF StreamInv
  <1>6. CASE Linked
    <2>1. (game_got \o wire)' = peer_sent'
      <3>1. /\ game_got \in Seq(Nat) /\ wire \in Seq(Nat)
            /\ game_got \o wire = peer_sent
        BY <1>1, <1>6 DEF Typed, Bytes, Linked
      <3>2. game_got \o Append(wire, b) = Append(game_got \o wire, b)
        BY <1>3, <3>1, Behind
      <3> QED BY <1>2, <3>1, <3>2 DEF gameVars
    <2>2. Linked'
      BY <1>2, <1>6, <2>1 DEF Linked, clientVars, gameVars
    <2> QED BY <1>1, <1>2, <1>4, <2>2 DEF StreamInv
  <1> QED BY <1>1, <1>5, <1>6

(* A part of what is left goes out: it and the rest are what was left.     *)
LEMMA CutRest ==
    ASSUME NEW s \in Seq(Nat), NEW i \in Nat, NEW n \in Nat, i + n <= Len(s)
    PROVE  /\ SubSeq(s, i + 1, i + n) \in Seq(Nat)
           /\ SubSeq(s, i + n + 1, Len(s)) \in Seq(Nat)
           /\ SubSeq(s, i + 1, i + n) \o SubSeq(s, i + n + 1, Len(s)) =
                 SubSeq(s, i + 1, Len(s))
  <1>1. Len(s) \in Nat
    BY LenProperties
  <1>2. SubSeq(s, i + n + 1, Len(s)) \in Seq(Nat)
    <2>1. i + n \in 0 .. Len(s)
      BY <1>1
    <2> QED BY <2>1, Cut
  <1>3. SubSeq(s, i + 1, i + n) \in Seq(Nat)
    <2>1. \A j \in i + 1 .. i + n : s[j] \in Nat
      <3>1. \A j \in i + 1 .. i + n : j \in 1 .. Len(s)
        BY <1>1
      <3> QED BY <3>1, ElementOfSeq
    <2> QED BY <2>1, SubSeqProperties
  <1>4. SubSeq(s, i + 1, i + n) \o SubSeq(s, i + n + 1, Len(s)) =
            SubSeq(s, i + 1, Len(s))
    <2> DEFINE first == i + 1
               mid == i + n
    <2>1. /\ first \in 1 .. Len(s) + 1 /\ mid \in first - 1 .. Len(s)
          /\ Len(s) \in mid .. Len(s)
      BY <1>1
    <2> HIDE DEF first, mid
    <2>2. SubSeq(s, first, mid) \o SubSeq(s, mid + 1, Len(s)) = SubSeq(s, first, Len(s))
      BY <2>1, ConcatAdjacentSubSeq
    <2> QED BY <2>2 DEF first, mid
  <1> QED BY <1>2, <1>3, <1>4

LEMMA CommandDataInv ==
    ASSUME StreamInv, command_data
    PROVE  StreamInv'
  <1>1. Typed /\ Linked /\ goal # "none" /\ data_pending
    BY DEF command_data, StreamInv, Idle, Connects, Waits, NoData
  <1>2. UNCHANGED <<relay_state, relay_processing, buffer, token, user_number,
                    calling, packet, packets, serverVars, procedures, meant, result>>
    BY DEF command_data
  <1>3. PICK n \in 0 .. Len(packet) - sent_size :
          /\ SendRest(n)
          /\ \/ \E k \in 0 .. Len(wire) : DataReceives(k)
             \/ DataFails
             \/ /\ sent_size' < Len(packet)
                /\ sock' = SockStream(sock, conn)
                /\ UNCHANGED <<goal, peer_number, data_pending, wire, game_got>>
    BY DEF command_data
  <1>4. /\ sock \in [Conn -> Socket] /\ sock[conn] = Slot("connected", "ipv4")
        /\ SockStream(sock, conn) = sock
    BY <1>1, SocketStreams DEF Linked, Typed
  <1> DEFINE piece == SubSeq(packet, sent_size + 1, sent_size + n)
             left == SubSeq(packet, sent_size + n + 1, Len(packet))
  <1>5. /\ packet \in Seq(Nat) /\ sent \in Seq(Nat) /\ sent_size \in Nat
        /\ n \in Nat /\ Len(packet) \in Nat /\ sent_size + n <= Len(packet)
    BY <1>1, <1>3, LenProperties DEF Typed, Bytes, Linked
  <1>6. /\ piece \in Seq(Nat) /\ left \in Seq(Nat)
        /\ piece \o left = SubSeq(packet, sent_size + 1, Len(packet))
    BY <1>5, CutRest
  <1>7. sent' = sent \o piece /\ sent_size' = sent_size + n
    BY <1>3 DEF SendRest
  <1>8. sent' \o left = meant'
    <2>1. sent \o SubSeq(packet, sent_size + 1, Len(packet)) = meant
      BY <1>1 DEF Linked
    <2> HIDE DEF piece, left
    <2>2. (sent \o piece) \o left = sent \o (piece \o left)
      BY <1>5, <1>6, Associative
    <2> QED BY <1>2, <1>6, <1>7, <2>1, <2>2
  <1>9. sent' \in Bytes /\ sent_size' \in Nat /\ sent_size' <= Len(packet)
    BY <1>5, <1>6, <1>7, ConcatProperties DEF Bytes
  <1>10. left = SubSeq(packet', sent_size' + 1, Len(packet'))
    BY <1>2, <1>7
  <1>11. CASE DataFails
    <2>1. /\ goal' = "none" /\ peer_number' = <<>> /\ ~data_pending'
          /\ sock' = SockClose(sock, conn) /\ UNCHANGED <<wire, game_got>>
      BY <1>4, <1>11 DEF DataFails
    <2>2. sock' \in [Conn -> Socket] /\ sock'[conn] = Closed
      BY <1>4, <2>1, SocketClosed
    <2>3. Typed'
      BY <1>1, <1>2, <1>9, <2>1, <2>2, EmptySeq DEF Typed, Bytes, serverVars
    <2> QED BY <2>1, <2>2, <2>3 DEF StreamInv, Idle
  <1>12. CASE /\ sock' = SockStream(sock, conn)
              /\ UNCHANGED <<goal, peer_number, data_pending, wire, game_got>>
    <2>1. Typed'
      BY <1>1, <1>2, <1>4, <1>9, <1>12 DEF Typed, serverVars
    <2>2. Linked'
      BY <1>1, <1>2, <1>4, <1>8, <1>9, <1>10, <1>12 DEF Linked, serverVars
    <2> QED BY <1>1, <1>12, <2>1, <2>2 DEF StreamInv
  <1>13. ASSUME NEW k \in 0 .. Len(wire), DataReceives(k)
         PROVE  StreamInv'
    <2>1. /\ sent_size' = Len(packet)
          /\ wire' = SubSeq(wire, k + 1, Len(wire))
          /\ game_got' = game_got \o SubSeq(wire, 1, k)
          /\ ~data_pending'
          /\ sock' = sock
          /\ UNCHANGED <<goal, peer_number>>
      BY <1>4, <1>13 DEF DataReceives
    <2>2. /\ wire \in Seq(Nat) /\ game_got \in Seq(Nat)
          /\ game_got \o wire = peer_sent
      BY <1>1 DEF Typed, Bytes, Linked
    <2> DEFINE here == SubSeq(wire, 1, k)
               after == SubSeq(wire, k + 1, Len(wire))
    <2>3. here \in Seq(Nat) /\ after \in Seq(Nat) /\ here \o after = wire
      BY <2>2, Cut
    <2> HIDE DEF here, after
    <2>4. wire' = after /\ game_got' = game_got \o here
      BY <2>1 DEF here, after
    <2>5. game_got' \o wire' = peer_sent'
      <3>1. (game_got \o here) \o after = game_got \o (here \o after)
        BY <2>2, <2>3, Associative
      <3>2. game_got' \o wire' = peer_sent
        BY <2>2, <2>3, <2>4, <3>1
      <3> QED BY <1>2, <3>2 DEF serverVars
    <2>6. wire' \in Bytes /\ game_got' \in Bytes
      BY <2>2, <2>3, <2>4, ConcatProperties DEF Bytes
    <2>7. sent' = meant'
      <3>1. left = <<>>
        <4>1. sent_size + n = Len(packet)
          BY <1>7, <2>1
        <4>2. left = SubSeq(packet, Len(packet) + 1, Len(packet))
          BY <4>1
        <4> QED BY <1>5, <4>2, SubSeqEmpty
      <3> HIDE DEF left
      <3> QED BY <1>8, <1>9, <3>1, ConcatEmptySeq DEF Bytes
    <2>8. Typed'
      BY <1>1, <1>2, <1>4, <1>9, <2>1, <2>6 DEF Typed, serverVars
    <2>9. Linked'
      BY <1>1, <1>2, <1>4, <2>1, <2>5, <2>7 DEF Linked, serverVars
    <2> QED BY <1>1, <2>1, <2>8, <2>9 DEF StreamInv
  <1> QED BY <1>3, <1>11, <1>12, <1>13

LEMMA StutterInv ==
    ASSUME StreamInv, UNCHANGED vars
    PROVE  StreamInv'
  <1>1. Typed' /\ (goal' = "none" => Idle')
    BY DEF StreamInv, Typed, Idle, vars, clientVars, gameVars, serverVars
  <1>2. /\ Connects => Connects'
        /\ Linked => Linked'
    BY DEF Connects, Linked, NoData, vars, clientVars, gameVars, serverVars
  <1>3. Waits => Waits'
    BY DEF Waits, Awaiting, Answered, Unanswered, LinksPhones, Awaited, NoData,
           vars, clientVars, gameVars, serverVars
  <1>4. goal' = goal
    BY DEF vars
  <1> QED BY <1>1, <1>2, <1>3, <1>4 DEF StreamInv

LEMMA NextInv ==
    ASSUME StreamInv, [Next]_vars
    PROVE  StreamInv'
  BY BeginInv, PollInv, HangUpInv, GameSendsInv, CommandDataInv,
     ServerAnswersInv, PeerSendsInv, StutterInv DEF Next

THEOREM StreamSafe == Spec => []StreamInv
  BY InitInv, NextInv, PTL DEF Spec

(* Whatever the pieces in which the bytes arrive and are taken, the bytes  *)
(* of the peer that follow the last answer of the server reach the game.   *)
THEOREM PeerBytesSafe == Spec => []PeerBytesKept
  <1>1. StreamInv => PeerBytesKept
    BY DEF StreamInv, PeerBytesKept, Connects, Waits, WaitsIn, Linked
  <1> QED BY <1>1, StreamSafe, PTL

(* Every byte of a request and of a packet of the game is given to the     *)
(* socket once and in order, however often sock_send took only a part.     *)
THEOREM SentOnce == Spec => []SentWhole
  <1>1. StreamInv => SentWhole
    BY DEF StreamInv, SentWhole, Connects, Waits, WaitsIn, Linked
  <1> QED BY <1>1, StreamSafe, PTL

-----------------------------------------------------------------------------
(* What the client makes of an answer.                                     *)
ToldNext(kind, rc) ==
    CASE kind = "handshake" -> IF rc = 2 THEN token' ELSE <<>>
      [] kind = "number"    -> user_number'
      [] kind = "call"      -> <<>>
      [] kind = "wait"      -> peer_number'

LEMMA Judged ==
    ASSUME NEW kind, NEW q, NEW k1, NEW k2, Receiving(kind, q, k1, k2),
           q.rc > 0 /\ (kind = "wait" => goal' # "none") =>
               ToldNext(kind, q.rc) = Value(kind, answer)
    PROVE  AnswerUnderstood'
  <1>1. /\ kind \in Kinds /\ q.rc \in {-1, 0, 1, 2, 3, 4}
        /\ q.rc < 0 /\ -1 \notin {k1, k2} => ~WellFormed(kind, answer)
    BY ReceivingFacts
  <1>2. q.rc > 0 => Carries(kind, answer, q.rc, Value(kind, answer))
    BY AnsweredFacts
  <1>3. result' = IF -1 \in {k1, k2} \/ q.rc = 0 THEN NoResult
                  ELSE [kind |-> kind, rc |-> q.rc, of |-> answer]
    BY DEF Receiving, Settled
  <1>4. CASE -1 \in {k1, k2} \/ q.rc = 0
    <2>1. result' = NoResult
      BY <1>3, <1>4
    <2>2. result'.rc = 0
      BY <2>1 DEF NoResult
    <2> QED BY <2>2 DEF AnswerUnderstood
  <1>5. CASE ~(-1 \in {k1, k2} \/ q.rc = 0)
    <2>1. result'.kind = kind /\ result'.rc = q.rc /\ result'.of = answer
      BY <1>3, <1>5
    <2>2. result'.rc < 0 => ~WellFormed(result'.kind, result'.of)
      BY <1>1, <1>5, <2>1
    <2>3. result'.rc > 0 /\ (result'.kind = "wait" => goal' # "none") =>
              Carries(result'.kind, result'.of, result'.rc,
                      ToldNext(result'.kind, result'.rc))
      BY <1>2, <2>1
    <2> QED BY <2>2, <2>3 DEF AnswerUnderstood, Told, ToldNext
  <1> QED BY <1>4, <1>5

LEMMA HandshakeTold ==
    ASSUME StreamInv, goal # "none", PollFrame,
           NEW k1 \in Int, NEW k2 \in Int, k1 >= -1, k2 >= -1,
           HandshakePoll(k1, k2),
           NEW q, q = relay_handshake_recv(Received(buffer, wire, 0), k1, k2)
    PROVE  /\ Receiving("handshake", q, k1, k2)
           /\ q.rc > 0 => ToldNext("handshake", q.rc) = Value("handshake", answer)
  <1> DEFINE kind == "handshake"
  <1>1. /\ HandshakeHere(q, k1, k2)
        /\ q.rc > 0 => token' = IF q.rc = 2
                                THEN SubSeq(q.buffer, Len(Magic) + 2, Len(q.buffer))
                                ELSE token
    <2>1. Unsettled(q, "DISCONNECTED") => ~(q.rc > 0)
      <3>1. q.rc <= 0 /\ q.rc > 0 => FALSE
        <4>1. HandshakeHere(q, k1, k2)
          BY DEF HandshakePoll, HandshakeHere
        <4>2. Receiving(kind, q, k1, k2)
          BY <4>1, ReceivingHere DEF Kinds
        <4>3. q.rc \in {-1, 0, 1, 2, 3, 4}
          BY <4>2, ReceivingFacts
        <4> QED BY <4>3
      <3> QED BY <3>1 DEF Unsettled
    <2> QED BY <2>1 DEF HandshakePoll, HandshakeHere
  <1>2. Receiving(kind, q, k1, k2)
    BY <1>1, ReceivingHere DEF Kinds
  <1>3. ASSUME q.rc > 0
        PROVE  ToldNext(kind, q.rc) = Value(kind, answer)
    <2>1. q.buffer = answer /\ Carries(kind, answer, q.rc, Value(kind, answer))
      BY <1>2, <1>3, AnsweredFacts
    <2>2. CASE q.rc = 2
      <3>1. token' = SubSeq(answer, Len(Magic) + 2, Len(answer))
        BY <1>1, <1>3, <2>1, <2>2
      <3>2. Value(kind, answer) = SubSeq(answer, Len(Magic) + 1 + 1, Len(answer))
        BY DEF Value, HeadSize
      <3>3. Len(Magic) + 1 + 1 = Len(Magic) + 2
        BY LenProperties, BytesAssumption
      <3>4. token' = Value(kind, answer)
        BY <3>1, <3>2, <3>3
      <3> QED BY <2>2, <3>4 DEF ToldNext
    <2>3. CASE q.rc # 2
      <3>1. Value(kind, answer) = <<>>
        BY <2>1, <2>3 DEF Carries
      <3> QED BY <2>3, <3>1 DEF ToldNext
    <2> QED BY <2>2, <2>3
  <1> QED BY <1>2, <1>3

LEMMA NumberTold ==
    ASSUME StreamInv, goal # "none", PollFrame,
           NEW k1 \in Int, NEW k2 \in Int, k1 >= -1, k2 >= -1,
           NumberPoll(k1, k2),
           NEW q, q = relay_get_number_recv(Received(buffer, wire, 0), k1, k2)
    PROVE  /\ Receiving("number", q, k1, k2)
           /\ q.rc > 0 => ToldNext("number", q.rc) = Value("number", answer)
  <1> DEFINE kind == "number"
             told == SubSeq(q.buffer, 4, Len(q.buffer))
  <1>1. /\ NumberHere(q, k1, k2)
        /\ Unsettled(q, "CONNECTED") \/ user_number' = told
    BY DEF NumberPoll, NumberHere
  <1>2. Receiving(kind, q, k1, k2)
    BY <1>1, ReceivingHere DEF Kinds
  <1>3. q.rc \in {-1, 0, 1, 2, 3, 4}
    BY <1>2, ReceivingFacts
  <1>4. ASSUME q.rc > 0
        PROVE  ToldNext(kind, q.rc) = Value(kind, answer)
    <2>1. q.buffer = answer
      BY <1>2, <1>4, AnsweredFacts
    <2>2. user_number' = told
      BY <1>1, <1>3, <1>4 DEF Unsettled
    <2>3. Value(kind, answer) = SubSeq(answer, 3 + 1, Len(answer))
      BY DEF Value, HeadSize
    <2>4. 3 + 1 = 4
      OBVIOUS
    <2>5. told = SubSeq(answer, 4, Len(answer))
      BY <2>1
    <2> HIDE DEF told
    <2>6. user_number' = Value(kind, answer)
      BY <2>2, <2>3, <2>4, <2>5
    <2> QED BY <2>6 DEF ToldNext
  <1> QED BY <1>2, <1>4

LEMMA AnswerTold ==
    ASSUME StreamInv, goal # "none", PollFrame,
           NEW k1 \in Int, NEW k2 \in Int, k1 >= -1, k2 >= -1,
           AnswerPoll(k1, k2), NEW kind, kind = (IF goal = "call" THEN "call" ELSE "wait"),
           NEW q, q = IF relay_state = "RECV_CALL"
                      THEN relay_call_recv(Received(buffer, wire, 0), k1)
                      ELSE relay_wait_recv(Received(buffer, wire, 0), k1, k2)
    PROVE  /\ Receiving(kind, q, k1, k2)
           /\ q.rc > 0 /\ (kind = "wait" => goal' # "none") =>
                  ToldNext(kind, q.rc) = Value(kind, answer)
  <1> DEFINE told == SubSeq(q.buffer, 5, Len(q.buffer))
  <1>1. /\ relay_state \in {"RECV_CALL", "RECV_WAIT"}
        /\ Settled(kind, q, k1, k2)
        /\ \/ Unsettled(q, "CONNECTED")
           \/ /\ peer_number' = IF q.rc # 1 THEN peer_number
                                ELSE IF goal = "call" THEN calling
                                ELSE told
              /\ Ended(SockStream(sock, conn), q.rc)
    BY DEF AnswerPoll
  <1>2. /\ relay_state = (IF goal = "call" THEN "RECV_CALL" ELSE "RECV_WAIT")
        /\ goal \in {"call", "wait"}
    BY <1>1 DEF StreamInv, Connects, Waits, WaitsIn, Linked
  <1>3. AnswerHere(kind, q, k1, k2) /\ kind \in Kinds
    BY <1>1, <1>2 DEF AnswerHere, Kinds
  <1>4. Receiving(kind, q, k1, k2)
    <2> QED BY <1>3, ReceivingHere
  <1>5. q.rc \in {-1, 0, 1, 2, 3, 4}
    BY <1>4, ReceivingFacts
  <1>6. ASSUME q.rc > 0, kind = "wait" => goal' # "none"
        PROVE  ToldNext(kind, q.rc) = Value(kind, answer)
    <2>1. CASE kind = "call"
      BY <2>1 DEF ToldNext, Value
    <2>2. CASE kind # "call"
      <3>0. kind = "wait" /\ goal # "call"
        BY <2>2
      <3>1. ~Unsettled(q, "CONNECTED")
        BY <1>5, <1>6 DEF Unsettled
      <3>2. q.rc \in Keep
        BY <1>1, <1>6, <3>0, <3>1 DEF Ended
      <3>3. q.rc = 1
        BY <1>5, <1>6, <3>2, KeepFacts
      <3>4. peer_number' = told
        BY <1>1, <3>0, <3>1, <3>3
      <3>5. told = SubSeq(answer, 5, Len(answer))
        BY <1>4, <1>6, AnsweredFacts
      <3>6. Value(kind, answer) = SubSeq(answer, 4 + 1, Len(answer))
        BY <3>0 DEF Value, HeadSize
      <3>7. 4 + 1 = 5
        OBVIOUS
      <3> HIDE DEF told
      <3>8. peer_number' = Value(kind, answer)
        BY <3>4, <3>5, <3>6, <3>7
      <3> QED BY <3>0, <3>8 DEF ToldNext
    <2> QED BY <2>1, <2>2
  <1> QED BY <1>4, <1>6

LEMMA AnswerUnderstoodStep ==
    ASSUME StreamInv, AnswerUnderstood, [Next]_vars
    PROVE  AnswerUnderstood'
  <1>1. ASSUME /\ UNCHANGED <<result, token, user_number>>
               /\ goal' # "none" => goal # "none" /\ UNCHANGED peer_number
        PROVE  AnswerUnderstood'
    <2> DEFINE kind == result.kind
               rc == result.rc
    <2>1. /\ rc < 0 => ~WellFormed(kind, result.of)
          /\ rc > 0 /\ (kind = "wait" => goal # "none") =>
                 Carries(kind, result.of, rc, Told(kind, rc))
      BY DEF AnswerUnderstood
    <2>2. ASSUME rc > 0, kind = "wait" => goal' # "none"
          PROVE  Carries(kind, result.of, rc, ToldNext(kind, rc))
      <3>1. Carries(kind, result.of, rc, Told(kind, rc))
        BY <1>1, <2>1, <2>2
      <3>2. kind \in {"handshake", "number", "call", "wait"}
        BY <3>1 DEF Carries
      <3>3. ToldNext(kind, rc) = Told(kind, rc)
        BY <1>1, <2>2, <3>2 DEF Told, ToldNext
      <3> QED BY <3>1, <3>3
    <2>3. result' = result
      BY <1>1
    <2> QED BY <2>1, <2>2, <2>3 DEF AnswerUnderstood, Told, ToldNext
  <1>2. ASSUME NEW g \in {"call", "wait", "number"}, Begin(g)
        PROVE  AnswerUnderstood'
    BY <1>2 DEF Begin, AnswerUnderstood, NoResult
  <1>3. CASE Poll
    <2>1. goal # "none" /\ PollFrame
      BY <1>3 DEF Poll, PollFrame
    <2>2. CASE ConnectPoll
      <3>1. /\ UNCHANGED <<token, user_number, peer_number, result>>
        BY <2>2 DEF ConnectPoll
      <3> QED BY <1>1, <2>1, <3>1
    <2>3. ASSUME NEW k1 \in -1 .. Len(wire), NEW k2 \in -1 .. Len(wire),
                 HandshakePoll(k1, k2) \/ NumberPoll(k1, k2) \/ AnswerPoll(k1, k2)
          PROVE  AnswerUnderstood'
      <3>1. k1 \in Int /\ k2 \in Int /\ k1 >= -1 /\ k2 >= -1
        BY LenProperties DEF StreamInv, Typed, Bytes
      <3> QED BY <2>1, <2>3, <3>1,
            HandshakeTold, NumberTold, AnswerTold, Judged
    <2> QED BY <1>3, <2>2, <2>3 DEF Poll
  <1>4. CASE HangUp
    BY <1>1, <1>4 DEF HangUp
  <1>5. CASE GameSends
    BY <1>1, <1>5 DEF GameSends, clientVars
  <1>6. CASE command_data
    <2>1. UNCHANGED <<result, token, user_number>>
      BY <1>6 DEF command_data
    <2>2. goal' = "none" \/ UNCHANGED <<goal, peer_number>>
      BY <1>6 DEF command_data, DataReceives, DataFails
    <2>3. goal # "none"
      BY <1>6 DEF command_data, StreamInv, Idle
    <2> QED BY <1>1, <2>1, <2>2, <2>3
  <1>7. CASE ServerAnswers
    BY <1>1, <1>7 DEF ServerAnswers, clientVars
  <1>8. CASE PeerSends
    BY <1>1, <1>8 DEF PeerSends, ServerLinked, clientVars
  <1>9. CASE UNCHANGED vars
    BY <1>9 DEF AnswerUnderstood, Told, vars, clientVars
  <1> QED BY <1>2, <1>3, <1>4, <1>5, <1>6, <1>7, <1>8, <1>9 DEF Next

(* However the answer of the server is cut into pieces, the client takes   *)
(* it for what it says, with the token or the number in it, if it is well  *)
(* formed, and refuses it if it is not.                                    *)
THEOREM AnswerSafe == Spec => []AnswerUnderstood
  <1>1. Init => AnswerUnderstood
    BY DEF Init, AnswerUnderstood, NoResult
  <1>2. StreamInv /\ AnswerUnderstood /\ [Next]_vars => AnswerUnderstood'
    BY AnswerUnderstoodStep
  <1> QED BY <1>1, <1>2, StreamSafe, PTL DEF Spec

-----------------------------------------------------------------------------
(* The client of Relay.                                                    *)
LEMMA SameSockets ==
    \A s : /\ R!SockClose(s, conn) = SockClose(s, conn)
           /\ R!SockStream(s, conn) = SockStream(s, conn)
           /\ \A rc : R!SockConnect(s, conn, "ipv4", rc) = SockConnect(s, conn, "ipv4", rc)
  BY DEF R!SockClose, SockClose, R!SockStream, SockStream, R!SockConnect,
         SockConnect, R!Closed, Closed, R!Misused, Misused, R!Slot, Slot

LEMMA EndedRelay ==
    ASSUME NEW s, NEW rc, Ended(s, rc)
    PROVE  sock' = R!Settle(s, conn, rc, Keep)
  BY SameSockets DEF Ended, R!Settle

LEMMA AskRelay ==
    ASSUME NEW s, NEW kind, NEW request, NEW waiting, NEW failed,
           Ask(s, kind, request, waiting, failed)
    PROVE  \E rc \in {0, -1} :
              /\ sock' = R!Settle(SockStream(s, conn), conn, rc, Keep)
              /\ relay_state' = IF rc = 0 THEN waiting ELSE failed
  <1>1. PICK n \in SendResults(request) :
           /\ relay_state' = IF n = 0 THEN failed ELSE waiting
           /\ Ended(SockStream(s, conn), IF n = 0 THEN -1 ELSE 0)
    BY DEF Ask
  <1> DEFINE rc == IF n = 0 THEN -1 ELSE 0
  <1>2. rc \in {0, -1} /\ relay_state' = IF rc = 0 THEN waiting ELSE failed
    BY <1>1
  <1>3. Ended(SockStream(s, conn), rc)
    BY <1>1
  <1> HIDE DEF rc
  <1>4. sock' = R!Settle(SockStream(s, conn), conn, rc, Keep)
    BY <1>3, EndedRelay
  <1> QED BY <1>2, <1>4

RelayPoll(rc) == R!mobile_relay_proc(conn, "ipv4", goal, Keep, rc)

LEMMA ConnectRelay ==
    ASSUME StreamInv, goal # "none", ConnectPoll
    PROVE  \E rc \in -1 .. 2 : RelayPoll(rc)
  <1>1. relay_state \in {"DISCONNECTED", "RECV_CONNECT"}
    BY DEF ConnectPoll, Connecting
  <1>2. relay_processing = "BEGIN"
    BY <1>1 DEF StreamInv, Connects, Waits, WaitsIn, Linked
  <1>3. UNCHANGED <<relay_processing, token, user_number, peer_number>>
    BY DEF ConnectPoll
  <1>4. ASSUME NEW rc \in {0, -1},
               relay_state' = IF rc = 0 THEN "RECV_CONNECT" ELSE "DISCONNECTED",
               Ended(SockConnect(sock, conn, "ipv4", rc), rc)
        PROVE  RelayPoll(rc)
    <2>1. sock' = R!Settle(R!SockConnect(sock, conn, "ipv4", rc), conn, rc, Keep)
      BY <1>4, EndedRelay, SameSockets
    <2>2. R!relay_connect(sock, conn, "ipv4", Keep, rc)
      BY <1>4, <2>1 DEF R!relay_connect
    <2> QED BY <1>1, <1>2, <1>3, <2>2 DEF RelayPoll, R!mobile_relay_proc
  <1>5. ASSUME Ask(SockConnect(sock, conn, "ipv4", 1), "handshake",
                   HandshakeRequest, "RECV_HANDSHAKE", "RECV_CONNECT")
        PROVE  \E rc \in {0, -1} : RelayPoll(rc)
    <2>1. PICK rc \in {0, -1} :
             /\ sock' = R!Settle(SockStream(SockConnect(sock, conn, "ipv4", 1), conn),
                                 conn, rc, Keep)
             /\ relay_state' = IF rc = 0 THEN "RECV_HANDSHAKE" ELSE "RECV_CONNECT"
      BY <1>5, AskRelay
    <2>2. sock' = R!Settle(R!SockStream(R!SockConnect(sock, conn, "ipv4", 1), conn),
                           conn, rc, Keep)
      BY <2>1, SameSockets
    <2>3. R!relay_connect(sock, conn, "ipv4", Keep, rc)
      BY <2>1, <2>2 DEF R!relay_connect
    <2>4. RelayPoll(rc)
      BY <1>1, <1>2, <1>3, <2>3 DEF RelayPoll, R!mobile_relay_proc
    <2> QED BY <2>4
  <1>6. \A rc \in {0, -1} : rc \in -1 .. 2
    OBVIOUS
  <1> QED BY <1>4, <1>5, <1>6 DEF ConnectPoll

(* A poll that settles nothing, and that of Relay with the same result.    *)
LEMMA UnsettledRelay ==
    ASSUME NEW kind, NEW q, NEW k1, NEW k2, Receiving(kind, q, k1, k2),
           NEW failed, Unsettled(q, failed)
    PROVE  /\ q.rc \in {0, -1}
           /\ sock' = R!Settle(R!SockStream(sock, conn), conn, q.rc, Keep)
           /\ relay_state' = IF q.rc = 0 THEN relay_state ELSE failed
           /\ UNCHANGED <<relay_processing, token, user_number, peer_number>>
  <1>1. q.rc \in {-1, 0, 1, 2, 3, 4}
    BY ReceivingFacts
  <1>2. q.rc \in {0, -1}
    BY <1>1 DEF Unsettled
  <1>3. sock' = R!Settle(R!SockStream(sock, conn), conn, q.rc, Keep)
    BY EndedRelay, SameSockets DEF Unsettled
  <1> QED BY <1>2, <1>3 DEF Unsettled

(* Tokens and numbers are not empty.                                       *)
LEMMA ValueTold ==
    ASSUME NEW kind, NEW q, NEW k1, NEW k2, Receiving(kind, q, k1, k2), q.rc > 0
    PROVE  /\ kind \in {"number", "wait"} => Value(kind, answer) # <<>>
           /\ kind = "handshake" /\ q.rc = 2 => Value(kind, answer) # <<>>
  <1>1. Carries(kind, answer, q.rc, Value(kind, answer))
    BY AnsweredFacts
  <1>2. Len(<<>>) = 0 /\ TokenSize \in Nat \ {0} /\ MaxNumber \in Nat
    BY EmptySeq, BytesAssumption
  <1>3. kind \in {"number", "wait"} => Len(Value(kind, answer)) \in 1 .. MaxNumber
    BY <1>1 DEF Carries
  <1>4. kind = "handshake" /\ q.rc = 2 => Len(Value(kind, answer)) = TokenSize
    BY <1>1 DEF Carries
  <1> QED BY <1>2, <1>3, <1>4

LEMMA HandshakeRelay ==
    ASSUME StreamInv, goal # "none", PollFrame,
           NEW k1 \in Int, NEW k2 \in Int, k1 >= -1, k2 >= -1,
           HandshakePoll(k1, k2)
    PROVE  \E rc \in -1 .. 2 : RelayPoll(rc)
  <1> DEFINE q == relay_handshake_recv(Received(buffer, wire, 0), k1, k2)
             kind == "handshake"
  <1>1. /\ relay_state = "RECV_HANDSHAKE"
        /\ \/ Unsettled(q, "DISCONNECTED")
           \/ /\ q.rc > 0
              /\ token' = token \/ q.rc = 2
              /\ relay_processing' = IF goal = "number" THEN relay_processing
                                     ELSE "GET_NUMBER"
              /\ Ask(sock, "number", <<Version, 2>>, "RECV_GET_NUMBER", "CONNECTED")
              /\ UNCHANGED <<user_number, peer_number>>
    BY DEF HandshakePoll
  <1>2. /\ Receiving(kind, q, k1, k2)
        /\ q.rc > 0 => ToldNext(kind, q.rc) = Value(kind, answer)
    BY HandshakeTold
  <1> HIDE DEF q
  <1>3. relay_processing = "BEGIN"
    BY <1>1, <1>2 DEF Receiving, Waits, WaitsIn
  <1>4. CASE Unsettled(q, "DISCONNECTED")
    <2>1. /\ q.rc \in {0, -1}
          /\ sock' = R!Settle(R!SockStream(sock, conn), conn, q.rc, Keep)
          /\ relay_state' = IF q.rc = 0 THEN relay_state ELSE "DISCONNECTED"
          /\ UNCHANGED <<relay_processing, token, user_number, peer_number>>
      BY <1>2, <1>4, UnsettledRelay
    <2>2. R!relay_handshake(conn, goal, Keep, q.rc)
      BY <1>1, <2>1 DEF R!relay_handshake
    <2>3. RelayPoll(q.rc) /\ q.rc \in -1 .. 2
      BY <1>3, <2>1, <2>2 DEF RelayPoll, R!mobile_relay_proc
    <2> QED BY <2>3
  <1>5. CASE ~Unsettled(q, "DISCONNECTED")
    <2>1. PICK rc \in {0, -1} :
             /\ sock' = R!Settle(SockStream(sock, conn), conn, rc, Keep)
             /\ relay_state' = IF rc = 0 THEN "RECV_GET_NUMBER" ELSE "CONNECTED"
      BY <1>1, <1>5, AskRelay
    <2>2. sock' = R!Settle(R!SockStream(sock, conn), conn, rc, Keep)
      BY <2>1, SameSockets
    <2>3. token' = token \/ token' # <<>>
      <3>1. CASE q.rc = 2
        <4>1. token' = ToldNext(kind, q.rc)
          BY <3>1 DEF ToldNext
        <4> QED BY <1>1, <1>2, <1>5, <3>1, <4>1, ValueTold
      <3> QED BY <1>1, <1>5, <3>1
    <2>4. (token' # <<>>) \in {token # <<>>, TRUE}
      BY <2>3
    <2>5. R!relay_handshake(conn, goal, Keep, rc)
      BY <1>1, <1>5, <2>1, <2>2, <2>4 DEF R!relay_handshake
    <2>6. RelayPoll(rc) /\ rc \in -1 .. 2
      BY <1>3, <2>1, <2>5 DEF RelayPoll, R!mobile_relay_proc
    <2> QED BY <2>6
  <1> QED BY <1>4, <1>5

LEMMA NumberRelay ==
    ASSUME StreamInv, goal # "none", PollFrame,
           NEW k1 \in Int, NEW k2 \in Int, k1 >= -1, k2 >= -1,
           NumberPoll(k1, k2)
    PROVE  \E rc \in -1 .. 2 : RelayPoll(rc)
  <1> DEFINE q == relay_get_number_recv(Received(buffer, wire, 0), k1, k2)
             kind == "number"
  <1>1. /\ relay_state = "RECV_GET_NUMBER"
        /\ \/ Unsettled(q, "CONNECTED")
           \/ /\ q.rc > 0
              /\ \/ /\ goal = "number"
                    /\ relay_state' = "CONNECTED"
                    /\ Ended(SockStream(sock, conn), 1)
                    /\ UNCHANGED <<buffer, relay_processing>> /\ NothingAsked
                 \/ /\ AskCallOrWait
                    /\ relay_processing' = "FINAL"
              /\ UNCHANGED <<token, peer_number>>
    BY DEF NumberPoll
  <1>2. /\ Receiving(kind, q, k1, k2)
        /\ q.rc > 0 => ToldNext(kind, q.rc) = Value(kind, answer)
    BY NumberTold
  <1> HIDE DEF q
  <1>3. goal = "number" \/ relay_processing = "GET_NUMBER"
    BY <1>1, <1>2 DEF Receiving, Waits, WaitsIn
  <1>4. CASE Unsettled(q, "CONNECTED")
    <2>1. /\ q.rc \in {0, -1}
          /\ sock' = R!Settle(R!SockStream(sock, conn), conn, q.rc, Keep)
          /\ relay_state' = IF q.rc = 0 THEN relay_state ELSE "CONNECTED"
          /\ UNCHANGED <<relay_processing, token, user_number, peer_number>>
      BY <1>2, <1>4, UnsettledRelay
    <2>2. R!relay_get_number(conn, goal, Keep, q.rc)
      BY <1>1, <2>1 DEF R!relay_get_number
    <2>3. RelayPoll(q.rc) /\ q.rc \in -1 .. 2
      BY <1>3, <2>1, <2>2 DEF RelayPoll, R!mobile_relay_proc
    <2> QED BY <2>3
  <1>5. CASE ~Unsettled(q, "CONNECTED")
    <2>1. user_number' # <<>>
      <3>1. user_number' = ToldNext(kind, q.rc)
        BY DEF ToldNext
      <3> QED BY <1>1, <1>2, <1>5, <3>1, ValueTold
    <2>2. CASE goal = "number" /\ relay_state' = "CONNECTED"
               /\ Ended(SockStream(sock, conn), 1)
               /\ UNCHANGED relay_processing
      <3>1. sock' = R!Settle(R!SockStream(sock, conn), conn, 1, Keep)
        BY <2>2, EndedRelay, SameSockets
      <3>2. R!relay_get_number(conn, goal, Keep, 1)
        BY <1>1, <1>5, <2>1, <2>2, <3>1 DEF R!relay_get_number
      <3>3. RelayPoll(1) /\ 1 \in -1 .. 2
        BY <1>3, <3>2 DEF RelayPoll, R!mobile_relay_proc
      <3> QED BY <3>3
    <2>3. CASE AskCallOrWait /\ relay_processing' = "FINAL"
      <3>1. PICK rc \in {0, -1} :
               /\ sock' = R!Settle(R!SockStream(sock, conn), conn, rc, Keep)
               /\ relay_state' = IF rc = -1 THEN "CONNECTED"
                                 ELSE IF goal = "call" THEN "RECV_CALL"
                                 ELSE "RECV_WAIT"
        <4>1. CASE /\ goal = "call"
                   /\ Ask(sock, "call", <<Version, 0, Len(calling)>> \o calling,
                          "RECV_CALL", "CONNECTED")
          BY <4>1, AskRelay, SameSockets
        <4>2. CASE /\ relay_state' = "CONNECTED"
                   /\ Ended(SockStream(sock, conn), -1)
          BY <4>2, EndedRelay, SameSockets
        <4>3. CASE /\ goal = "wait"
                   /\ Ask(sock, "wait", <<Version, 1>>, "RECV_WAIT", "CONNECTED")
          BY <4>3, AskRelay, SameSockets
        <4> QED BY <2>3, <4>1, <4>2, <4>3 DEF AskCallOrWait
      <3>2. goal # "number"
        BY <2>3 DEF AskCallOrWait
      <3>3. R!relay_get_number(conn, goal, Keep, rc)
        BY <1>1, <1>5, <2>1, <2>3, <3>1, <3>2 DEF R!relay_get_number
      <3>4. RelayPoll(rc) /\ rc \in -1 .. 2
        BY <1>3, <3>1, <3>3 DEF RelayPoll, R!mobile_relay_proc
      <3> QED BY <3>4
    <2> QED BY <1>1, <1>5, <2>2, <2>3
  <1> QED BY <1>4, <1>5

LEMMA AnswerRelay ==
    ASSUME <<>> \notin CallNumbers, StreamInv, goal # "none", PollFrame,
           NEW k1 \in Int, NEW k2 \in Int, k1 >= -1, k2 >= -1,
           AnswerPoll(k1, k2)
    PROVE  \E rc \in -1 .. 2 : RelayPoll(rc)
  <1> DEFINE q == IF relay_state = "RECV_CALL"
                  THEN relay_call_recv(Received(buffer, wire, 0), k1)
                  ELSE relay_wait_recv(Received(buffer, wire, 0), k1, k2)
             kind == IF goal = "call" THEN "call" ELSE "wait"
  <1>1. /\ relay_state \in {"RECV_CALL", "RECV_WAIT"}
        /\ \/ Unsettled(q, "CONNECTED")
           \/ /\ q.rc > 0
              /\ relay_state' = IF q.rc = 1 THEN "LINKED" ELSE "CONNECTED"
              /\ q.rc # 1 => UNCHANGED peer_number
              /\ q.rc = 1 /\ goal = "call" => peer_number' = calling
              /\ Ended(SockStream(sock, conn), q.rc)
              /\ UNCHANGED <<relay_processing, token, user_number>>
    BY DEF AnswerPoll
  <1>2. /\ Receiving(kind, q, k1, k2)
        /\ q.rc > 0 /\ (kind = "wait" => goal' # "none") =>
               ToldNext(kind, q.rc) = Value(kind, answer)
    BY AnswerTold
  <1>3. q.rc \in {-1, 0, 1, 2, 3, 4}
    <2> HIDE DEF q, kind
    <2> QED BY <1>2, ReceivingFacts
  <1> HIDE DEF q
  <1>4. /\ goal \in {"call", "wait"} /\ relay_processing = "FINAL"
        /\ relay_state = IF goal = "call" THEN "RECV_CALL" ELSE "RECV_WAIT"
    BY <1>1, <1>2 DEF Receiving, Waits, WaitsIn
  <1>5. CASE Unsettled(q, "CONNECTED")
    <2>1. /\ q.rc \in {0, -1}
          /\ sock' = R!Settle(R!SockStream(sock, conn), conn, q.rc, Keep)
          /\ relay_state' = IF q.rc = 0 THEN relay_state ELSE "CONNECTED"
          /\ UNCHANGED <<relay_processing, token, user_number, peer_number>>
      <3> HIDE DEF kind
      <3> QED BY <1>2, <1>5, UnsettledRelay
    <2>2. R!relay_answer(conn, goal, Keep, q.rc)
      BY <1>4, <2>1 DEF R!relay_answer
    <2>3. RelayPoll(q.rc) /\ q.rc \in -1 .. 2
      BY <1>4, <2>1, <2>2 DEF RelayPoll, R!mobile_relay_proc
    <2> QED BY <2>3
  <1>6. CASE ~Unsettled(q, "CONNECTED")
    <2>1. /\ q.rc > 0
          /\ relay_state' = IF q.rc = 1 THEN "LINKED" ELSE "CONNECTED"
          /\ q.rc # 1 => UNCHANGED peer_number
          /\ q.rc = 1 /\ goal = "call" => peer_number' = calling
          /\ Ended(SockStream(sock, conn), q.rc)
          /\ UNCHANGED <<relay_processing, token, user_number>>
      BY <1>1, <1>6
    <2> DEFINE rc == IF q.rc = 1 THEN 1 ELSE 2
    <2>2. rc \in {1, 2} /\ (rc = 1 <=> q.rc = 1)
      OBVIOUS
    <2>3. sock' = R!Settle(R!SockStream(sock, conn), conn, rc, Keep)
      <3>1. sock' = R!Settle(R!SockStream(sock, conn), conn, q.rc, Keep)
        BY <2>1, EndedRelay, SameSockets
      <3>2. q.rc \in Keep <=> rc \in Keep
        <4>1. q.rc \in {1, 2, 3, 4}
          BY <1>3, <2>1
        <4> QED BY <4>1, KeepFacts
      <3> HIDE DEF rc
      <3> QED BY <3>1, <3>2 DEF R!Settle
    <2>4. q.rc = 1 => peer_number' # <<>>
      <3> SUFFICES ASSUME q.rc = 1 PROVE peer_number' # <<>>
        OBVIOUS
      <3>1. CASE goal = "call"
        BY <2>1, <3>1 DEF StreamInv, Typed
      <3>2. CASE goal # "call"
        <4>1. goal' # "none"
          BY <1>4, <2>1 DEF Ended, Keep
        <4>2. kind = "wait" /\ peer_number' = ToldNext(kind, q.rc)
          BY <3>2 DEF ToldNext
        <4>3. ToldNext(kind, q.rc) = Value(kind, answer)
          BY <1>2, <2>1, <4>1
        <4>4. Value(kind, answer) # <<>>
          <5> HIDE DEF kind
          <5> QED BY <1>2, <2>1, <4>2, ValueTold
        <4> QED BY <4>2, <4>3, <4>4
      <3> QED BY <3>1, <3>2
    <2> HIDE DEF rc
    <2>5. R!relay_answer(conn, goal, Keep, rc)
      <3>1. (peer_number' # <<>>) = ((peer_number # <<>>) \/ rc = 1)
        BY <2>1, <2>2, <2>4
      <3>2. relay_state' = CASE rc = 0 -> relay_state
                             [] rc = 1 -> "LINKED"
                             [] OTHER -> "CONNECTED"
        BY <2>1, <2>2
      <3> QED BY <1>4, <2>1, <2>2, <2>3, <3>1, <3>2 DEF R!relay_answer
    <2>6. RelayPoll(rc) /\ rc \in -1 .. 2
      BY <1>4, <2>2, <2>5 DEF RelayPoll, R!mobile_relay_proc
    <2> QED BY <2>6
  <1> QED BY <1>5, <1>6

LEMMA RelayStepHolds ==
    ASSUME <<>> \notin CallNumbers, StreamInv, [Next]_vars
    PROVE  RelayStep \/ UNCHANGED <<sock, R!relayVars>>
  <1>1. ASSUME UNCHANGED <<sock, clientVars>>
        PROVE  UNCHANGED <<sock, R!relayVars>>
    BY <1>1 DEF clientVars, R!relayVars
  <1>2. ASSUME NEW g \in {"call", "wait", "number"}, Begin(g)
        PROVE  RelayStep
    BY <1>2 DEF Begin, RelayStep, R!mobile_relay_init
  <1>3. CASE Poll
    <2>1. goal # "none" /\ PollFrame
      BY <1>3 DEF Poll, PollFrame
    <2>2. \E rc \in -1 .. 2 : RelayPoll(rc)
      <3>1. CASE ConnectPoll
        BY <2>1, <3>1, ConnectRelay
      <3>2. ASSUME NEW k1 \in -1 .. Len(wire), NEW k2 \in -1 .. Len(wire),
                   HandshakePoll(k1, k2) \/ NumberPoll(k1, k2) \/ AnswerPoll(k1, k2)
            PROVE  \E rc \in -1 .. 2 : RelayPoll(rc)
        <4>1. k1 \in Int /\ k2 \in Int /\ k1 >= -1 /\ k2 >= -1
          BY LenProperties DEF StreamInv, Typed, Bytes
        <4> QED BY <2>1, <3>2, <4>1, HandshakeRelay, NumberRelay, AnswerRelay
      <3> QED BY <1>3, <3>1, <3>2 DEF Poll
    <2> QED BY <2>2 DEF RelayPoll, RelayStep
  <1>4. CASE HangUp
    BY <1>4 DEF HangUp, RelayStep
  <1>5. CASE GameSends
    BY <1>1, <1>5 DEF GameSends
  <1>6. CASE command_data
    <2>1. UNCHANGED <<relay_state, relay_processing, buffer, token, user_number>>
      BY <1>6 DEF command_data
    <2>2. SockStream(sock, conn) = sock
      <3>1. Linked /\ sock \in [Conn -> Socket]
        BY <1>6 DEF command_data, StreamInv, Typed, Idle, Connects, Waits, NoData
      <3> QED BY <3>1, SocketStreams DEF Linked
    <2>3. CASE sock' = SockClose(SockStream(sock, conn), conn)
      BY <2>1, <2>2, <2>3 DEF RelayStep
    <2>4. CASE sock' = SockStream(sock, conn) /\ UNCHANGED peer_number
      BY <2>1, <2>2, <2>4 DEF R!relayVars
    <2> QED BY <1>6, <2>3, <2>4 DEF command_data, DataReceives, DataFails
  <1>7. CASE ServerAnswers
    BY <1>1, <1>7 DEF ServerAnswers
  <1>8. CASE PeerSends
    BY <1>1, <1>8 DEF PeerSends
  <1>9. CASE UNCHANGED vars
    BY <1>1, <1>9 DEF vars
  <1> QED BY <1>2, <1>3, <1>4, <1>5, <1>6, <1>7, <1>8, <1>9 DEF Next

(* The client byte by byte is the client of Relay, the view that Adapter   *)
(* has of it: whatever the server and the socket do, each poll is a poll of*)
(* Relay with the same result, and no other step touches its state.  (A    *)
(* number that is called has a digit: the model of the user's display has  *)
(* the empty number for none.)                                             *)
THEOREM RelayImplemented ==
    <<>> \notin CallNumbers => (Spec => ImplementsRelay)
  <1> SUFFICES ASSUME <<>> \notin CallNumbers PROVE Spec => ImplementsRelay
    OBVIOUS
  <1>1. StreamInv /\ [Next]_vars => RelayStep \/ UNCHANGED <<sock, R!relayVars>>
    BY RelayStepHolds
  <1>2. StreamInv /\ [Next]_vars => [RelayStep]_<<sock, R!relayVars>>
    BY <1>1
  <1> QED BY <1>2, StreamSafe, PTL DEF Spec, ImplementsRelay
=============================================================================
