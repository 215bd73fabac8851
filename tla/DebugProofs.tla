----------------------------- MODULE DebugProofs -----------------------------
(***************************************************************************)
(* The line buffer of debug.c: for packets of every length.                *)
(***************************************************************************)
EXTENDS Debug, SumProofs

(* What is written at once: a text of mobile_debug_print is short, one of  *)
(* mobile_debug_write, a part of a packet, is not.                         *)
Piece == [op : {"print"}, n : 0 .. MaxText] \cup [op : {"write", "endl"}, n : Nat]

Text == Seq(Piece)

LineInv ==
    /\ current \in 0 .. BufferSize - 1
    /\ pieces \in Seq(Piece)

-----------------------------------------------------------------------------
(* FlattenSeq.                                                             *)

LEMMA FlattenExists ==
    ASSUME NEW s, NEW n \in Nat
    PROVE  \E g : g = [i \in 1 .. n |-> IF i = 1 THEN s[i] ELSE g[i - 1] \o s[i]]
  <1> DEFINE Is(k, g) == g = [i \in 1 .. k |-> IF i = 1 THEN s[i] ELSE g[i - 1] \o s[i]]
             S == {k \in Nat : \E g : Is(k, g)}
  <1>1. 0 \in S
    <2>1. Is(0, [i \in 1 .. 0 |-> 0])
      OBVIOUS
    <2> QED BY <2>1
  <1>2. ASSUME NEW k \in Nat, k \in S PROVE k + 1 \in S
    <2>1. PICK g : Is(k, g)
      BY <1>2
    <2> DEFINE last == IF k = 0 THEN s[1] ELSE g[k] \o s[k + 1]
               h == [i \in 1 .. k + 1 |-> IF i = k + 1 THEN last ELSE g[i]]
    <2>2. Is(k + 1, h)
      <3>1. ASSUME NEW i \in 1 .. k + 1
            PROVE  h[i] = IF i = 1 THEN s[i] ELSE h[i - 1] \o s[i]
        <4>1. CASE i = k + 1
          <5>1. h[i] = last /\ (k # 0 => h[i - 1] = g[k])
            BY <4>1
          <5>2. i = 1 <=> k = 0
            BY <4>1
          <5> HIDE DEF h
          <5> QED BY <4>1, <5>1, <5>2
        <4>2. CASE i # k + 1
          <5>1. i \in 1 .. k /\ h[i] = g[i] /\ (i # 1 => h[i - 1] = g[i - 1])
            BY <4>2
          <5> HIDE DEF h
          <5> QED BY <2>1, <5>1
        <4> QED BY <4>1, <4>2
      <3> HIDE DEF h
      <3> QED BY <3>1 DEF h
    <2>3. \E f : Is(k + 1, f)
      <3> HIDE DEF Is, h
      <3> QED BY <2>2
    <2> HIDE DEF Is
    <2> QED BY <2>3
  <1> HIDE DEF S
  <1>3. n \in S
    BY <1>1, <1>2, Induction
  <1> QED BY <1>3 DEF S

LEMMA FlattenType ==
    ASSUME NEW T, NEW s \in Seq(Seq(T))
    PROVE  FlattenSeq(s) \in Seq(T)
  <1> DEFINE n == Len(s)
             Is(g) == g = [i \in 1 .. n |-> IF i = 1 THEN s[i] ELSE g[i - 1] \o s[i]]
             f == CHOOSE g : Is(g)
  <1>1. n \in Nat /\ \A i \in 1 .. n : s[i] \in Seq(T)
    OBVIOUS
  <1>2. CASE n = 0
    <2>1. s = <<>>
      BY <1>2, EmptySeq
    <2> QED BY <1>2, <2>1 DEF FlattenSeq
  <1>3. CASE n # 0
    <2>1. Is(f)
      <3>1. \E g : Is(g)
        BY <1>1, <1>3, FlattenExists
      <3> HIDE DEF Is
      <3> QED BY <3>1
    <2>2. \A i \in 1 .. n : f[i] = IF i = 1 THEN s[i] ELSE f[i - 1] \o s[i]
      BY <2>1
    <2>3. FlattenSeq(s) = f[n]
      BY <1>3 DEF FlattenSeq
    <2> DEFINE S == {k \in Nat : k < n => f[k + 1] \in Seq(T)}
    <2> HIDE DEF f, n
    <2>4. 0 \in S
      BY <1>1, <1>3, <2>2
    <2>5. ASSUME NEW k \in Nat, k \in S PROVE k + 1 \in S
      <3> SUFFICES ASSUME k + 1 < n PROVE f[(k + 1) + 1] \in Seq(T)
        OBVIOUS
      <3>1. f[k + 1] \in Seq(T) /\ s[k + 2] \in Seq(T)
        BY <1>1, <2>5
      <3>2. f[k + 2] = f[k + 1] \o s[k + 2]
        <4>1. k + 2 \in 1 .. n /\ k + 2 # 1 /\ (k + 2) - 1 = k + 1
          BY <1>1
        <4> QED BY <2>2, <4>1
      <3>3. (k + 1) + 1 = k + 2
        OBVIOUS
      <3> QED BY <3>1, <3>2, <3>3, ConcatProperties
    <2> HIDE DEF S
    <2>6. n - 1 \in S
      <3>1. n - 1 \in Nat
        BY <1>1, <1>3
      <3> QED BY <2>4, <2>5, <3>1, Induction
    <2>7. (n - 1) + 1 = n /\ n - 1 < n
      BY <1>1
    <2> QED BY <2>3, <2>6, <2>7 DEF S
  <1> QED BY <1>2, <1>3

-----------------------------------------------------------------------------
(* The messages.                                                           *)

LEMMA PieceTypes ==
    /\ \A n \in 0 .. MaxText : P(n) \in Piece
    /\ \A n \in Nat : W(n) \in Piece
    /\ E \in Piece
    /\ \A d \in Digits : Quad(d) \in {7, 15} /\ Port(d) \in {1, 5} /\ d \in 1 .. 3
    /\ MaxText = 68
  BY DEF P, W, E, Quad, Port, Digits, Piece, MaxText

LEMMA HexType ==
    ASSUME NEW len \in Nat
    PROVE  dump_hex(len) \in Text
  <1> DEFINE n == (len + 15) \div 16
             Size(i) == IF 16 * i > len THEN len - 16 * (i - 1) ELSE 16
             rows == [i \in 1 .. n |-> Row(Size(i))]
  <1>1. n \in Nat /\ 16 * n <= len + 15
    OBVIOUS
  <1>2. ASSUME NEW i \in 1 .. n PROVE Row(Size(i)) \in Seq(Piece)
    <2>1. Size(i) \in Nat
      <3> HIDE DEF n
      <3> QED BY <1>1
    <2> DEFINE m == Size(i)
    <2> HIDE DEF m
    <2>2. m \in Nat
      BY <2>1 DEF m
    <2>3. Hex(m) \in Seq(Piece)
      BY <2>2, PieceTypes DEF Hex
    <2>4. <<P(4)>> \in Seq(Piece) /\ <<E>> \in Seq(Piece)
      BY PieceTypes
    <2>5. Row(m) \in Seq(Piece)
      BY <2>3, <2>4, ConcatProperties DEF Row
    <2> QED BY <2>5 DEF m
  <1>3. rows \in Seq(Seq(Piece))
    <2> HIDE DEF n, Size
    <2> QED BY <1>1, <1>2
  <1>4. FlattenSeq(rows) \in Seq(Piece)
    <2> HIDE DEF rows
    <2> QED BY <1>3, FlattenType
  <1>5. dump_hex(len) = <<E>> \o FlattenSeq(rows)
    BY DEF dump_hex
  <1>6. <<E>> \in Seq(Piece)
    BY PieceTypes
  <1> HIDE DEF rows
  <1> QED BY <1>4, <1>5, <1>6, ConcatProperties DEF Text

LEMMA Concat ==
    \A s, t : s \in Text /\ t \in Text => s \o t \in Text
  BY ConcatProperties DEF Text

LEMMA Prints == \A n : n \in 0 .. 68 => <<P(n)>> \in Text
  BY PieceTypes DEF Text

LEMMA Short ==
    /\ <<>> \in Text /\ <<E>> \in Text
    /\ \A n \in Nat : <<W(n), E>> \in Text
  BY PieceTypes DEF Text

LEMMA DumpType ==
    ASSUME NEW len \in Nat, NEW ascii \in BOOLEAN
    PROVE  dump(len, ascii) \in Text
  <1>1. <<E>> \in Text /\ <<E, W(len), E>> \in Text
    BY PieceTypes DEF Text
  <1> QED BY <1>1, HexType DEF dump

LEMMA EndType ==
    ASSUME NEW len \in Nat, NEW used \in Nat
    PROVE  packet_end(len, used) \in Text
  <1>1. CASE len > used
    <2>1. dump_hex(len - used) \in Text
      <3>1. len - used \in Nat
        BY <1>1
      <3> QED BY <3>1, HexType
    <2>2. <<P(19)>> \in Text
      BY Prints
    <2> QED BY <1>1, <2>1, <2>2, Concat DEF packet_end
  <1> QED BY <1>1, Short DEF packet_end

LEMMA FieldsType ==
    ASSUME NEW len \in Nat, NEW used \in Nat, NEW text \in Text
    PROVE  Fields(len, used, text) \in Text
  <1>1. packet_end(len, 0) \in Text /\ packet_end(len, used) \in Text
    BY EndType
  <1> QED BY <1>1, Concat DEF Fields

LEMMA IfAnyType ==
    ASSUME NEW len \in Nat, NEW text, len >= 1 => text \in Text
    PROVE  IfAny(len, text) \in Text
  BY Short DEF IfAny

LEMMA LoginType ==
    ASSUME NEW send \in BOOLEAN, NEW len \in Nat, NEW d \in Digits, NEW id \in Nat
    PROVE  mobile_debug_ppp(send, len, d, id) \in Text
  <1>1. /\ 23 + 3 * Quad(d) \in 0 .. 68 /\ 17 + 2 * Quad(d) \in 0 .. 68
    BY PieceTypes
  <1>2. Fields(len, 12, <<P(23 + 3 * Quad(d))>>) \in Text
    <2>1. <<P(23 + 3 * Quad(d))>> \in Text
      BY <1>1, Prints
    <2> QED BY <2>1, FieldsType
  <1> DEFINE short == <<P(1)>> \o packet_end(len, 1 + id)
             full == <<P(17 + 2 * Quad(d))>> \o packet_end(len, 1 + id + 1 + 8)
             start == <<P(6), W(id)>>
             rest == IF len < 1 + id + 1 + 8 THEN short ELSE full
             text == IF len < 1 + id THEN packet_end(len, 0) ELSE start \o rest
  <1>3. short \in Text
    <2>1. packet_end(len, 1 + id) \in Text
      BY EndType
    <2> QED BY <2>1, Prints, Concat
  <1>4. full \in Text
    <2>1. packet_end(len, 1 + id + 1 + 8) \in Text
      BY EndType
    <2>2. <<P(17 + 2 * Quad(d))>> \in Text
      BY <1>1, Prints
    <2> QED BY <2>1, <2>2, Concat
  <1>5. start \in Text
    BY PieceTypes DEF Text
  <1>6. text \in Text
    <2>1. packet_end(len, 0) \in Text
      BY EndType
    <2>2. rest \in Text
      BY <1>3, <1>4
    <2> HIDE DEF rest, start
    <2> QED BY <1>5, <2>1, <2>2, Concat
  <1>7. mobile_debug_ppp(send, len, d, id) =
          IF send THEN Fields(len, 12, <<P(23 + 3 * Quad(d))>>) ELSE IfAny(len, text)
    BY DEF mobile_debug_ppp
  <1>8. IfAny(len, text) \in Text
    <2> HIDE DEF text
    <2> QED BY <1>6, IfAnyType
  <1> QED BY <1>2, <1>7, <1>8

(* A message of a packet begins with the number of the command and its     *)
(* name.                                                                   *)
Message(n, text) == <<P(4), P(3)>> \o (<<P(n)>> \o text)

LEMMA Messages == \A n \in 0 .. 68, text \in Text : Message(n, text) \in Text
  <1> SUFFICES ASSUME NEW n \in 0 .. 68, NEW text \in Text
               PROVE  Message(n, text) \in Text
    OBVIOUS
  <1>1. <<P(4), P(3)>> \in Text
    BY PieceTypes DEF Text
  <1>2. <<P(n)>> \o text \in Text
    BY Prints, Concat
  <1> QED BY <1>1, <1>2, Concat DEF Message

(* Every message of every packet, by command.                              *)
LEMMA CommandType ==
    ASSUME NEW cmd \in Command, NEW send \in BOOLEAN, NEW len \in Nat,
           NEW d \in Digits, NEW id \in Nat, NEW ascii \in BOOLEAN
    PROVE  mobile_debug_command(cmd, send, len, d, id, ascii) \in Text
  <1> DEFINE m == mobile_debug_command(cmd, send, len, d, id, ascii)
  <1>3. \A n \in 0 .. 68 : \A t \in Text : <<P(n)>> \o t \in Text
    BY Prints, Concat
  <1>4. \A used \in Nat : packet_end(len, used) \in Text
    BY EndType
  <1>5. /\ 8 + d \in 0 .. 68 /\ 10 + d \in 0 .. 68
        /\ 2 + Quad(d) \in 0 .. 68 /\ 3 + Quad(d) + Port(d) \in 0 .. 68
    BY PieceTypes
  <1>6. IfAny(len, <<P(8 + d)>> \o packet_end(len, 1)) \in Text
    <2>1. <<P(8 + d)>> \o packet_end(len, 1) \in Text
      BY <1>3, <1>4, <1>5
    <2> QED BY <2>1, IfAnyType
  <1>7. IfAny(len, <<P(13)>> \o dump_hex(len - 1)) \in Text
    <2>1. len >= 1 => <<P(13)>> \o dump_hex(len - 1) \in Text
      <3> SUFFICES ASSUME len >= 1 PROVE <<P(13)>> \o dump_hex(len - 1) \in Text
        OBVIOUS
      <3>1. len - 1 \in Nat
        OBVIOUS
      <3> QED BY <1>3, <3>1, HexType
    <2> QED BY <2>1, IfAnyType
  <1> SUFFICES m \in Text
    OBVIOUS
  <1> HIDE DEF m
  <1>8. CASE cmd = "START"
    <2>1. m = <<P(4), P(3)>> \o <<P(15), W(len), E>>
      BY <1>8 DEF m, mobile_debug_command
    <2>2. <<P(4), P(3)>> \in Text /\ <<P(15), W(len), E>> \in Text
      BY PieceTypes DEF Text
    <2> QED BY <2>1, <2>2, Concat
  <1>9. CASE cmd = "END"
    <2> DEFINE tail == IF send THEN <<E>> ELSE <<>>
               text == <<P(11)>> \o packet_end(len, 0) \o tail
    <2>1. m = <<P(4), P(3)>> \o text
      BY <1>9 DEF m, Message, mobile_debug_command
    <2>2. tail \in Text /\ <<P(11)>> \o packet_end(len, 0) \in Text
      <3>1. tail \in Text
        BY Short
      <3>2. <<P(11)>> \o packet_end(len, 0) \in Text
        BY <1>3, <1>4
      <3> QED BY <3>1, <3>2
    <2>3. text \in Text
      <3> HIDE DEF tail
      <3> QED BY <2>2, Concat
    <2>4. <<P(4), P(3)>> \in Text
      BY PieceTypes DEF Text
    <2> HIDE DEF text
    <2> QED BY <2>1, <2>3, <2>4, Concat
  <1>10. CASE cmd = "TEL"
    <2> DEFINE text == IF send \/ len < 2 THEN packet_end(len, 0)
                       ELSE <<P(10 + d), W(len - 1), E>>
    <2>1. m = Message(4, text)
      BY <1>10 DEF m, Message, mobile_debug_command
    <2>2. text \in Text
      <3>1. len >= 2 => <<P(10 + d), W(len - 1), E>> \in Text
        BY <1>5, PieceTypes DEF Text
      <3> QED BY <1>4, <3>1
    <2> HIDE DEF text
    <2> QED BY Messages, <2>1, <2>2
  <1>11. CASE cmd = "SIMPLE"
    <2>1. m = Message(14, packet_end(len, 0))
      BY <1>11 DEF m, Message, mobile_debug_command
    <2> QED BY Messages, <1>4, <2>1
  <1>12. CASE cmd = "DATA"
    <2> DEFINE text == IfAny(len, <<P(8 + d)>> \o dump(len - 1, ascii))
    <2>1. m = Message(13, text)
      BY <1>12 DEF m, Message, mobile_debug_command
    <2>2. len >= 1 => <<P(8 + d)>> \o dump(len - 1, ascii) \in Text
      <3> SUFFICES ASSUME len >= 1
                   PROVE  <<P(8 + d)>> \o dump(len - 1, ascii) \in Text
        OBVIOUS
      <3>1. len - 1 \in Nat
        OBVIOUS
      <3> QED BY <1>3, <1>5, <3>1, DumpType
    <2>3. text \in Text
      BY <2>2, IfAnyType
    <2> HIDE DEF text
    <2> QED BY Messages, <2>1, <2>3
  <1>13. CASE cmd = "CHECK_STATUS"
    <2> DEFINE text == IF send THEN Fields(len, 3, <<P(10)>>) ELSE packet_end(len, 0)
    <2>1. m = Message(6, text)
      BY <1>13 DEF m, Message, mobile_debug_command
    <2>2. text \in Text
      BY <1>4, Prints, FieldsType
    <2> HIDE DEF text
    <2> QED BY Messages, <2>1, <2>2
  <1>14. CASE cmd = "CHANGE_CLOCK"
    <2> DEFINE text == IF send THEN packet_end(len, 0)
                       ELSE IfAny(len, <<P(8)>> \o packet_end(len, 1))
    <2>1. m = Message(19, text)
      BY <1>14 DEF m, Message, mobile_debug_command
    <2>2. text \in Text
      BY <1>3, <1>4, IfAnyType
    <2> HIDE DEF text
    <2> QED BY Messages, <2>1, <2>2
  <1>15. CASE cmd = "EEPROM_READ"
    <2> DEFINE text == IF send THEN IfAny(len, <<P(13)>> \o dump_hex(len - 1))
                       ELSE Fields(len, 2, <<P(23)>>)
    <2>1. m = Message(11, text)
      BY <1>15 DEF m, Message, mobile_debug_command
    <2>2. text \in Text
      BY <1>7, Prints, FieldsType
    <2> HIDE DEF text
    <2> QED BY Messages, <2>1, <2>2
  <1>16. CASE cmd = "EEPROM_WRITE"
    <2> DEFINE text == IF ~send THEN IfAny(len, <<P(13)>> \o dump_hex(len - 1))
                       ELSE IF len < 2 THEN <<>> ELSE <<P(23)>> \o packet_end(len, 2)
    <2>1. m = Message(12, text)
      BY <1>16 DEF m, Message, mobile_debug_command
    <2>2. text \in Text
      <3>1. <<P(23)>> \o packet_end(len, 2) \in Text
        BY <1>3, <1>4
      <3>2. <<>> \in Text
        BY Short
      <3> QED BY <1>7, <3>1, <3>2
    <2> HIDE DEF text
    <2> QED BY Messages, <2>1, <2>2
  <1>17. CASE cmd = "PPP_CONNECT"
    <2>1. m = Message(11, mobile_debug_ppp(send, len, d, id))
      BY <1>17 DEF m, Message, mobile_debug_command
    <2> QED BY Messages, <2>1, LoginType
  <1>18. CASE cmd = "TCP_CONNECT"
    <2> DEFINE text == IF ~send THEN Fields(len, 6, <<P(3 + Quad(d) + Port(d))>>)
                       ELSE IfAny(len, <<P(8 + d)>> \o packet_end(len, 1))
    <2>1. m = Message(11, text)
      BY <1>18 DEF m, Message, mobile_debug_command
    <2>2. text \in Text
      BY <1>5, <1>6, Prints, FieldsType
    <2> HIDE DEF text
    <2> QED BY Messages, <2>1, <2>2
  <1>19. CASE cmd \in {"DATA_END", "TCP_DISCONNECT"}
    <2> DEFINE text == IfAny(len, <<P(8 + d)>> \o packet_end(len, 1))
    <2>1. m = Message(17, text)
      BY <1>19 DEF m, Message, mobile_debug_command
    <2> HIDE DEF text
    <2> QED BY Messages, <1>6, <2>1 DEF text
  <1>20. CASE cmd = "DNS_REQUEST"
    <2> DEFINE text == IF send THEN Fields(len, 4, <<P(2 + Quad(d))>>)
                       ELSE <<P(2), W(len), E>>
    <2>1. m = Message(11, text)
      BY <1>20 DEF m, Message, mobile_debug_command
    <2>2. text \in Text
      <3>1. <<P(2), W(len), E>> \in Text
        BY PieceTypes DEF Text
      <3> QED BY <1>5, <3>1, Prints, FieldsType
    <2> HIDE DEF text
    <2> QED BY Messages, <2>1, <2>2
  <1>21. CASE cmd = "ERROR"
    <2>1. m = Message(5, Fields(len, 2, <<P(4)>>))
      BY <1>21 DEF m, Message, mobile_debug_command
    <2>2. Fields(len, 2, <<P(4)>>) \in Text
      BY Prints, FieldsType
    <2> QED BY Messages, <2>1, <2>2
  <1>22. CASE cmd = "UNKNOWN"
    <2>1. m = Message(7, dump_hex(len))
      BY <1>22 DEF m, Message, mobile_debug_command
    <2> QED BY Messages, <2>1, HexType
  <1> QED BY <1>8, <1>9, <1>10, <1>11, <1>12, <1>13, <1>14, <1>15, <1>16, <1>17,
             <1>18, <1>19, <1>20, <1>21, <1>22 DEF Command

LEMMA MessageType ==
    ASSUME NEW n \in {10, 35}, NEW type \in {"none", "ipv4", "ipv6"}, NEW d \in Digits
    PROVE  <<P(8), P(n)>> \o mobile_debug_print_addr(type, d) \o <<E>> \in Text
  <1>1. Quad(d) \in 0 .. 68 /\ 1 + Port(d) \in 0 .. 68
    BY PieceTypes
  <1>2. mobile_debug_print_addr(type, d) \in Text
    <2>1. P(Quad(d)) \in Piece /\ P(14) \in Piece /\ P(1 + Port(d)) \in Piece
      BY <1>1, PieceTypes
    <2>2. <<P(Quad(d)), P(1 + Port(d))>> \in Text /\ <<P(14), P(1 + Port(d))>> \in Text /\ <<>> \in Text
      BY <2>1 DEF Text
    <2> QED BY <2>2 DEF mobile_debug_print_addr
  <1>3. <<P(8), P(n)>> \in Text
    BY PieceTypes DEF Text
  <1> QED BY <1>2, <1>3, Short, Concat

-----------------------------------------------------------------------------
(* The buffer.                                                             *)

(* A text goes where it fits, and is cut off where it does not.            *)
LEMMA Printed ==
    ASSUME NEW c \in 0 .. BufferSize - 1, NEW n \in 0 .. MaxText
    PROVE  /\ mobile_debug_print(c, n) \in 0 .. BufferSize - 1
           /\ c + n < 256
  <1>1. BufferSize \in Nat \ {0} /\ BufferSize + 68 <= 256 /\ n <= 68
    BY DebugAssumption, PieceTypes
  <1>2. c + n < 256 /\ (c + n) % 256 = c + n
    BY <1>1
  <1> QED BY <1>1, <1>2 DEF mobile_debug_print

LEMMA Written ==
    ASSUME NEW c \in 0 .. BufferSize - 1, NEW n \in Nat
    PROVE  mobile_debug_write(c, n) \in 0 .. BufferSize - 1
  BY DebugAssumption DEF mobile_debug_write

LEMMA LineStep ==
    ASSUME LineInv, [Next]_vars
    PROVE  LineInv'
  <1>1. current \in 0 .. BufferSize - 1 /\ pieces \in Seq(Piece)
    BY DEF LineInv
  <1>2. CASE LogCommand
    <2>1. PICK cmd \in Command, send \in BOOLEAN, d \in Digits, id \in {0, 2, 32},
               ascii \in BOOLEAN, len \in Lengths :
             pieces' = mobile_debug_command(cmd, send, len, d, id, ascii)
      BY <1>2 DEF LogCommand
    <2>2. len \in Nat /\ id \in Nat
      BY DebugAssumption
    <2>3. pieces' \in Seq(Piece)
      BY <2>1, <2>2, CommandType DEF Text
    <2> QED BY <1>1, <1>2, <2>3 DEF LogCommand, LineInv, Text
  <1>3. CASE LogMessage
    BY <1>1, <1>3, MessageType DEF LogMessage, LineInv, Text
  <1>4. CASE Write
    <2> DEFINE p == Head(pieces)
    <2>1. p \in Piece /\ pieces' \in Seq(Piece)
      BY <1>1, <1>4, HeadTailProperties DEF Write
    <2>2. CASE p.op = "print"
      <3>1. p.n \in 0 .. MaxText
        BY <2>1, <2>2 DEF Piece
      <3>2. current' = mobile_debug_print(current, p.n)
        BY <1>4, <2>2 DEF Write
      <3> HIDE DEF p
      <3> QED BY <1>1, <2>1, <3>1, <3>2, Printed DEF LineInv
    <2>3. CASE p.op = "write"
      <3>1. p.n \in Nat
        BY <2>1, <2>3 DEF Piece
      <3>2. current' = mobile_debug_write(current, p.n)
        BY <1>4, <2>3 DEF Write
      <3> HIDE DEF p
      <3> QED BY <1>1, <2>1, <3>1, <3>2, Written DEF LineInv
    <2>4. CASE p.op = "endl"
      <3>1. current' = 0
        BY <1>4, <2>4 DEF Write
      <3> QED BY <2>1, <3>1, DebugAssumption DEF LineInv
    <2> HIDE DEF p
    <2> QED BY <2>1, <2>2, <2>3, <2>4 DEF Piece
  <1>5. CASE UNCHANGED vars
    BY <1>1, <1>5 DEF vars, LineInv
  <1> QED BY <1>2, <1>3, <1>4, <1>5 DEF Next

(* Debug, LineFits: however long the packets are that are logged, and      *)
(* however many messages meet on one line because a packet lacked the byte *)
(* it begins with, the text and its terminator stay inside the buffer and  *)
(* its 8-bit index never wraps around.                                     *)
THEOREM LinesFit == Spec => []LineFits
  <1>1. Init => LineInv
    BY DebugAssumption DEF Init, LineInv
  <1>2. LineInv => LineFits
    <2> SUFFICES ASSUME LineInv PROVE LineFits
      OBVIOUS
    <2>1. current \in 0 .. BufferSize - 1
      BY DEF LineInv
    <2>2. ASSUME pieces # <<>>, Head(pieces).op = "print"
          PROVE  current + Head(pieces).n < 256
      <3>1. Head(pieces) \in Piece
        BY <2>2, HeadTailProperties DEF LineInv
      <3>2. Head(pieces).n \in 0 .. MaxText
        BY <2>2, <3>1 DEF Piece
      <3> QED BY <2>1, <3>2, Printed
    <2> QED BY <2>1, <2>2, DebugAssumption DEF LineFits
  <1> QED BY <1>1, <1>2, LineStep, PTL DEF Spec
=============================================================================
