---------------------------- MODULE SerialProofs ----------------------------
(***************************************************************************)
(* Proofs about Serial, for every console (any bytes in any order), every  *)
(* main loop that answers with a packet, and both kinds of host (Threads); *)
(* and one about SerialLink, with the console that starts over.            *)
(***************************************************************************)
EXTENDS SerialLink, SumProofs

(* The invariant that makes IndexInBounds inductive, in parts.  A call that *)
(* has begun with a word keeps its mode (WordOK), and the header of a      *)
(* response gives the size of data that are there (Bounds).                *)
FlagsOK == /\ mode_32bit \in BOOLEAN
           /\ wanted_mode \in BOOLEAN
           /\ session_started \in BOOLEAN

WordOK ==
    /\ word \in Seq(Byte) /\ Len(word) \in 0 .. 4
    /\ out \in Seq(Byte)
    /\ word # <<>> => mode_32bit

FieldsOK ==
    /\ state \in State
    /\ current \in Byte /\ data_size \in Byte
    /\ checksum \in HalfWord /\ error \in Byte
    /\ header \in [1 .. 4 -> Byte] /\ footer \in [1 .. 2 -> Byte]
    /\ buffer \in Seq(Byte) /\ Len(buffer) <= MaxDataSize
    /\ device \in Devices

Bounds ==
    /\ state \in {"HEADER", "RESPONSE_HEADER"} => current < 4
    /\ state \in {"CHECKSUM", "RESPONSE_CHECKSUM"} => current < 2
    /\ state = "DATA" => current < data_size /\ current <= Len(buffer)
    /\ state \in {"RESPONSE_INIT"} \cup Responding => header[4] <= Len(buffer)
    /\ state = "RESPONSE_HEADER" => data_size = header[4]
    /\ state = "RESPONSE_DATA" => current < data_size /\ data_size <= Len(buffer)
    /\ state \in {"DATA_PAD", "RESPONSE_DATA_PAD", "ACKNOWLEDGE_PAD"} =>
          current \in 1 .. 3

SerialInv == FlagsOK /\ WordOK /\ FieldsOK /\ Bounds

LEMMA DeviceBytes == \A d \in Devices : d \in Byte /\ d + 128 \in Byte
  BY SerialAssumption DEF Byte

LEMMA InvBounds == SerialInv => IndexInBounds
  <1> SUFFICES ASSUME SerialInv PROVE IndexInBounds
    OBVIOUS
  <1>1. SerialTypeOK
    BY DeviceBytes DEF SerialInv, FlagsOK, WordOK, FieldsOK, SerialTypeOK
  <1>2. Len(buffer) <= MaxDataSize
    BY DEF SerialInv, FieldsOK
  <1> QED BY <1>1, <1>2 DEF SerialInv, Bounds, IndexInBounds

-----------------------------------------------------------------------------
(* Bytes.                                                                  *)

LEMMA ByteIs == \A n : n \in Byte <=> n \in Nat /\ n <= 255
  <1> DEFINE top == 255
  <1>1. Byte = 0 .. top /\ top \in Nat
    BY DEF Byte
  <1> HIDE DEF top
  <1>2. \A n : n \in Byte <=> n \in Nat /\ n <= top
    BY <1>1, WideInterval
  <1> QED BY <1>2 DEF top

LEMMA HalfWordIs == \A n : n \in HalfWord <=> n \in Nat /\ n <= 65535
  <1> DEFINE top == 65535
  <1>1. HalfWord = 0 .. top /\ top \in Nat
    BY DEF HalfWord
  <1> HIDE DEF top
  <1>2. \A n : n \in HalfWord <=> n \in Nat /\ n <= top
    BY <1>1, WideInterval
  <1> QED BY <1>2 DEF top

LEMMA HalfWordInt == \A n \in HalfWord, c \in Byte : n \in Nat /\ n + c \in Nat
  BY ByteIs, HalfWordIs

LEMMA ByteNumerals ==
    /\ IdleByte \in Byte /\ Sync1 \in Byte /\ Sync2 \in Byte
    /\ ErrUnknown \in Byte /\ ErrChecksum \in Byte
    /\ 0 \in Byte /\ 1 \in Byte /\ 255 \in Byte /\ 0 \in HalfWord
    /\ \A n \in Byte : n \in Nat /\ n < 256
  BY DEF Byte, HalfWord, IdleByte, Sync1, Sync2, ErrUnknown, ErrChecksum

LEMMA ModByte == \A n \in Int : n % 256 \in Byte
  BY DEF Byte

LEMMA ModWord == \A n \in Int : n % 65536 \in HalfWord
  <1>1. ASSUME NEW n \in Int, NEW m \in Nat, m > 0
        PROVE  n % m \in Nat /\ n % m < m
    BY <1>1
  <1>2. ASSUME NEW n \in Int PROVE n % 65536 \in HalfWord
    <2> DEFINE r == n % 65536
    <2>1. r \in Nat /\ r < 65536
      BY <1>1
    <2> HIDE DEF r
    <2>2. r \in HalfWord
      BY <2>1, HalfWordIs
    <2> QED BY <2>2 DEF r
  <1> QED BY <1>2

(* The first bytes of a buffer, and one more.                              *)
LEMMA BufferAppend ==
    ASSUME NEW b \in Seq(Byte), NEW n \in Byte, n <= Len(b), NEW c \in Byte
    PROVE  /\ Append(SubSeq(b, 1, n), c) \in Seq(Byte)
           /\ Len(Append(SubSeq(b, 1, n), c)) = n + 1
  <1>1. SubSeq(b, 1, n) \in Seq(Byte) /\ Len(SubSeq(b, 1, n)) = n
    <2>1. n \in Nat /\ Len(b) \in Nat
      BY LenProperties DEF Byte
    <2>2. \A i \in 1 .. n : b[i] \in Byte
      BY <2>1, ElementOfSeq
    <2> QED BY <2>1, <2>2, SubSeqProperties
  <1> QED BY <1>1, AppendProperties

(* A reply goes to the word of the call, or out.                           *)
LEMMA ReplyKeeps ==
    ASSUME FlagsOK, WordOK, NEW r \in Byte, Reply(r), Len(word) < 4,
           mode_32bit' = mode_32bit
    PROVE  WordOK'
  <1>1. CASE mode_32bit
    <2>1. word' = Append(word, r) /\ out' = out /\ mode_32bit'
      BY <1>1 DEF Reply
    <2>2. Append(word, r) \in Seq(Byte) /\ Len(Append(word, r)) = Len(word) + 1
      BY AppendProperties DEF WordOK
    <2> QED BY <2>1, <2>2 DEF WordOK
  <1>2. CASE ~mode_32bit
    <2>1. word' = word /\ out' = <<r>> /\ ~mode_32bit'
      BY <1>2 DEF Reply
    <2>2. <<r>> \in Seq(Byte)
      OBVIOUS
    <2> QED BY <1>2, <2>1, <2>2 DEF WordOK
  <1> QED BY <1>1, <1>2 DEF FlagsOK

LEMMA FlagsKept ==
    FlagsOK /\ UNCHANGED <<mode_32bit, commandVars>> => FlagsOK'
  BY DEF FlagsOK, commandVars

-----------------------------------------------------------------------------
(* mobile_serial_transfer: in every state, a byte replies with a byte and  *)
(* leaves the fields and indexes in bounds.                                *)

(* What a handler shows about its state.                                   *)
Handled == (\E r \in Byte : Reply(r)) /\ FieldsOK' /\ Bounds'

LEMMA WaitingKeeps ==
    ASSUME FieldsOK, Bounds, NEW c \in Byte, Waiting(c)
    PROVE  Handled
  <1>1. state' \in {"WAITING", "HEADER"} /\ current' \in {0, 1}
    BY DEF Waiting, Goto
  <1>2. data_size' \in Byte /\ checksum' \in HalfWord /\ error' \in Byte
    <2>1. data_size \in Byte /\ checksum \in HalfWord /\ error \in Byte
      BY DEF FieldsOK
    <2> QED BY <2>1, ByteNumerals DEF Waiting, parseVars
  <1>3. FieldsOK'
    BY <1>1, <1>2 DEF Waiting, packetVars, FieldsOK, Byte, State, Receiving
  <1>4. Bounds'
    BY <1>1 DEF Bounds, Responding
  <1>5. Reply(IdleByte)
    BY DEF Waiting
  <1> QED BY <1>3, <1>4, <1>5, ByteNumerals DEF Handled

LEMMA HeaderKeeps ==
    ASSUME FieldsOK, Bounds, NEW c \in Byte, Header(c)
    PROVE  Handled
  <1>1. header' \in [1 .. 4 -> Byte] /\ checksum' \in HalfWord
    <2>1. header \in [1 .. 4 -> Byte]
      BY DEF FieldsOK
    <2>2. header' = [header EXCEPT ![current + 1] = c]
      BY DEF Header
    <2>3. checksum' = (checksum + c) % 65536 /\ checksum + c \in Int
      <3>1. checksum \in HalfWord
        BY DEF FieldsOK
      <3>2. checksum + c \in Int
        BY <3>1, HalfWordInt
      <3> QED BY <3>2 DEF Header
    <2>4. header' \in [1 .. 4 -> Byte]
      BY <2>1, <2>2
    <2> QED BY <2>3, <2>4, ModWord
  <1>2. Reply(IdleByte) /\ current < 4 /\ UNCHANGED <<footer, buffer>>
    BY DEF Header, Bounds
  <1>3. CASE current < 3
    <2>1. state' = "HEADER" /\ current' = current + 1
          /\ UNCHANGED <<data_size, error, device>>
      BY <1>3 DEF Header, Goto
    <2>2. FieldsOK'
      <3>1. current \in Nat
        BY ByteIs DEF FieldsOK
      <3>2. current' \in Byte
        BY <1>3, <2>1, <3>1, ByteIs
      <3>3. state' \in State
        BY <2>1 DEF State, Receiving
      <3> QED BY <1>1, <1>2, <2>1, <3>2, <3>3 DEF FieldsOK
    <2>3. Bounds'
      BY <1>3, <2>1 DEF Bounds, Responding, FieldsOK, Byte
    <2> QED BY <1>2, <2>2, <2>3, ByteNumerals DEF Handled
  <1>4. CASE ~(current < 3)
    <2>1. /\ state' = IF c # 0 THEN "DATA" ELSE "CHECKSUM"
          /\ current' = 0 /\ data_size' = c
          /\ error' \in Byte /\ device' \in Devices
      <3>1. error \in Byte /\ device \in Devices
        BY DEF FieldsOK
      <3> QED BY <1>4, <3>1, ByteNumerals DEF Header, Goto
    <2>2. FieldsOK'
      <3>1. current' \in Byte
        BY <2>1, ByteNumerals
      <3>2. state' \in State
        BY <2>1 DEF State, Receiving
      <3> QED BY <1>1, <1>2, <2>1, <3>1, <3>2 DEF FieldsOK
    <2>3. Bounds'
      BY <1>2, <2>1, LenProperties DEF Bounds, Responding, FieldsOK, Byte
    <2> QED BY <1>2, <2>2, <2>3, ByteNumerals DEF Handled
  <1> QED BY <1>3, <1>4

(* The three ways on from a byte of data.                                  *)
LEMMA AfterDataCases ==
    ASSUME NEW padding, NEW done, current \in Byte, data_size \in Byte,
           current < data_size, AfterData(padding, done)
    PROVE  \/ state' = state /\ current' = current + 1 /\ current + 1 < data_size
           \/ state' = padding /\ current' \in 1 .. 3
           \/ state' = done /\ current' = 0
  BY DEF AfterData, Goto, Byte

LEMMA DataKeeps ==
    ASSUME FieldsOK, Bounds, NEW c \in Byte, Data(c)
    PROVE  Handled
  <1>1. /\ state = "DATA" /\ current \in Byte /\ data_size \in Byte
        /\ current < data_size /\ current <= Len(buffer)
        /\ buffer \in Seq(Byte)
    BY DEF Data, FieldsOK, Bounds
  <1>2. buffer' \in Seq(Byte) /\ Len(buffer') = current + 1
    BY <1>1, BufferAppend DEF Data
  <1>3. checksum' \in HalfWord
    <2>1. checksum \in HalfWord
      BY DEF FieldsOK
    <2>2. checksum + c \in Int
      BY <2>1, HalfWordInt
    <2> QED BY <2>2, ModWord DEF Data
  <1>4. Len(buffer') <= MaxDataSize
    BY <1>1, <1>2 DEF MaxDataSize, Byte
  <1>5. Reply(IdleByte) /\ AfterData("DATA_PAD", "CHECKSUM")
        /\ UNCHANGED <<data_size, error, header, footer, device>>
    BY DEF Data
  <1>6. \/ state' = "DATA" /\ current' = current + 1 /\ current + 1 < data_size
        \/ state' = "DATA_PAD" /\ current' \in 1 .. 3
        \/ state' = "CHECKSUM" /\ current' = 0
    BY <1>1, <1>5, AfterDataCases
  <1>7. current' \in Byte /\ state' \in State
    <2>1. current' \in Byte
      <3>1. current + 1 < data_size => current + 1 \in Byte
        BY <1>1 DEF Byte
      <3>2. \A i \in 1 .. 3 : i \in Byte
        BY DEF Byte
      <3> QED BY <1>6, <3>1, <3>2, ByteNumerals
    <2>2. state' \in State
      BY <1>6 DEF State, Receiving
    <2> QED BY <2>1, <2>2
  <1>8. FieldsOK'
    BY <1>2, <1>3, <1>4, <1>5, <1>7 DEF FieldsOK
  <1>9. Bounds'
    BY <1>1, <1>2, <1>5, <1>6 DEF Bounds, Responding, Byte
  <1> QED BY <1>5, <1>8, <1>9, ByteNumerals DEF Handled

(* Handlers that change nothing but the state, the counter and the error.  *)
LEMMA OthersKept ==
    ASSUME FieldsOK, state' \in State, current' \in Byte, error' \in Byte,
           UNCHANGED <<data_size, checksum, packetVars, device>>
    PROVE  FieldsOK'
  BY DEF FieldsOK, packetVars

LEMMA PadsKeep ==
    ASSUME FieldsOK, Bounds, DataPad \/ ResponseDataPad \/ AcknowledgePad
    PROVE  Handled
  <1>1. /\ current \in 1 .. 3 /\ error \in Byte
        /\ error' = error /\ UNCHANGED <<data_size, checksum, packetVars, device>>
        /\ \E r \in Byte : Reply(r)
    BY ByteNumerals DEF DataPad, ResponseDataPad, AcknowledgePad, Bounds, FieldsOK, parseVars
  <1>2. CASE DataPad
    <2>1. /\ state' = IF current = 1 THEN "CHECKSUM" ELSE "DATA_PAD"
          /\ current' = current - 1
      BY <1>2 DEF DataPad, Goto
    <2>2. state' \in State /\ current' \in Byte
      BY <1>1, <2>1 DEF State, Receiving, Byte
    <2>3. Bounds'
      BY <1>1, <2>1 DEF Bounds, Responding
    <2> QED BY <1>1, <2>2, <2>3, OthersKept DEF Handled
  <1>3. CASE ResponseDataPad
    <2>1. /\ state' = IF current = 1 THEN "RESPONSE_CHECKSUM" ELSE "RESPONSE_DATA_PAD"
          /\ current' = current - 1 /\ state = "RESPONSE_DATA_PAD"
      BY <1>3 DEF ResponseDataPad, Goto
    <2>2. state' \in State /\ current' \in Byte
      BY <1>1, <2>1 DEF State, Responding, Byte
    <2>3. Bounds'
      BY <1>1, <2>1 DEF Bounds, Responding, packetVars
    <2> QED BY <1>1, <2>2, <2>3, OthersKept DEF Handled
  <1>4. CASE AcknowledgePad
    <2>1. \/ state' = "IDLE_CHECK" /\ current' = 1
          \/ state' = "ACKNOWLEDGE_PAD" /\ current' = current - 1 /\ current # 1
      BY <1>4 DEF AcknowledgePad, Goto
    <2>2. state' \in State /\ current' \in Byte
      BY <1>1, <2>1 DEF State, Receiving, Byte
    <2>3. Bounds'
      BY <1>1, <2>1 DEF Bounds, Responding
    <2> QED BY <1>1, <2>2, <2>3, OthersKept DEF Handled
  <1> QED BY <1>2, <1>3, <1>4

LEMMA ErrorOrByte == error \in Byte => \A cmd \in Byte : ErrorOr(cmd) \in Byte
  BY ModByte DEF ErrorOr, Byte

LEMMA ChecksumKeeps ==
    ASSUME FieldsOK, Bounds, NEW c \in Byte, Checksum(c)
    PROVE  Handled
  <1>1. /\ state = "CHECKSUM" /\ current \in Byte /\ current < 2
        /\ error \in Byte /\ footer \in [1 .. 2 -> Byte]
        /\ UNCHANGED <<data_size, checksum, header, buffer, device>>
    BY DEF Checksum, FieldsOK, Bounds
  <1>2. footer' \in [1 .. 2 -> Byte]
    BY <1>1 DEF Checksum
  <1>3. error' \in Byte
    BY <1>1, ByteNumerals DEF Checksum
  <1>4. \/ state' = "CHECKSUM" /\ current' = 1
        \/ state' = "ACKNOWLEDGE" /\ current' = 0
    BY <1>1, ByteNumerals DEF Checksum, Goto
  <1>5. \E r \in Byte : Reply(r)
    <2>1. IF current < 1 THEN Reply(IdleByte) ELSE Reply(device + 128)
      BY DEF Checksum
    <2>2. device + 128 \in Byte
      BY DeviceBytes DEF FieldsOK
    <2> QED BY <2>1, <2>2, ByteNumerals
  <1>6. state' \in State /\ current' \in Byte
    BY <1>4, ByteNumerals DEF State, Receiving
  <1>7. FieldsOK'
    BY <1>1, <1>2, <1>3, <1>6 DEF FieldsOK
  <1>8. Bounds'
    BY <1>4 DEF Bounds, Responding
  <1> QED BY <1>5, <1>7, <1>8 DEF Handled

LEMMA AcknowledgeKeeps ==
    ASSUME FieldsOK, Bounds, NEW c \in Byte, Acknowledge(c)
    PROVE  Handled
  <1>1. /\ error \in Byte /\ current \in Byte /\ header[1] \in Byte
        /\ error' = error /\ UNCHANGED <<data_size, checksum, packetVars, device>>
    BY DEF Acknowledge, FieldsOK, parseVars
  <1>2. \E r \in Byte : Reply(r)
    BY <1>1, ErrorOrByte, ByteNumerals DEF Acknowledge
  <1>3. \/ state' = "ACKNOWLEDGE_PAD" /\ current' = 2
        \/ state' = "WAITING" /\ current' = current
        \/ state' = "IDLE_CHECK" /\ current' = 1
    BY DEF Acknowledge, Goto
  <1>4. state' \in State /\ current' \in Byte
    BY <1>1, <1>3 DEF State, Receiving, Byte
  <1>5. Bounds'
    BY <1>3 DEF Bounds, Responding
  <1> QED BY <1>1, <1>2, <1>4, <1>5, OthersKept DEF Handled

LEMMA IdleCheckKeeps ==
    ASSUME FieldsOK, Bounds, NEW c \in Byte, IdleChecked(c)
    PROVE  Handled
  <1>1. /\ error \in Byte /\ current \in Byte /\ Reply(IdleByte)
        /\ error' = error /\ UNCHANGED <<data_size, checksum, packetVars, device>>
    BY DEF IdleChecked, FieldsOK, parseVars
  <1>2. \/ state' = "IDLE_CHECK" /\ current' = current - 1 /\ current > 0
        \/ state' = "WAITING" /\ current' \in {1, 255}
        \/ state' = "RESPONSE_WAITING" /\ current' = 255
    BY DEF IdleChecked, Goto
  <1>3. state' \in State
    BY <1>2 DEF State, Receiving
  <1>4. current' \in Byte
    <2>1. current > 0 => current - 1 \in Byte
      BY <1>1 DEF Byte
    <2> QED BY <1>2, <2>1, ByteNumerals
  <1>5. Bounds'
    BY <1>2 DEF Bounds, Responding
  <1> QED BY <1>1, <1>3, <1>4, <1>5, OthersKept, ByteNumerals DEF Handled

LEMMA ResponseWaitingKeeps ==
    ASSUME FieldsOK, Bounds, ResponseWaiting
    PROVE  Handled
  <1>1. /\ Reply(IdleByte)
        /\ UNCHANGED <<state, current, parseVars, packetVars, device>>
    BY DEF ResponseWaiting
  <1>2. FieldsOK'
    BY <1>1 DEF FieldsOK, parseVars, packetVars
  <1>3. Bounds'
    BY <1>1 DEF Bounds, parseVars, packetVars
  <1> QED BY <1>1, <1>2, <1>3, ByteNumerals DEF Handled

LEMMA ResponseStartKeeps ==
    ASSUME FieldsOK, Bounds, ResponseStart
    PROVE  Handled
  <1>1. /\ header \in [1 .. 4 -> Byte] /\ header[4] \in Byte
        /\ data_size \in Byte /\ error \in Byte
        /\ header[4] <= Len(buffer)
        /\ UNCHANGED <<checksum, header, footer, buffer, device>>
    BY DEF ResponseStart, FieldsOK, Bounds, Responding, packetVars
  <1>2. \E r \in Byte : Reply(r)
    BY ByteNumerals DEF ResponseStart
  <1>3. \/ state' = "RESPONSE_START" /\ current' = 1 /\ UNCHANGED <<data_size, error>>
        \/ state' = "RESPONSE_HEADER" /\ current' = 0
           /\ data_size' = header[4] /\ error' = 0
    BY DEF ResponseStart, Goto
  <1>4. state' \in State
    BY <1>3 DEF State, Responding
  <1>5. current' \in Byte /\ data_size' \in Byte /\ error' \in Byte
    BY <1>1, <1>3, ByteNumerals
  <1>6. FieldsOK'
    BY <1>1, <1>4, <1>5 DEF FieldsOK
  <1>7. Bounds'
    BY <1>1, <1>3 DEF Bounds, Responding
  <1> QED BY <1>2, <1>6, <1>7 DEF Handled

LEMMA ResponseHeaderKeeps ==
    ASSUME FieldsOK, Bounds, ResponseHeader
    PROVE  Handled
  <1>1. /\ current \in Byte /\ current < 4 /\ data_size \in Byte /\ error \in Byte
        /\ header \in [1 .. 4 -> Byte] /\ header[4] <= Len(buffer)
        /\ data_size = header[4]
        /\ Reply(header[current + 1])
        /\ UNCHANGED <<parseVars, packetVars, device>>
    BY DEF ResponseHeader, FieldsOK, Bounds, Responding
  <1>2. header[current + 1] \in Byte
    <2>1. current \in Nat
      BY <1>1, ByteIs
    <2>2. current + 1 \in 1 .. 4
      BY <1>1, <2>1
    <2> QED BY <1>1, <2>2
  <1>3. \/ state' = "RESPONSE_HEADER" /\ current' = current + 1 /\ current < 3
        \/ state' = "RESPONSE_DATA" /\ current' = 0 /\ data_size # 0
        \/ state' = "RESPONSE_CHECKSUM" /\ current' = 0
    BY DEF ResponseHeader, Goto
  <1>4. state' \in State /\ current' \in Byte
    <2>1. state' \in State
      BY <1>3 DEF State, Responding
    <2>2. current < 3 => current + 1 \in Byte
      BY <1>1 DEF Byte
    <2> QED BY <1>3, <2>1, <2>2, ByteNumerals
  <1>5. FieldsOK'
    BY <1>1, <1>4, OthersKept DEF parseVars
  <1>6. Bounds'
    <2>1. data_size # 0 => 0 < data_size
      BY <1>1, ByteNumerals
    <2>2. /\ header' = header /\ buffer' = buffer /\ data_size' = data_size
          /\ current < 3 => current + 1 < 4
      BY <1>1, ByteNumerals DEF parseVars, packetVars
    <2> QED BY <1>1, <1>3, <2>1, <2>2 DEF Bounds, Responding
  <1> QED BY <1>1, <1>2, <1>5, <1>6 DEF Handled

LEMMA ResponseDataKeeps ==
    ASSUME FieldsOK, Bounds, ResponseData
    PROVE  Handled
  <1>1. /\ state = "RESPONSE_DATA"
        /\ current \in Byte /\ data_size \in Byte /\ error \in Byte
        /\ current < data_size /\ data_size <= Len(buffer)
        /\ header[4] <= Len(buffer) /\ buffer \in Seq(Byte)
        /\ Reply(buffer[current + 1])
        /\ AfterData("RESPONSE_DATA_PAD", "RESPONSE_CHECKSUM")
        /\ UNCHANGED <<parseVars, packetVars, device>>
    BY DEF ResponseData, FieldsOK, Bounds, Responding
  <1>2. buffer[current + 1] \in Byte
    <2> DEFINE n == Len(buffer)
    <2>1. n \in Nat /\ current < data_size /\ data_size <= n
      BY <1>1, LenProperties
    <2>2. current \in Nat /\ data_size \in Nat
      BY <1>1, ByteIs
    <2> HIDE DEF n
    <2>3. current + 1 \in 1 .. n
      BY <2>1, <2>2
    <2> QED BY <1>1, <2>3, ElementOfSeq DEF n
  <1>3. \/ state' = "RESPONSE_DATA" /\ current' = current + 1 /\ current + 1 < data_size
        \/ state' = "RESPONSE_DATA_PAD" /\ current' \in 1 .. 3
        \/ state' = "RESPONSE_CHECKSUM" /\ current' = 0
    BY <1>1, AfterDataCases
  <1>4. state' \in State /\ current' \in Byte
    <2>1. state' \in State
      BY <1>3 DEF State, Responding
    <2>2. current + 1 < data_size => current + 1 \in Byte
      BY <1>1 DEF Byte
    <2>3. \A i \in 1 .. 3 : i \in Byte
      BY DEF Byte
    <2> QED BY <1>3, <2>1, <2>2, <2>3, ByteNumerals
  <1>5. FieldsOK'
    BY <1>1, <1>4, OthersKept DEF parseVars
  <1>6. Bounds'
    BY <1>1, <1>3 DEF Bounds, Responding, parseVars, packetVars
  <1> QED BY <1>1, <1>2, <1>5, <1>6 DEF Handled

LEMMA ResponseChecksumKeeps ==
    ASSUME FieldsOK, Bounds, ResponseChecksum
    PROVE  Handled
  <1>1. /\ current \in Byte /\ current < 2 /\ error \in Byte
        /\ footer \in [1 .. 2 -> Byte] /\ header[4] <= Len(buffer)
        /\ Reply(footer[current + 1])
        /\ UNCHANGED <<parseVars, packetVars, device>>
    BY DEF ResponseChecksum, FieldsOK, Bounds, Responding
  <1>2. footer[current + 1] \in Byte
    BY <1>1, ByteNumerals
  <1>3. \/ state' = "RESPONSE_CHECKSUM" /\ current' = 1
        \/ state' = "RESPONSE_ACKNOWLEDGE" /\ current' = 0
    BY <1>1, ByteNumerals DEF ResponseChecksum, Goto
  <1>4. state' \in State /\ current' \in Byte
    BY <1>3, ByteNumerals DEF State, Responding
  <1>5. FieldsOK'
    BY <1>1, <1>4, OthersKept DEF parseVars
  <1>6. Bounds'
    BY <1>1, <1>3 DEF Bounds, Responding, parseVars, packetVars
  <1> QED BY <1>1, <1>2, <1>5, <1>6 DEF Handled

LEMMA ResponseAcknowledgeKeeps ==
    ASSUME FieldsOK, Bounds, NEW c \in Byte, ResponseAcknowledge(c)
    PROVE  Handled
  <1>1. /\ current \in Byte /\ error \in Byte /\ device \in Devices
        /\ header[4] <= Len(buffer)
        /\ UNCHANGED <<data_size, checksum, packetVars, device>>
    BY DEF ResponseAcknowledge, FieldsOK, Bounds, Responding
  <1>2. \E r \in Byte : Reply(r)
    BY <1>1, DeviceBytes, ByteNumerals DEF ResponseAcknowledge
  <1>3. error' \in Byte
    BY <1>1 DEF ResponseAcknowledge
  <1>4. \/ state' = "RESPONSE_ACKNOWLEDGE" /\ current' = current + 1 /\ current < 4
        \/ state' \in {"RESPONSE_START", "WAITING"} /\ current' = 0
    <2>1. current < (IF mode_32bit THEN 4 ELSE 2) => current < 4
      BY <1>1, ByteNumerals
    <2> QED BY <2>1 DEF ResponseAcknowledge, Goto
  <1>5. state' \in State /\ current' \in Byte
    <2>1. current < 4 => current + 1 \in Byte
      BY <1>1 DEF Byte
    <2> QED BY <1>4, <2>1, ByteNumerals DEF State, Responding
  <1>6. FieldsOK'
    BY <1>1, <1>3, <1>5, OthersKept
  <1>7. Bounds'
    BY <1>1, <1>4 DEF Bounds, Responding, packetVars
  <1> QED BY <1>2, <1>6, <1>7 DEF Handled

LEMMA TransferKeeps ==
    ASSUME SerialInv, NEW c \in Byte, Len(word) < 4, mobile_serial_transfer(c)
    PROVE  SerialInv'
  <1>1. FieldsOK /\ Bounds /\ FlagsOK /\ WordOK
    BY DEF SerialInv
  <1>2. Handled
    BY <1>1, WaitingKeeps, HeaderKeeps, DataKeeps, PadsKeep, ChecksumKeeps,
       AcknowledgeKeeps, IdleCheckKeeps, ResponseWaitingKeeps,
       ResponseStartKeeps, ResponseHeaderKeeps, ResponseDataKeeps,
       ResponseChecksumKeeps, ResponseAcknowledgeKeeps
       DEF mobile_serial_transfer
  <1>3. UNCHANGED <<mode_32bit, commandVars>>
    BY DEF mobile_serial_transfer
  <1>4. FlagsOK'
    BY <1>1, <1>3, FlagsKept
  <1>5. WordOK'
    BY <1>1, <1>2, <1>3, ReplyKeeps DEF Handled
  <1> QED BY <1>2, <1>4, <1>5 DEF Handled, SerialInv

-----------------------------------------------------------------------------
(* The calls of the handler, and the main loop.                            *)

LEMMA IgnoredKeeps ==
    ASSUME SerialInv, TransferIgnored
    PROVE  SerialInv'
  <1>1. FieldsOK' /\ Bounds'
    BY DEF SerialInv, TransferIgnored, FieldsOK, Bounds, parseVars, packetVars
  <1>2. FlagsOK'
    BY FlagsKept DEF SerialInv, TransferIgnored
  <1>3. WordOK'
    <2>1. word' = word /\ mode_32bit' = mode_32bit
      BY DEF TransferIgnored
    <2>2. out' \in Seq(Byte)
      <3> DEFINE n == IF mode_32bit THEN 4 ELSE 1
      <3>1. out' = [i \in 1 .. n |-> IdleByte]
        BY DEF TransferIgnored
      <3>2. n \in Nat
        OBVIOUS
      <3> HIDE DEF n
      <3> QED BY <3>1, <3>2, ByteNumerals
    <2> QED BY <2>1, <2>2 DEF SerialInv, WordOK
  <1> QED BY <1>1, <1>2, <1>3 DEF SerialInv

LEMMA ReturnKeeps ==
    ASSUME SerialInv, TransferReturn
    PROVE  SerialInv'
  <1>1. UNCHANGED <<parseVars, packetVars, device, mode_32bit, commandVars>>
        /\ word' = <<>>
    BY DEF TransferReturn
  <1>2. CASE state = "ACKNOWLEDGE"
    <2>1. state' = "IDLE_CHECK" /\ current' = 4
          /\ out' = <<device + 128, ErrorOr(header[1]), 0, 0>>
      BY <1>2 DEF TransferReturn, Goto
    <2>2. state' \in State /\ current' \in Byte
      BY <2>1 DEF State, Receiving, Byte
    <2>3. FieldsOK'
      BY <1>1, <2>2, OthersKept DEF SerialInv, FieldsOK, parseVars
    <2>4. Bounds'
      BY <2>1 DEF Bounds, Responding
    <2>5. out' \in Seq(Byte)
      <3>1. device \in Devices /\ error \in Byte /\ header[1] \in Byte
        BY DEF SerialInv, FieldsOK
      <3>2. device + 128 \in Byte /\ ErrorOr(header[1]) \in Byte
        BY <3>1, DeviceBytes, ErrorOrByte
      <3> QED BY <2>1, <3>2, ByteNumerals
    <2> QED BY <1>1, <2>3, <2>4, <2>5, FlagsKept DEF SerialInv, WordOK
  <1>3. CASE state # "ACKNOWLEDGE"
    <2>1. out' = word /\ UNCHANGED <<state, current>>
      BY <1>3 DEF TransferReturn
    <2>2. FieldsOK' /\ Bounds'
      BY <1>1, <2>1 DEF SerialInv, FieldsOK, Bounds, parseVars, packetVars
    <2>3. WordOK'
      BY <1>1, <2>1 DEF SerialInv, WordOK
    <2> QED BY <1>1, <2>2, <2>3, FlagsKept DEF SerialInv
  <1> QED BY <1>2, <1>3

(* What a packet of n bytes leaves of the buffer.                          *)
LEMMA RestOfBuffer ==
    ASSUME FieldsOK, NEW n \in Nat
    PROVE  /\ SubSeq(buffer, n + 1, Len(buffer)) \in Seq(Byte)
           /\ Len(SubSeq(buffer, n + 1, Len(buffer))) =
                 IF n + 1 <= Len(buffer) THEN Len(buffer) - n ELSE 0
  <1> DEFINE b == buffer
             k == Len(b)
             rest == SubSeq(b, n + 1, k)
  <1>1. b \in Seq(Byte) /\ k \in Nat
    BY LenProperties DEF FieldsOK
  <1>2. \A i \in 1 .. k : b[i] \in Byte
    BY <1>1, ElementOfSeq
  <1> HIDE DEF b, k
  <1>3. \A i \in n + 1 .. k : i \in 1 .. k
    BY <1>1
  <1>4. \A i \in n + 1 .. k : b[i] \in Byte
    BY <1>2, <1>3
  <1>5. n + 1 \in Int /\ k \in Int
    BY <1>1
  <1>6. /\ rest \in Seq(Byte)
        /\ Len(rest) = IF n + 1 <= k THEN k - (n + 1) + 1 ELSE 0
    BY <1>4, <1>5, SubSeqProperties
  <1>7. k - (n + 1) + 1 = k - n
    BY <1>1
  <1> HIDE DEF rest
  <1>8. rest \in Seq(Byte) /\ Len(rest) = IF n + 1 <= k THEN k - n ELSE 0
    BY <1>6, <1>7
  <1> QED BY <1>8 DEF rest, k, b

(* A packet that packet_create makes fits the header, footer and buffer.   *)
LEMMA PacketCreated ==
    ASSUME FieldsOK, NEW r \in Responses, packet_create(r)
    PROVE  /\ header' \in [1 .. 4 -> Byte] /\ footer' \in [1 .. 2 -> Byte]
           /\ buffer' \in Seq(Byte) /\ Len(buffer') <= MaxDataSize
           /\ header'[4] <= Len(buffer')
  <1> DEFINE n == Len(r.data)
             cmd == r.command
             rest == SubSeq(buffer, n + 1, Len(buffer))
  <1>1. /\ cmd \in 0 .. 127 /\ r.data \in Seq(Byte)
        /\ n \in 0 .. 255 /\ n \in Byte
    <2>1. cmd \in 0 .. 127
      BY SerialAssumption
    <2>2. r.data \in Seq(Byte)
      BY SerialAssumption
    <2>3. n \in 0 .. MaxDataSize
      BY SerialAssumption
    <2>4. n \in Byte
      <3> HIDE DEF n
      <3> QED BY <2>3 DEF MaxDataSize, Byte
    <2> HIDE DEF n, cmd
    <2> QED BY <2>1, <2>2, <2>4 DEF Byte
  <1>2. header' = <<cmd + 128, 0, 0, n>>
    BY DEF packet_create
  <1>3. cmd + 128 \in Byte
    <2> HIDE DEF n, cmd
    <2>1. cmd \in Nat /\ cmd <= 127
      BY <1>1
    <2> QED BY <2>1, ByteIs
  <1>4. header' \in [1 .. 4 -> Byte] /\ header'[4] = n
    <2> HIDE DEF n, cmd
    <2> QED BY <1>1, <1>2, <1>3, ByteNumerals
  <1>5. rest \in Seq(Byte) /\ Len(rest) = IF n + 1 <= Len(buffer) THEN Len(buffer) - n ELSE 0
    <2> HIDE DEF n, cmd
    <2>1. n \in Byte
      BY <1>1
    <2>2. n \in Nat
      BY <2>1, ByteIs
    <2> QED BY <2>2, RestOfBuffer DEF n
  <1>6. buffer' = r.data \o rest
    BY DEF packet_create
  <1>7. buffer' \in Seq(Byte) /\ Len(buffer') = n + Len(rest)
    <2> HIDE DEF rest
    <2> QED BY <1>1, <1>5, <1>6, ConcatProperties
  <1>8. n <= Len(buffer') /\ Len(buffer') <= MaxDataSize
    <2>1. Len(buffer) \in Nat /\ Len(buffer) <= 255
      BY LenProperties DEF FieldsOK, MaxDataSize
    <2> HIDE DEF n, rest
    <2> QED BY <1>1, <1>5, <1>7, <2>1 DEF MaxDataSize
  <1>9. footer' \in [1 .. 2 -> Byte]
    <2> DEFINE total == cmd + 128 + n + Sum(r.data)
    <2>1. Sum(r.data) \in Nat
      <3>1. r.data \in Seq(Nat)
        <4>1. Byte \subseteq Nat
          BY DEF Byte
        <4> QED BY <1>1, <4>1, SeqMonotonic
      <3> QED BY <3>1, SumType
    <2>2. total \in Nat
      <3> HIDE DEF n, cmd
      <3> QED BY <1>1, <2>1
    <2>3. footer' = <<(total \div 256) % 256, total % 256>>
      BY DEF packet_create
    <2>4. total \div 256 \in Int /\ total \in Int
      <3> HIDE DEF total
      <3> QED BY <2>2
    <2> HIDE DEF total
    <2>5. (total \div 256) % 256 \in Byte /\ total % 256 \in Byte
      BY <2>4, ModByte
    <2> QED BY <2>3, <2>5
  <1> QED BY <1>4, <1>7, <1>8, <1>9

LEMMA RespondKeeps ==
    ASSUME SerialInv, NEW r \in Responses, SerialRespond(r)
    PROVE  SerialInv'
  <1>1. packet_create(r) /\ state' = "RESPONSE_INIT"
        /\ UNCHANGED <<device, mode_32bit, word, out>>
    BY DEF SerialRespond
  <1>2. FieldsOK /\ Bounds /\ WordOK /\ FlagsOK
    BY DEF SerialInv
  <1>3. current' \in Byte /\ data_size' \in Byte /\ error' \in Byte
        /\ checksum' \in HalfWord
    <2>1. PICK x, y \in Leftovers : current' = x /\ data_size' = y /\ error' = y /\ checksum' = x
      BY DEF SerialRespond
    <2>2. x \in Byte /\ y \in Byte
      BY SerialAssumption
    <2>3. x \in HalfWord
      BY <2>2, ByteIs, HalfWordIs
    <2> QED BY <2>1, <2>2, <2>3
  <1>4. state' \in State /\ state' \notin {"HEADER", "DATA"}
    BY <1>1 DEF State
  <1>5. FieldsOK'
    BY <1>1, <1>2, <1>3, <1>4, PacketCreated DEF FieldsOK
  <1>6. Bounds'
    BY <1>1, <1>2, PacketCreated DEF Bounds, Responding
  <1>7. WordOK'
    BY <1>1, <1>2 DEF WordOK
  <1>8. session_started' \in BOOLEAN
    BY <1>2 DEF SerialRespond, FlagsOK
  <1>9. wanted_mode' \in BOOLEAN
    BY <1>2 DEF SerialRespond, FlagsOK
  <1>10. FlagsOK'
    BY <1>1, <1>2, <1>8, <1>9 DEF FlagsOK
  <1> QED BY <1>5, <1>6, <1>7, <1>10 DEF SerialInv

LEMMA ChangeModeKeeps ==
    ASSUME SerialInv, SerialChangeMode
    PROVE  SerialInv'
  <1>1. FieldsOK' /\ Bounds'
    BY DEF SerialInv, SerialChangeMode, FieldsOK, Bounds, parseVars, packetVars
  <1>2. FlagsOK'
    BY DEF SerialInv, SerialChangeMode, FlagsOK, commandVars
  <1>3. WordOK'
    <2> DEFINE n == IF wanted_mode THEN 4 ELSE 1
    <2>1. out' = [i \in 1 .. n |-> IdleByte] /\ word = <<>> /\ word' = word
      BY DEF SerialChangeMode
    <2>2. n \in Nat
      OBVIOUS
    <2>3. out' \in Seq(Byte)
      <3> HIDE DEF n
      <3> QED BY <2>1, <2>2, ByteNumerals
    <2> QED BY <2>1, <2>3 DEF SerialInv, WordOK
  <1> QED BY <1>1, <1>2, <1>3 DEF SerialInv

LEMMA ResetKeeps ==
    ASSUME SerialInv, SerialReset
    PROVE  SerialInv'
  <1>1. /\ state' = "INIT" /\ word = <<>> /\ word' = word /\ out' = <<IdleByte>>
        /\ UNCHANGED <<current, parseVars, packetVars, device>>
    BY DEF SerialReset
  <1>2. state' \in State
    BY <1>1 DEF State
  <1>3. FieldsOK'
    BY <1>1, <1>2, OthersKept DEF SerialInv, FieldsOK, parseVars
  <1>4. Bounds'
    BY <1>1 DEF Bounds, Responding
  <1>5. FlagsOK'
    <2>1. mode_32bit' = FALSE /\ session_started' = FALSE
          /\ wanted_mode' = (wanted_mode /\ ~session_started)
      BY DEF SerialReset
    <2> QED BY <2>1 DEF FlagsOK
  <1>6. WordOK'
    <2>1. <<IdleByte>> \in Seq(Byte)
      BY ByteNumerals
    <2> QED BY <1>1, <2>1 DEF SerialInv, WordOK
  <1> QED BY <1>3, <1>4, <1>5, <1>6 DEF SerialInv

-----------------------------------------------------------------------------

LEMMA InitInv == SerialInit => SerialInv
  <1> SUFFICES ASSUME SerialInit PROVE SerialInv
    OBVIOUS
  <1>1. current \in Byte /\ data_size \in Byte /\ device \in Devices
    BY SerialAssumption DEF SerialInit
  <1>2. /\ state = "INIT" /\ checksum = 0 /\ error = 0 /\ buffer = <<>>
        /\ header = [i \in 1 .. 4 |-> 0] /\ footer = [i \in 1 .. 2 |-> 0]
        /\ word = <<>> /\ out = <<IdleByte>>
    BY DEF SerialInit
  <1>3. buffer \in Seq(Byte) /\ Len(buffer) = 0 /\ Len(buffer) <= MaxDataSize
    BY <1>2 DEF MaxDataSize
  <1>4. state \in State
    BY <1>2 DEF State
  <1>5. header \in [1 .. 4 -> Byte] /\ footer \in [1 .. 2 -> Byte]
    BY <1>2, ByteNumerals
  <1>6. FieldsOK
    BY <1>1, <1>2, <1>3, <1>4, <1>5, ByteNumerals DEF FieldsOK
  <1>7. Bounds
    BY <1>2 DEF Bounds, Responding
  <1>8. FlagsOK
    BY DEF SerialInit, FlagsOK
  <1>9. WordOK
    <2>1. out \in Seq(Byte)
      BY <1>2, ByteNumerals
    <2> QED BY <1>2, <2>1 DEF WordOK
  <1> QED BY <1>6, <1>7, <1>8, <1>9 DEF SerialInv

LEMMA StutterKeeps == SerialInv /\ UNCHANGED serialVars => SerialInv'
  <1> SUFFICES ASSUME SerialInv, UNCHANGED serialVars PROVE SerialInv'
    OBVIOUS
  <1>1. FieldsOK' /\ Bounds'
    BY DEF SerialInv, serialVars, FieldsOK, Bounds, parseVars, packetVars
  <1>2. FlagsOK' /\ WordOK'
    BY DEF SerialInv, serialVars, FlagsOK, WordOK, commandVars
  <1> QED BY <1>1, <1>2 DEF SerialInv

LEMMA StepKeeps == SerialInv /\ [SerialNext]_serialVars => SerialInv'
  <1> SUFFICES ASSUME SerialInv, [SerialNext]_serialVars PROVE SerialInv'
    OBVIOUS
  <1>1. CASE TransferIgnored
    BY <1>1, IgnoredKeeps
  <1>2. ASSUME NEW c \in Bytes, TransferByte(c) PROVE SerialInv'
    <2>1. c \in Byte
      BY SerialAssumption
    <2> QED BY <1>2, <2>1, TransferKeeps DEF TransferByte
  <1>3. CASE TransferReturn
    BY <1>3, ReturnKeeps
  <1>4. ASSUME NEW r \in Responses, SerialRespond(r) PROVE SerialInv'
    BY <1>4, RespondKeeps
  <1>5. CASE SerialChangeMode
    BY <1>5, ChangeModeKeeps
  <1>6. CASE SerialReset
    BY <1>6, ResetKeeps
  <1>7. CASE UNCHANGED serialVars
    BY <1>7, StutterKeeps
  <1> QED BY <1>1, <1>2, <1>3, <1>4, <1>5, <1>6, <1>7 DEF SerialNext

LEMMA SerialInvariant == SerialSpec => []SerialInv
  BY InitInv, StepKeeps, PTL DEF SerialSpec

(* Serial, IndexInBounds: whatever bytes a console sends, in either mode,  *)
(* between or within calls, no index of serial.c leaves its array, and     *)
(* nothing but what was written is sent as a response.                     *)
THEOREM IndexesStayInBounds == SerialSpec => []IndexInBounds
  BY SerialInvariant, InvBounds, PTL

-----------------------------------------------------------------------------
(* Serial implements Exchange.                                             *)

ExchangeMoves == ExchangeOf!Next \/ UNCHANGED ExchangeOf!exchangeVars

(* The handler at work: what becomes of the phase.                         *)
LEMMA HandlerPhases ==
    ASSUME NEW c, mobile_serial_transfer(c)
    PROVE  \/ SerialPhase' = SerialPhase
           \/ SerialPhase = "INIT" /\ SerialPhase' = "WAITING"
           \/ SerialPhase = "WAITING" /\ SerialPhase' = "RECEIVING"
           \/ SerialPhase = "RECEIVING" /\ SerialPhase' = "WAITING"
           \/ SerialPhase = "RECEIVING" /\ SerialPhase' = "RESPONSE_WAITING"
           \/ SerialPhase = "RESPONSE_INIT" /\ SerialPhase' = "RESPONDING"
           \/ SerialPhase = "RESPONDING" /\ SerialPhase' = "WAITING"
  <1>1. CASE Waiting(c)
    BY <1>1 DEF Waiting, Goto, SerialPhase, Receiving, Responding
  <1>2. CASE Header(c) \/ Checksum(c)
    BY <1>2 DEF Header, Checksum, Goto, SerialPhase, Receiving, Responding
  <1>3. CASE Data(c) \/ DataPad
    BY <1>3 DEF Data, DataPad, AfterData, Goto, SerialPhase, Receiving, Responding
  <1>4. CASE Acknowledge(c) \/ AcknowledgePad
    BY <1>4 DEF Acknowledge, AcknowledgePad, Goto, SerialPhase, Receiving, Responding
  <1>5. CASE IdleChecked(c)
    BY <1>5 DEF IdleChecked, Goto, SerialPhase, Receiving, Responding
  <1>6. CASE ResponseWaiting \/ ResponseStart
    BY <1>6 DEF ResponseWaiting, ResponseStart, Goto, SerialPhase, Receiving, Responding
  <1>7. CASE ResponseHeader \/ ResponseChecksum \/ ResponseDataPad
    BY <1>7 DEF ResponseHeader, ResponseChecksum, ResponseDataPad, Goto,
       SerialPhase, Receiving, Responding
  <1>8. CASE ResponseData
    BY <1>8 DEF ResponseData, AfterData, Goto, SerialPhase, Receiving, Responding
  <1>9. CASE ResponseAcknowledge(c)
    BY <1>9 DEF ResponseAcknowledge, Goto, SerialPhase, Receiving, Responding
  <1> QED BY <1>1, <1>2, <1>3, <1>4, <1>5, <1>6, <1>7, <1>8, <1>9
      DEF mobile_serial_transfer

(* A packet starts only if the mode is the one that is wanted, or within a *)
(* word, which is of 32-bit mode.                                          *)
LEMMA ByteExchanges ==
    ASSUME SerialInv, NEW c, TransferByte(c)
    PROVE  ExchangeMoves
  <1>1. UNCHANGED <<mode_32bit, wanted_mode>>
    BY DEF TransferByte, mobile_serial_transfer, commandVars
  <1>2. CASE SerialPhase' = SerialPhase
    BY <1>1, <1>2 DEF ExchangeMoves, ExchangeOf!exchangeVars
  <1>3. CASE SerialPhase = "WAITING" /\ SerialPhase' = "RECEIVING"
    <2>1. state = "WAITING"
      BY <1>3 DEF SerialPhase
    <2>2. word # <<>> \/ mode_32bit = wanted_mode
      BY <2>1 DEF TransferByte, WrongMode
    <2>3. mode_32bit \/ ~wanted_mode
      BY <2>2 DEF SerialInv, WordOK, FlagsOK
    <2> QED BY <1>1, <1>3, <2>3 DEF ExchangeMoves, ExchangeOf!Next,
           ExchangeOf!Start, ExchangeOf!Go
  <1>4. CASE /\ SerialPhase' # SerialPhase
             /\ ~(SerialPhase = "WAITING" /\ SerialPhase' = "RECEIVING")
    BY <1>1, <1>4, HandlerPhases DEF TransferByte, ExchangeMoves,
       ExchangeOf!Next, ExchangeOf!Begin, ExchangeOf!Drop, ExchangeOf!Deliver,
       ExchangeOf!Fetch, ExchangeOf!Acknowledge, ExchangeOf!Go
  <1> QED BY <1>2, <1>3, <1>4

LEMMA SerialExchangeStep ==
    SerialInv /\ SerialInv' /\ [SerialNext]_serialVars
        => [ExchangeOf!Next]_(ExchangeOf!exchangeVars)
  <1> SUFFICES ASSUME SerialInv, SerialInv', [SerialNext]_serialVars
               PROVE  ExchangeMoves
    BY DEF ExchangeMoves
  <1>1. CASE UNCHANGED <<state, mode_32bit, wanted_mode>>
    BY <1>1 DEF ExchangeMoves, ExchangeOf!exchangeVars, SerialPhase
  <1>2. CASE TransferIgnored \/ UNCHANGED serialVars
    BY <1>1, <1>2 DEF TransferIgnored, serialVars, commandVars
  <1>3. CASE TransferReturn
    BY <1>3 DEF TransferReturn, Goto, commandVars, ExchangeMoves,
       ExchangeOf!exchangeVars, SerialPhase, Receiving, Responding
  <1>4. ASSUME NEW r \in Responses, SerialRespond(r) PROVE ExchangeMoves
    <2>1. SerialPhase = "RESPONSE_WAITING" /\ SerialPhase' = "RESPONSE_INIT"
          /\ UNCHANGED mode_32bit
      BY <1>4 DEF SerialRespond, SerialPhase, Receiving, Responding
    <2>2. wanted_mode' \in BOOLEAN
      BY DEF SerialInv, FlagsOK
    <2> QED BY <2>1, <2>2 DEF ExchangeMoves, ExchangeOf!Next, ExchangeOf!Respond
  <1>5. CASE SerialChangeMode
    BY <1>5 DEF SerialChangeMode, WrongMode, commandVars, SerialPhase,
       Receiving, Responding, ExchangeMoves, ExchangeOf!Next, ExchangeOf!ChangeMode
  <1>6. CASE SerialReset
    <2>1. SerialPhase' = "INIT" /\ mode_32bit' = FALSE
      BY <1>6 DEF SerialReset, SerialPhase, Receiving, Responding
    <2>2. wanted_mode' \in {FALSE, wanted_mode}
      <3>1. wanted_mode' = (wanted_mode /\ ~session_started)
        BY <1>6 DEF SerialReset
      <3> QED BY <3>1 DEF SerialInv, FlagsOK
    <2> QED BY <2>1, <2>2 DEF ExchangeMoves, ExchangeOf!Next, ExchangeOf!Reset
  <1> QED BY <1>2, <1>3, <1>4, <1>5, <1>6, ByteExchanges DEF SerialNext

(* Serial, ImplementsExchange: the bytes, in both modes and in or between  *)
(* calls, make up exchanges of packets as Exchange has them.               *)
THEOREM SerialExchanges == SerialSpec => ImplementsExchange
  <1>1. SerialInit => ExchangeOf!Init
    BY DEF SerialInit, ExchangeOf!Init, SerialPhase, Receiving, Responding
  <1> QED BY <1>1, SerialInvariant, SerialExchangeStep, PTL
      DEF SerialSpec, ImplementsExchange, ExchangeOf!Spec

-----------------------------------------------------------------------------
(* The sum of a packet, from its first byte to the main loop and back.     *)

(* The invariant that makes PacketSummed inductive: the checksum is that   *)
(* of the bytes that have come so far, and an error of 0 promises what the *)
(* main loop is handed.                                                    *)
KnownUnlessError == error = 0 => header[1] \in Commands

DataSum(n) == checksum = (Sum(header) + Sum(SubSeq(buffer, 1, n))) % 65536

HeadSum ==
    /\ current = 0 => checksum = 0
    /\ current = 1 => checksum = header[1]
    /\ current = 2 => checksum = header[1] + header[2]
    /\ current = 3 => checksum = header[1] + header[2] + header[3]

SoundUnlessError == error = 0 => header[1] \in Commands /\ Summed

Checking == {"ACKNOWLEDGE", "ACKNOWLEDGE_PAD", "IDLE_CHECK"}

SumInv ==
    /\ state = "HEADER" => HeadSum
    /\ state = "DATA" =>
          data_size = header[4] /\ KnownUnlessError /\ DataSum(current)
    /\ state \in {"DATA_PAD", "CHECKSUM"} =>
          header[4] <= Len(buffer) /\ KnownUnlessError /\ DataSum(header[4])
    /\ state \in Checking => SoundUnlessError
    /\ PacketSummed

(* A header is a sequence of four bytes.                                   *)
LEMMA SumOfHeader ==
    ASSUME NEW h \in [1 .. 4 -> Byte]
    PROVE  Sum(h) = h[1] + h[2] + h[3] + h[4] /\ Sum(h) \in Nat
  <1>1. h \in Seq(Byte) /\ Len(h) = 4
    <2>1. 4 \in Nat /\ DOMAIN h = 1 .. 4
      OBVIOUS
    <2>2. h \in Seq(Byte)
      BY <2>1, SeqDef
    <2>3. Len(h) \in Nat /\ 1 .. Len(h) = 1 .. 4
      BY <2>1, <2>2, LenProperties
    <2> QED BY <2>2, <2>3
  <1>2. \A i \in 1 .. 4 : h[i] \in Nat
    BY ByteNumerals
  <1>3. /\ Totals(h)[0] = 0
        /\ Totals(h)[1] = Totals(h)[0] + h[1]
        /\ Totals(h)[2] = Totals(h)[1] + h[2]
        /\ Totals(h)[3] = Totals(h)[2] + h[3]
        /\ Totals(h)[4] = Totals(h)[3] + h[4]
    <2> DEFINE t == Totals(h)
    <2>1. Len(h) \in Nat
      BY <1>1
    <2>2. /\ t[0] = 0
          /\ \A k \in Nat : k + 1 <= Len(h) => t[k + 1] = t[k] + h[k + 1]
      BY <2>1, TotalsStep
    <2> HIDE DEF t
    <2>3. /\ t[0 + 1] = t[0] + h[0 + 1] /\ t[1 + 1] = t[1] + h[1 + 1]
          /\ t[2 + 1] = t[2] + h[2 + 1] /\ t[3 + 1] = t[3] + h[3 + 1]
      BY <1>1, <2>2
    <2>4. /\ t[0] = 0 /\ t[1] = t[0] + h[1] /\ t[2] = t[1] + h[2]
          /\ t[3] = t[2] + h[3] /\ t[4] = t[3] + h[4]
      BY <2>2, <2>3
    <2> QED BY <2>4 DEF t
  <1>4. Sum(h) = Totals(h)[4]
    BY <1>1 DEF Sum
  <1> QED BY <1>2, <1>3, <1>4

(* The prefixes of a buffer are sequences of bytes, with a sum.            *)
LEMMA SumOfPrefix ==
    ASSUME NEW b \in Seq(Byte), NEW n \in Byte, n <= Len(b)
    PROVE  /\ SubSeq(b, 1, n) \in Seq(Nat) /\ Len(SubSeq(b, 1, n)) = n
           /\ Sum(SubSeq(b, 1, n)) \in Nat
  <1>1. n \in Nat /\ Len(b) \in Nat
    BY LenProperties, ByteNumerals
  <1>2. \A i \in 1 .. n : b[i] \in Nat
    <2>1. \A i \in 1 .. n : b[i] \in Byte
      BY <1>1, ElementOfSeq
    <2> QED BY <2>1, ByteNumerals
  <1>3. SubSeq(b, 1, n) \in Seq(Nat) /\ Len(SubSeq(b, 1, n)) = n
    BY <1>1, <1>2, SubSeqProperties
  <1> QED BY <1>3, SumType

LEMMA ModAdd ==
    ASSUME NEW a \in Nat, NEW b \in Nat
    PROVE  ((a % 65536) + b) % 65536 = (a + b) % 65536
  OBVIOUS

-----------------------------------------------------------------------------
(* mobile_serial_transfer keeps the sums.                                  *)

(* Handlers that leave the packet and its error alone.                     *)
LEMMA SameSums ==
    UNCHANGED packetVars =>
       /\ Summed' = Summed
       /\ \A n : checksum' = checksum => DataSum(n)' = DataSum(n)
       /\ error' = error => KnownUnlessError' = KnownUnlessError
       /\ error' = error => SoundUnlessError' = SoundUnlessError
  BY DEF packetVars, Summed, DataSum, KnownUnlessError, SoundUnlessError

LEMMA WaitingSums ==
    ASSUME SumInv, NEW c \in Byte, Waiting(c)
    PROVE  SumInv'
  <1>1. \/ state' = "WAITING"
        \/ state' = "HEADER" /\ current' = 0 /\ checksum' = 0
    BY DEF Waiting, Goto
  <1> QED BY <1>1 DEF SumInv, HeadSum, PacketSummed, Checking, Responding

LEMMA HeaderSums ==
    ASSUME FieldsOK, Bounds, SumInv, NEW c \in Byte, Header(c)
    PROVE  SumInv'
  <1>1. /\ current \in 0 .. 3 /\ header \in [1 .. 4 -> Byte]
        /\ checksum \in HalfWord /\ buffer \in Seq(Byte) /\ HeadSum
        /\ header' = [header EXCEPT ![current + 1] = c]
        /\ checksum' = (checksum + c) % 65536
        /\ buffer' = buffer
    <2>1. /\ state = "HEADER" /\ buffer' = buffer
          /\ header' = [header EXCEPT ![current + 1] = c]
          /\ checksum' = (checksum + c) % 65536
      BY DEF Header
    <2>2. /\ current \in Byte /\ header \in [1 .. 4 -> Byte]
          /\ checksum \in HalfWord /\ buffer \in Seq(Byte)
      BY DEF FieldsOK
    <2>3. current < 4 /\ HeadSum
      BY <2>1 DEF Bounds, SumInv
    <2>4. current \in 0 .. 3
      BY <2>2, <2>3 DEF Byte
    <2> QED BY <2>1, <2>2, <2>3, <2>4
  <1>2. c \in Nat /\ c < 256
        /\ \A i \in 1 .. 4 : header[i] \in Nat /\ header[i] < 256
    BY <1>1, ByteNumerals
  <1>3. CASE current < 3
    <2>1. state' = "HEADER" /\ current' = current + 1
      BY <1>3 DEF Header, Goto
    <2>2. HeadSum'
      <3> DEFINE x == header[1]
                 y == header[2]
                 total == checksum + c
      <3>1. CASE current = 0
        <4>1. total = c /\ header'[1] = c /\ checksum' = total % 65536
          BY <1>1, <1>2, <3>1 DEF HeadSum
        <4>2. current' = 1
          BY <2>1, <3>1
        <4> HIDE DEF total
        <4>3. total % 65536 = c
          BY <1>2, <4>1
        <4> QED BY <4>1, <4>2, <4>3 DEF HeadSum
      <3>2. CASE current = 1
        <4>1. /\ x \in Nat /\ x < 256 /\ c \in Nat /\ c < 256
              /\ total = x + c
          BY <1>1, <1>2, <3>2 DEF HeadSum
        <4>2. header'[1] = x /\ header'[2] = c /\ checksum' = total % 65536
          BY <1>1, <3>2
        <4>3. current' = 2
          BY <2>1, <3>2
        <4> HIDE DEF x, total
        <4>4. total % 65536 = x + c
          BY <4>1
        <4> QED BY <4>2, <4>3, <4>4 DEF HeadSum
      <3>3. CASE current = 2
        <4>1. /\ x \in Nat /\ x < 256 /\ y \in Nat /\ y < 256
              /\ c \in Nat /\ c < 256 /\ total = x + y + c
          BY <1>1, <1>2, <3>3 DEF HeadSum
        <4>2. /\ header'[1] = x /\ header'[2] = y /\ header'[3] = c
              /\ checksum' = total % 65536
          BY <1>1, <3>3
        <4>3. current' = 3
          BY <2>1, <3>3
        <4> HIDE DEF x, y, total
        <4>4. total % 65536 = x + y + c
          BY <4>1
        <4> QED BY <4>2, <4>3, <4>4 DEF HeadSum
      <3> QED BY <1>1, <1>3, <3>1, <3>2, <3>3
    <2> QED BY <2>1, <2>2 DEF SumInv, PacketSummed, Checking, Responding
  <1>4. CASE current = 3
    <2>1. /\ header' = [header EXCEPT ![4] = c]
          /\ header' \in [1 .. 4 -> Byte]
          /\ header'[1] = header[1] /\ header'[2] = header[2]
          /\ header'[3] = header[3] /\ header'[4] = c
      BY <1>1, <1>4
    <2>2. /\ data_size' = c /\ current' = 0
          /\ state' = IF c # 0 THEN "DATA" ELSE "CHECKSUM"
          /\ error' = IF header[1] \in Commands THEN error ELSE ErrUnknown
      BY <1>4 DEF Header, Goto
    <2>3. KnownUnlessError'
      BY <2>1, <2>2 DEF KnownUnlessError, ErrUnknown
    <2>4. checksum' = Sum(header') % 65536
      <3>1. checksum = header[1] + header[2] + header[3]
        BY <1>1, <1>4 DEF HeadSum
      <3>2. checksum' = (header[1] + header[2] + header[3] + c) % 65536
        BY <1>1, <1>2, <3>1
      <3>3. Sum(header') = header[1] + header[2] + header[3] + c
        BY <2>1, SumOfHeader
      <3> QED BY <3>2, <3>3
    <2>5. checksum' = (Sum(header') + Sum(SubSeq(buffer', 1, 0))) % 65536
      <3>1. SubSeq(buffer', 1, 0) = <<>>
        BY SubSeqEmpty
      <3> DEFINE h == Sum(header')
      <3>2. h \in Nat
        BY <2>1, SumOfHeader
      <3>3. checksum' = h % 65536
        BY <2>4
      <3>4. Sum(SubSeq(buffer', 1, 0)) = 0
        <4> DEFINE s == SubSeq(buffer', 1, 0)
        <4>1. s = <<>>
          BY <3>1
        <4> HIDE DEF s
        <4>2. Sum(s) = Sum(<<>>)
          BY <4>1
        <4> QED BY <4>2, SumEmpty DEF s
      <3> HIDE DEF h
      <3>5. h + 0 = h
        BY <3>2
      <3> QED BY <3>3, <3>4, <3>5 DEF h
    <2>6. 0 <= Len(buffer')
      BY <1>1, LenProperties
    <2>7. CASE c # 0
      BY <2>1, <2>2, <2>3, <2>5, <2>7
         DEF SumInv, DataSum, PacketSummed, Checking, Responding
    <2>8. CASE c = 0
      BY <2>1, <2>2, <2>3, <2>5, <2>6, <2>8
         DEF SumInv, DataSum, PacketSummed, Checking, Responding
    <2> QED BY <2>7, <2>8
  <1> QED BY <1>1, <1>3, <1>4

LEMMA DataSums ==
    ASSUME FieldsOK, Bounds, SumInv, NEW c \in Byte, Data(c)
    PROVE  SumInv'
  <1>1. /\ state = "DATA" /\ current \in Byte /\ data_size \in Byte
        /\ current < data_size /\ current <= Len(buffer)
        /\ buffer \in Seq(Byte) /\ header \in [1 .. 4 -> Byte]
        /\ data_size = header[4] /\ KnownUnlessError
    BY DEF Data, FieldsOK, Bounds, SumInv
  <1>2. checksum = (Sum(header) + Sum(SubSeq(buffer, 1, current))) % 65536
    BY <1>1 DEF SumInv, DataSum
  <1>3. /\ buffer' = Append(SubSeq(buffer, 1, current), c)
        /\ checksum' = (checksum + c) % 65536
        /\ AfterData("DATA_PAD", "CHECKSUM")
        /\ UNCHANGED <<data_size, error, header>>
    BY DEF Data
  <1>4. /\ buffer' \in Seq(Byte) /\ Len(buffer') = current + 1
        /\ SubSeq(buffer', 1, current + 1) = buffer'
    <2>1. buffer' \in Seq(Byte) /\ Len(buffer') = current + 1
      BY <1>1, <1>3, BufferAppend
    <2> QED BY <2>1, SubSeqFull
  <1>5. checksum' = (Sum(header) + Sum(SubSeq(buffer', 1, current + 1))) % 65536
    <2> DEFINE done == Sum(SubSeq(buffer, 1, current))
               head == Sum(header)
    <2>1. SubSeq(buffer, 1, current) \in Seq(Nat) /\ done \in Nat
      BY <1>1, SumOfPrefix
    <2>2. head \in Nat /\ c \in Nat
      BY <1>1, SumOfHeader, ByteNumerals
    <2>3. Sum(buffer') = done + c
      <3> DEFINE s == SubSeq(buffer, 1, current)
      <3>1. buffer' = Append(s, c) /\ s \in Seq(Nat)
        BY <1>3, <2>1
      <3> HIDE DEF s
      <3>2. Sum(buffer') = Sum(s) + c
        BY <2>2, <3>1, SumAppend
      <3> QED BY <3>2 DEF s
    <2> HIDE DEF done, head
    <2>4. checksum' = (((head + done) % 65536) + c) % 65536
      BY <1>2, <1>3 DEF head, done
    <2>5. checksum' = (head + done + c) % 65536
      <3>1. head + done \in Nat
        BY <2>1, <2>2
      <3> QED BY <2>2, <2>4, <3>1, ModAdd
    <2>6. head + done + c = head + (done + c)
      BY <2>1, <2>2
    <2>7. Sum(SubSeq(buffer', 1, current + 1)) = done + c
      BY <1>4, <2>3
    <2>8. checksum' = (head + (done + c)) % 65536
      BY <2>5, <2>6
    <2> QED BY <2>7, <2>8 DEF head
  <1>6. \/ state' = "DATA" /\ current' = current + 1
        \/ state' \in {"DATA_PAD", "CHECKSUM"} /\ current + 1 = data_size
    BY <1>1, <1>3 DEF AfterData, Goto, Byte
  <1>7. KnownUnlessError'
    BY <1>1, <1>3 DEF KnownUnlessError
  <1>8. CASE state' = "DATA" /\ current' = current + 1
    BY <1>1, <1>3, <1>5, <1>7, <1>8
       DEF SumInv, DataSum, PacketSummed, Checking, Responding
  <1>9. CASE state' \in {"DATA_PAD", "CHECKSUM"} /\ current + 1 = data_size
    <2>1. header'[4] = current + 1 /\ header'[4] <= Len(buffer')
      <3>1. header' = header /\ header[4] = data_size
        BY <1>1, <1>3
      <3>2. header'[4] = current + 1 /\ Len(buffer') = current + 1
        BY <1>4, <1>9, <3>1
      <3>3. current + 1 <= current + 1
        BY <1>1 DEF Byte
      <3> QED BY <3>2, <3>3
    <2>2. checksum' = (Sum(header') + Sum(SubSeq(buffer', 1, header'[4]))) % 65536
      BY <1>3, <1>5, <2>1
    <2>3. DataSum(header[4])'
      BY <2>2 DEF DataSum
    <2>4. state' \notin {"HEADER", "DATA", "RESPONSE_WAITING", "RESPONSE_INIT"}
          /\ state' \notin Checking /\ state' \notin Responding
      BY <1>9 DEF Checking, Responding
    <2> QED BY <1>7, <2>1, <2>3, <2>4 DEF SumInv, PacketSummed
  <1> QED BY <1>6, <1>8, <1>9

LEMMA ChecksumSums ==
    ASSUME FieldsOK, Bounds, SumInv, NEW c \in Byte, Checksum(c)
    PROVE  SumInv'
  <1>1. /\ state = "CHECKSUM" /\ current \in {0, 1}
        /\ footer \in [1 .. 2 -> Byte]
        /\ footer' = [footer EXCEPT ![current + 1] = c]
        /\ UNCHANGED <<checksum, header, buffer>>
        /\ header[4] <= Len(buffer) /\ KnownUnlessError /\ DataSum(header[4])
    BY DEF Checksum, FieldsOK, Bounds, SumInv, Byte
  <1>2. CASE current = 0
    <2>1. state' = "CHECKSUM" /\ error' = error
      BY <1>2 DEF Checksum, Goto
    <2> QED BY <1>1, <2>1 DEF SumInv, DataSum, KnownUnlessError, PacketSummed,
            Checking, Responding
  <1>3. CASE current = 1
    <2>1. /\ state' = "ACKNOWLEDGE" /\ footer'[1] = footer[1] /\ footer'[2] = c
          /\ error' = IF checksum = footer[1] * 256 + c THEN error ELSE ErrChecksum
      BY <1>1, <1>3 DEF Checksum, Goto
    <2>2. SoundUnlessError'
      BY <1>1, <2>1 DEF SoundUnlessError, KnownUnlessError, DataSum, Summed, ErrChecksum
    <2> QED BY <2>1, <2>2 DEF SumInv, PacketSummed, Checking, Responding
  <1> QED BY <1>1, <1>2, <1>3

LEMMA RequestSums ==
    ASSUME SumInv, NEW c \in Byte,
           DataPad \/ Acknowledge(c) \/ AcknowledgePad \/ IdleChecked(c)
    PROVE  SumInv'
  <1>1. UNCHANGED packetVars /\ checksum' = checksum /\ error' = error
    BY DEF DataPad, Acknowledge, AcknowledgePad, IdleChecked, parseVars
  <1>2. CASE DataPad
    <2>1. state = "DATA_PAD" /\ state' \in {"DATA_PAD", "CHECKSUM"}
      BY <1>2 DEF DataPad, Goto
    <2>2. header[4] <= Len(buffer) /\ KnownUnlessError /\ DataSum(header[4])
      BY <2>1 DEF SumInv
    <2> QED BY <1>1, <2>1, <2>2 DEF SumInv, DataSum, KnownUnlessError, PacketSummed,
            Checking, Responding, packetVars
  <1>3. CASE Acknowledge(c) \/ AcknowledgePad
    <2>1. state \in Checking /\ state' \in Checking \cup {"WAITING"}
      BY <1>3 DEF Acknowledge, AcknowledgePad, Goto, Checking
    <2>2. SoundUnlessError'
      BY <1>1, <2>1, SameSums DEF SumInv
    <2> QED BY <2>1, <2>2 DEF SumInv, PacketSummed, Checking, Responding
  <1>4. CASE IdleChecked(c)
    <2>1. /\ state = "IDLE_CHECK"
          /\ \/ state' \in {"IDLE_CHECK", "WAITING"}
             \/ state' = "RESPONSE_WAITING" /\ error = 0 /\ header[1] # CmdNull
      BY <1>4 DEF IdleChecked, Goto
    <2>2. SoundUnlessError /\ SoundUnlessError'
      BY <1>1, <2>1, SameSums DEF SumInv, Checking
    <2>3. header' = header /\ Summed' = Summed
      BY <1>1, SameSums DEF packetVars
    <2> QED BY <2>1, <2>2, <2>3 DEF SumInv, PacketSummed, SoundUnlessError,
            Checking, Responding
  <1> QED BY <1>2, <1>3, <1>4

LEMMA ResponseSums ==
    ASSUME SumInv, NEW c \in Byte,
           \/ ResponseWaiting \/ ResponseStart \/ ResponseHeader \/ ResponseData
           \/ ResponseDataPad \/ ResponseChecksum \/ ResponseAcknowledge(c)
    PROVE  SumInv'
  <1>1. UNCHANGED packetVars
    BY DEF ResponseWaiting, ResponseStart, ResponseHeader, ResponseData,
       ResponseDataPad, ResponseChecksum, ResponseAcknowledge
  <1>2. \/ state = "RESPONSE_WAITING" /\ state' = state
        \/ /\ state \in {"RESPONSE_INIT"} \cup Responding
           /\ state' \in Responding \cup {"WAITING"}
    BY DEF ResponseWaiting, ResponseStart, ResponseHeader, ResponseData,
       ResponseDataPad, ResponseChecksum, ResponseAcknowledge, AfterData,
       Goto, Responding
  <1>3. header' = header /\ Summed' = Summed
    BY <1>1, SameSums DEF packetVars
  <1> QED BY <1>2, <1>3 DEF SumInv, PacketSummed, Checking, Responding

LEMMA TransferSums ==
    ASSUME SerialInv, SumInv, NEW c \in Byte, mobile_serial_transfer(c)
    PROVE  SumInv'
  BY WaitingSums, HeaderSums, DataSums, ChecksumSums, RequestSums, ResponseSums
     DEF mobile_serial_transfer, SerialInv

-----------------------------------------------------------------------------
(* The footer that packet_create writes is the sum of the response.        *)
LEMMA TwoBytes ==
    ASSUME NEW t \in Nat
    PROVE  (((t \div 256) % 256) * 256) + (t % 256) = t % 65536
  OBVIOUS

LEMMA CreatedIsSummed ==
    ASSUME FieldsOK, NEW r \in Responses, packet_create(r)
    PROVE  Summed'
  <1> DEFINE n == Len(r.data)
             cmd == r.command
             rest == SubSeq(buffer, n + 1, Len(buffer))
             total == cmd + 128 + n + Sum(r.data)
  <1>1. /\ cmd \in 0 .. 127 /\ r.data \in Seq(Byte) /\ n \in 0 .. 255
    BY SerialAssumption DEF MaxDataSize
  <1>2. /\ header' = <<cmd + 128, 0, 0, n>>
        /\ buffer' = r.data \o rest
        /\ footer' = <<(total \div 256) % 256, total % 256>>
    BY DEF packet_create
  <1>3. /\ header' \in [1 .. 4 -> Byte] /\ header'[4] <= Len(buffer')
        /\ buffer' \in Seq(Byte)
    BY PacketCreated
  <1>4. /\ header'[1] = cmd + 128 /\ header'[2] = 0 /\ header'[3] = 0
        /\ header'[4] = n
    <2> HIDE DEF n, cmd
    <2> QED BY <1>2
  <1>5. SubSeq(buffer', 1, n) = r.data
    <2>1. rest \in Seq(Byte)
      <3>1. n \in Nat
        BY <1>1, LenProperties
      <3> HIDE DEF n
      <3> QED BY <3>1, RestOfBuffer
    <2>2. CASE n = 0
      <3>1. r.data = <<>>
        BY <1>1, <2>2, EmptySeq
      <3>2. SubSeq(buffer', 1, 0) = <<>>
        BY SubSeqEmpty
      <3> QED BY <2>2, <3>1, <3>2
    <2>3. CASE n # 0
      <3>1. 1 \in 1 .. n /\ n \in 1 .. n
        <4> HIDE DEF n
        <4> QED BY <1>1, <2>3
      <3>2. SubSeq(r.data \o rest, 1, n) = SubSeq(r.data, 1, n)
        BY <1>1, <2>1, <3>1, SubSeqOfConcat1
      <3> QED BY <1>1, <1>2, <3>2, SubSeqFull
    <2> QED BY <2>2, <2>3
  <1>6. Sum(r.data) \in Nat
    <2>1. r.data \in Seq(Nat)
      <3>1. Byte \subseteq Nat
        BY DEF Byte
      <3> QED BY <1>1, <3>1, SeqMonotonic
    <2> QED BY <2>1, SumType
  <1>7. Sum(header') + Sum(SubSeq(buffer', 1, n)) = total
    <2>1. Sum(header') = header'[1] + header'[2] + header'[3] + header'[4]
      BY <1>3, SumOfHeader
    <2>2. Sum(header') = cmd + 128 + n
      <3> HIDE DEF n, cmd
      <3> QED BY <1>1, <1>4, <2>1
    <2> QED BY <1>5, <2>2
  <1>8. footer'[1] * 256 + footer'[2] = total % 65536
    <2>1. total \in Nat
      <3> HIDE DEF n, cmd
      <3> QED BY <1>1, <1>6
    <2> HIDE DEF total
    <2> QED BY <1>2, <2>1, TwoBytes
  <1> QED BY <1>3, <1>4, <1>7, <1>8 DEF Summed

LEMMA SumStep ==
    SerialInv /\ SumInv /\ [SerialNext]_serialVars => SumInv'
  <1> SUFFICES ASSUME SerialInv, SumInv, [SerialNext]_serialVars PROVE SumInv'
    OBVIOUS
  <1>1. CASE UNCHANGED <<state, current, parseVars, packetVars>>
    BY <1>1 DEF SumInv, HeadSum, DataSum, KnownUnlessError, SoundUnlessError,
       PacketSummed, Summed, parseVars, packetVars
  <1>2. CASE TransferIgnored \/ SerialChangeMode \/ UNCHANGED serialVars
    BY <1>1, <1>2 DEF TransferIgnored, SerialChangeMode, serialVars
  <1>3. ASSUME NEW c \in Bytes, TransferByte(c) PROVE SumInv'
    <2>1. c \in Byte
      BY SerialAssumption
    <2> QED BY <1>3, <2>1, TransferSums DEF TransferByte
  <1>4. CASE TransferReturn
    <2>1. CASE state # "ACKNOWLEDGE"
      BY <1>1, <1>4, <2>1 DEF TransferReturn
    <2>2. CASE state = "ACKNOWLEDGE"
      <3>1. state' = "IDLE_CHECK" /\ error' = error /\ UNCHANGED packetVars
        BY <1>4, <2>2 DEF TransferReturn, Goto, parseVars
      <3>2. SoundUnlessError'
        BY <2>2, <3>1, SameSums DEF SumInv, Checking
      <3> QED BY <3>1, <3>2 DEF SumInv, PacketSummed, Checking, Responding
    <2> QED BY <2>1, <2>2
  <1>5. ASSUME NEW r \in Responses, SerialRespond(r) PROVE SumInv'
    <2>1. packet_create(r) /\ state' = "RESPONSE_INIT"
      BY <1>5 DEF SerialRespond
    <2>2. Summed'
      BY <2>1, CreatedIsSummed DEF SerialInv
    <2> QED BY <2>1, <2>2 DEF SumInv, PacketSummed, Checking, Responding
  <1>6. CASE SerialReset
    <2>1. state' = "INIT"
      BY <1>6 DEF SerialReset
    <2> QED BY <2>1 DEF SumInv, PacketSummed, Checking, Responding
  <1> QED BY <1>2, <1>3, <1>4, <1>5, <1>6 DEF SerialNext

LEMMA SumInit == SerialInit => SumInv
  BY DEF SerialInit, SumInv, PacketSummed, Checking, Responding

(* Serial, PacketSummed: whatever the console sends, the main loop is      *)
(* handed only a command that exists, in a packet with the sum it came     *)
(* with, and a response, sent again or not, carries its sum.               *)
THEOREM PacketsAreSummed == SerialSpec => []PacketSummed
  <1>1. SumInv => PacketSummed
    BY DEF SumInv
  <1> QED BY <1>1, SumInit, SumStep, SerialInvariant, PTL DEF SerialSpec

-----------------------------------------------------------------------------
(* Together with a console.                                                *)

(* In 8-bit mode a response that was refused leaves nothing but the verdict*)
(* on the line, and its acknowledgement ends with the verdict.             *)
RefusedOK ==
    /\ sent \in Nat
    /\ ~mode_32bit /\ phase = "refused" => wire \in {<<>>, <<ErrChecksum>>}
    /\ ~mode_32bit /\ state = "RESPONSE_ACKNOWLEDGE" => current \in 0 .. 2

LEMMA ResponseGoesOn ==
    ASSUME ~mode_32bit, state = "RESPONSE_ACKNOWLEDGE" => current \in 0 .. 2,
           state \in Responding, mobile_serial_transfer(ErrChecksum)
    PROVE  state' \in Responding
  <1>1. CASE ResponseStart \/ ResponseHeader \/ ResponseDataPad \/ ResponseChecksum
    BY <1>1 DEF ResponseStart, ResponseHeader, ResponseDataPad, ResponseChecksum,
       Goto, Responding
  <1>2. CASE ResponseData
    BY <1>2 DEF ResponseData, AfterData, Goto, Responding
  <1>3. CASE ResponseAcknowledge(ErrChecksum)
    <2>1. current \in 0 .. 2
      BY <1>3 DEF ResponseAcknowledge
    <2>2. CASE current < 2
      BY <1>3, <2>2 DEF ResponseAcknowledge, Goto, Responding
    <2>3. CASE current = 2
      <3>1. error' = ErrChecksum /\ Retried(error') /\ ~(current < 2)
        BY <1>3, <2>3 DEF ResponseAcknowledge, Retried
      <3> QED BY <1>3, <3>1 DEF ResponseAcknowledge, Goto, Responding
    <2> QED BY <2>1, <2>2, <2>3
  <1> QED BY <1>1, <1>2, <1>3 DEF mobile_serial_transfer, Responding, Waiting,
         Header, Data, DataPad, Checksum, Acknowledge, AcknowledgePad,
         IdleChecked, ResponseWaiting

(* Nothing but its own bytes moves the library within an acknowledgement.  *)
LEMMA AcknowledgeCounts ==
    ASSUME NEW c, mobile_serial_transfer(c), ~mode_32bit,
           state = "RESPONSE_ACKNOWLEDGE" => current \in 0 .. 2,
           state' = "RESPONSE_ACKNOWLEDGE"
    PROVE  current' \in 0 .. 2
  <1>1. CASE ResponseChecksum
    BY <1>1 DEF ResponseChecksum, Goto
  <1>2. CASE ResponseAcknowledge(c)
    <2>1. current \in 0 .. 2 /\ current < 2 /\ current' = current + 1
      BY <1>2 DEF ResponseAcknowledge, Goto
    <2> QED BY <2>1
  <1>3. CASE ResponseData
    BY <1>3 DEF ResponseData, AfterData, Goto
  <1>4. CASE Data(c) \/ DataPad
    BY <1>4 DEF Data, DataPad, AfterData, Goto
  <1> QED BY <1>1, <1>2, <1>3, <1>4 DEF mobile_serial_transfer, Waiting, Header,
         Checksum, Acknowledge, AcknowledgePad, IdleChecked, ResponseWaiting,
         ResponseStart, ResponseHeader, ResponseDataPad, Goto

(* The verdict is the last byte of an acknowledgement.                     *)
LEMMA VerdictSent ==
    ASSUME RefusedOK, ~mode_32bit, ConsoleAcknowledge, phase' = "refused"
    PROVE  wire' = <<ErrChecksum>>
  <1>1. PICK nak \in BOOLEAN :
          LET verdict == IF nak THEN ErrChecksum ELSE got[3]
              bytes == IF mode_32bit THEN <<ClientId, verdict, 0, 0>>
                       ELSE <<ClientId, verdict>>
              last == sent + Width = Len(bytes)
          IN  /\ wire' = SubSeq(bytes, sent + 1, sent + Width)
              /\ phase' = IF ~last THEN "acknowledge"
                          ELSE IF nak THEN "refused" ELSE "idle"
    BY DEF ConsoleAcknowledge
  <1>2. Width = 1
    BY DEF Width
  <1>3. nak
    BY <1>1
  <1> DEFINE bytes == <<ClientId, ErrChecksum>>
  <1>4. wire' = SubSeq(bytes, sent + 1, sent + 1) /\ sent + 1 = Len(bytes)
    BY <1>1, <1>2, <1>3
  <1>5. Len(bytes) = 2 /\ bytes[2] = ErrChecksum
    OBVIOUS
  <1>6. sent = 1
    BY <1>4, <1>5 DEF RefusedOK
  <1>7. SubSeq(bytes, 2, 2) = <<ErrChecksum>>
    <2> DEFINE t == SubSeq(bytes, 2, 2)
               e == ErrChecksum
    <2>1. bytes \in Seq(Nat) /\ bytes[2] = e
      BY DEF ClientId, ErrChecksum
    <2>2. t = [i \in 1 .. 1 |-> bytes[2]]
      BY <2>1, <1>5
    <2>3. <<e>> = [i \in 1 .. 1 |-> e]
      OBVIOUS
    <2> HIDE DEF t, e, bytes
    <2> QED BY <2>1, <2>2, <2>3 DEF t, e
  <1> HIDE DEF bytes
  <1>8. 1 + 1 = 2
    OBVIOUS
  <1> QED BY <1>4, <1>6, <1>7, <1>8

LEMMA RefusedInit == LinkInit => RefusedOK
  BY DEF LinkInit, SerialInit, RefusedOK

(* The console moves: the library stays where it is.                       *)
LEMMA ConsoleKeepsRefused ==
    ASSUME RefusedOK,
           ConsoleIdle \/ ConsoleRequest \/ Console \/ ConsoleTimeout
    PROVE  RefusedOK' /\ state' = state
  <1>1. UNCHANGED <<state, current, mode_32bit>>
    BY DEF ConsoleIdle, ConsoleRequest, Console, ConsoleSend, ConsolePoll,
       ConsoleAcknowledge, ConsolePause, ConsoleTimeout, Swap, serialVars
  <1>2. sent' \in Nat
    <2>1. sent \in Nat /\ sent + Width \in Nat
      BY DEF RefusedOK, Width
    <2>2. sent' \in {0, sent, sent + Width}
      <3>1. CASE ConsoleSend
        BY <3>1 DEF ConsoleSend
      <3>2. CASE ConsoleAcknowledge
        BY <3>2 DEF ConsoleAcknowledge
      <3>3. CASE ConsoleIdle \/ ConsoleRequest \/ ConsolePoll \/ ConsolePause \/ ConsoleTimeout
        BY <3>3 DEF ConsoleIdle, ConsoleRequest, ConsolePoll, ConsolePause, ConsoleTimeout
      <3> QED BY <3>1, <3>2, <3>3 DEF Console
    <2> QED BY <2>1, <2>2
  <1>3. phase' = "refused" => ConsoleAcknowledge
    BY DEF ConsoleIdle, ConsoleRequest, Console, ConsoleSend, ConsolePoll,
       ConsolePause, ConsoleTimeout
  <1>4. ~mode_32bit /\ phase' = "refused" => wire' \in {<<>>, <<ErrChecksum>>}
    BY <1>3, VerdictSent
  <1> QED BY <1>1, <1>2, <1>4 DEF RefusedOK

(* The library moves: a byte it takes from the line is the verdict.        *)
LEMMA LibraryKeepsRefused ==
    ASSUME RefusedOK, Library
    PROVE  /\ RefusedOK'
           /\ phase = "refused" /\ state \in Responding /\ ~mode_32bit =>
                 state' \in Responding \cup {"INIT"}
  <1> DEFINE Goal == /\ RefusedOK'
                     /\ phase = "refused" /\ state \in Responding /\ ~mode_32bit =>
                           state' \in Responding \cup {"INIT"}
  <1>1. CASE LibraryByte
    <2>1. /\ mobile_serial_transfer(wire[1]) /\ wire' = Tail(wire) /\ wire # <<>>
          /\ UNCHANGED <<consoleVars, mode_32bit>>
      BY <1>1 DEF LibraryByte, TransferByte, mobile_serial_transfer
    <2>2. phase = "refused" /\ ~mode_32bit => wire[1] = ErrChecksum /\ wire' = <<>>
      <3>1. Tail(<<ErrChecksum>>) = <<>> /\ <<ErrChecksum>>[1] = ErrChecksum
        OBVIOUS
      <3>2. phase = "refused" /\ ~mode_32bit => wire = <<ErrChecksum>>
        BY <2>1 DEF RefusedOK
      <3> QED BY <2>1, <3>1, <3>2
    <2>3. ~mode_32bit /\ state' = "RESPONSE_ACKNOWLEDGE" => current' \in 0 .. 2
      BY <2>1, AcknowledgeCounts DEF RefusedOK
    <2>4. RefusedOK'
      BY <2>1, <2>2, <2>3 DEF RefusedOK, consoleVars
    <2>5. phase = "refused" /\ state \in Responding /\ ~mode_32bit => state' \in Responding
      BY <2>1, <2>2, ResponseGoesOn DEF RefusedOK
    <2> QED BY <2>4, <2>5
  <1>2. CASE LibraryIgnores
    BY <1>2 DEF LibraryIgnores, TransferIgnored, consoleVars, RefusedOK
  <1>3. CASE LibraryReturns
    BY <1>3 DEF LibraryReturns, TransferReturn, Goto, consoleVars, RefusedOK, Responding
  <1>4. CASE LibraryResponds
    BY <1>4 DEF LibraryResponds, SerialRespond, consoleVars, RefusedOK, Responding
  <1>5. CASE LibraryChangesMode
    BY <1>5 DEF LibraryChangesMode, SerialChangeMode, WrongMode, consoleVars,
       RefusedOK, Responding
  <1>6. CASE LibraryDrops
    BY <1>6 DEF LibraryDrops, SerialReset, RefusedOK
  <1> QED BY <1>1, <1>2, <1>3, <1>4, <1>5, <1>6 DEF Library

(* SerialLink, RefusedIsRetried: whatever is sent, garbled or refused, and *)
(* however often, the library does not give up a response that the console *)
(* refused in 8-bit mode, unless the session is dropped.                   *)
THEOREM RefusedAreRetried == LinkSpec => RefusedIsRetried
  <1>1. RefusedOK /\ [LinkNext]_linkVars =>
            /\ RefusedOK'
            /\ [phase = "refused" /\ state \in Responding /\ ~mode_32bit =>
                   state' \in Responding \cup {"INIT"}]_linkVars
    <2>1. CASE UNCHANGED linkVars
      BY <2>1 DEF linkVars, consoleVars, serialVars, RefusedOK
    <2>2. CASE LinkNext
      BY <2>2, ConsoleKeepsRefused, LibraryKeepsRefused DEF LinkNext
    <2> QED BY <2>1, <2>2
  <1> QED BY <1>1, RefusedInit, PTL DEF LinkSpec, RefusedIsRetried

=============================================================================
