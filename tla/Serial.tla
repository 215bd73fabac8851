------------------------------- MODULE Serial -------------------------------
(***************************************************************************)
(* serial.c: the exchange with the console, byte by byte, and the calls of *)
(* it by mobile_transfer and mobile_transfer_32bit.  In 32-bit mode a call *)
(* takes four bytes, one step each; `word' holds the replies of the call   *)
(* under way.  The reply of a call reaches the console with the next       *)
(* exchange (mobile.h:502-503).                                            *)
(*                                                                         *)
(* The fields of struct mobile_buffer_serial share their memory with the   *)
(* progress of a command, so what they hold after a command was processed  *)
(* is arbitrary, except for the response that packet_create writes.        *)
(***************************************************************************)
EXTENDS Integers, Sequences, Sums

CONSTANTS
    Bytes,          \* the bytes the console may send
    Devices,        \* the devices that may be configured
    Commands,       \* the commands that exist (mobile_commands_exists)
    Responses,      \* the packets with which the main loop may answer
    Leftovers,      \* what the memory of a command's progress may hold
    Threads         \* whether the main loop runs in a thread of its own

Byte == 0 .. 255
HalfWord == 0 .. 65535   \* uint16_t
MaxDataSize == 255      \* MOBILE_MAX_DATA_SIZE

ASSUME SerialAssumption ==
    /\ Bytes \subseteq Byte
    /\ Devices \subseteq 8 .. 11
    /\ Commands \subseteq Byte
    /\ Leftovers \subseteq Byte
    /\ Threads \in BOOLEAN
    /\ \A r \in Responses :
          /\ r.command \in 0 .. 127
          /\ r.data \in Seq(Byte) /\ Len(r.data) \in 0 .. MaxDataSize

VARIABLES
    state,              \* serial.state
    current,            \* buffer.serial.current
    data_size,          \* buffer.serial.data_size
    checksum,           \* buffer.serial.checksum
    error,              \* buffer.serial.error
    header,             \* buffer.serial.header
    footer,             \* buffer.serial.footer
    buffer,             \* serial.buffer, as far as it was written
    device,             \* serial.device
    mode_32bit,         \* serial.mode_32bit
    wanted_mode,        \* commands.mode_32bit
    session_started,    \* commands.session_started
    word,               \* d[], the replies of the call under way
    out                 \* the reply of the last call

parseVars == <<data_size, checksum, error>>
packetVars == <<header, footer, buffer>>
commandVars == <<wanted_mode, session_started>>
serialVars == <<state, current, parseVars, packetVars, device, mode_32bit,
                commandVars, word, out>>

Sync1 == 153            \* 0x99
Sync2 == 102            \* 0x66
IdleByte == 210         \* MOBILE_SERIAL_IDLE_BYTE
IdleCheck == 75         \* 0x4B
CmdNull == 15
CmdStart == 16
CmdEnd == 17
CmdChangeClock == 24
DeviceBlue == 8
ClientIds == {128, 129} \* MOBILE_ADAPTER_GAMEBOY(_ADVANCE) | 0x80
ErrUnknown == 240
ErrChecksum == 241
ErrInternal == 242

Receiving == {"HEADER", "DATA", "DATA_PAD", "CHECKSUM", "ACKNOWLEDGE",
              "ACKNOWLEDGE_PAD", "IDLE_CHECK"}
Responding == {"RESPONSE_START", "RESPONSE_HEADER", "RESPONSE_DATA",
               "RESPONSE_DATA_PAD", "RESPONSE_CHECKSUM",
               "RESPONSE_ACKNOWLEDGE"}
State == {"INIT", "WAITING", "RESPONSE_WAITING", "RESPONSE_INIT"}
            \cup Receiving \cup Responding

SerialTypeOK ==
    /\ state \in State
    /\ current \in Byte
    /\ data_size \in Byte
    /\ checksum \in HalfWord
    /\ error \in Byte
    /\ header \in [1 .. 4 -> Byte]
    /\ footer \in [1 .. 2 -> Byte]
    /\ buffer \in Seq(Byte)
    /\ device \in Byte
    /\ mode_32bit \in BOOLEAN
    /\ wanted_mode \in BOOLEAN
    /\ session_started \in BOOLEAN
    /\ word \in Seq(Byte) /\ Len(word) \in 0 .. 4
    /\ out \in Seq(Byte)

SerialInit ==
    /\ state = "INIT"
    /\ current \in Leftovers
    /\ data_size \in Leftovers
    /\ checksum = 0
    /\ error = 0
    /\ header = [i \in 1 .. 4 |-> 0]
    /\ footer = [i \in 1 .. 2 |-> 0]
    /\ buffer = <<>>
    /\ device \in Devices
    /\ mode_32bit = FALSE
    /\ wanted_mode = FALSE
    /\ session_started = FALSE
    /\ word = <<>>
    /\ out = <<IdleByte>>

-----------------------------------------------------------------------------
(* mobile_serial_transfer: one action for each state.                      *)

Goto(st, cur) == state' = st /\ current' = cur

(* What the byte is answered with.                                         *)
Reply(r) ==
    IF mode_32bit THEN word' = Append(word, r) /\ UNCHANGED out
    ELSE out' = <<r>> /\ UNCHANGED word

ErrorOr(cmd) == IF error # 0 THEN error ELSE (cmd + 128) % 256

Waiting(c) ==
    /\ state \in {"INIT", "WAITING"}
    /\ \/ /\ c = Sync1
          /\ Goto("WAITING", 1)
          /\ UNCHANGED parseVars
       \/ /\ c = Sync2 /\ state = "WAITING" /\ current = 1
          /\ Goto("HEADER", 0)
          /\ data_size' = 0 /\ checksum' = 0 /\ error' = 0
       \/ /\ c # Sync1 /\ ~(c = Sync2 /\ state = "WAITING" /\ current = 1)
          /\ Goto("WAITING", 0)
          /\ UNCHANGED parseVars
    /\ Reply(IdleByte)
    /\ UNCHANGED <<packetVars, device>>

(* The state WAITING that a size above 255, or a command other than START  *)
(* outside of a session, asks for is overwritten at the end.               *)
Header(c) ==
    /\ state = "HEADER"
    /\ header' = [header EXCEPT ![current + 1] = c]
    /\ checksum' = (checksum + c) % 65536
    /\ Reply(IdleByte)
    /\ IF current < 3
       THEN /\ Goto("HEADER", current + 1)
            /\ UNCHANGED <<data_size, error, device>>
       ELSE /\ data_size' = c
            /\ error' = IF header[1] \in Commands THEN error ELSE ErrUnknown
            /\ IF session_started THEN UNCHANGED device ELSE device' \in Devices
            /\ Goto(IF c # 0 THEN "DATA" ELSE "CHECKSUM", 0)
    /\ UNCHANGED <<footer, buffer>>

(* Where the data of a packet leads once it is complete.                   *)
AfterData(padding, done) ==
    IF current + 1 < data_size THEN Goto(state, current + 1)
    ELSE IF mode_32bit /\ (current + 1) % 4 # 0
         THEN Goto(padding, 4 - ((current + 1) % 4))
         ELSE Goto(done, 0)

Data(c) ==
    /\ state = "DATA"
    /\ buffer' = Append(SubSeq(buffer, 1, current), c)
    /\ checksum' = (checksum + c) % 65536
    /\ AfterData("DATA_PAD", "CHECKSUM")
    /\ Reply(IdleByte)
    /\ UNCHANGED <<data_size, error, header, footer, device>>

DataPad ==
    /\ state = "DATA_PAD"
    /\ Goto(IF current = 1 THEN "CHECKSUM" ELSE "DATA_PAD", current - 1)
    /\ Reply(IdleByte)
    /\ UNCHANGED <<parseVars, packetVars, device>>

Checksum(c) ==
    /\ state = "CHECKSUM"
    /\ footer' = [footer EXCEPT ![current + 1] = c]
    /\ IF current < 1
       THEN /\ Goto("CHECKSUM", current + 1)
            /\ Reply(IdleByte)
            /\ UNCHANGED error
       ELSE /\ error' = IF checksum = footer[1] * 256 + c THEN error
                        ELSE ErrChecksum
            /\ Goto("ACKNOWLEDGE", 0)
            /\ Reply(device + 128)
    /\ UNCHANGED <<data_size, checksum, header, buffer, device>>

Acknowledge(c) ==
    /\ state = "ACKNOWLEDGE"
    /\ \/ /\ mode_32bit
          /\ Goto("ACKNOWLEDGE_PAD", 2)
          /\ Reply(ErrorOr(header[1]))
       \/ /\ ~mode_32bit /\ device # DeviceBlue /\ c \notin ClientIds
          /\ Goto("WAITING", current)
          /\ Reply(IdleByte)
       \/ /\ ~mode_32bit /\ (device = DeviceBlue \/ c \in ClientIds)
          /\ Goto("IDLE_CHECK", 1)
          /\ Reply(ErrorOr(header[1]))
    /\ UNCHANGED <<parseVars, packetVars, device>>

AcknowledgePad ==
    /\ state = "ACKNOWLEDGE_PAD"
    /\ IF current = 1 THEN Goto("IDLE_CHECK", 1)
       ELSE Goto("ACKNOWLEDGE_PAD", current - 1)
    /\ Reply(0)
    /\ UNCHANGED <<parseVars, packetVars, device>>

(* Mutant: the packet is taken although it is in error.                    *)
IdleCheckTakesAll(c) ==
    /\ state = "IDLE_CHECK"
    /\ IF current > 0 THEN Goto("IDLE_CHECK", current - 1)
       ELSE IF header[1] = CmdNull \/ c # IdleCheck
            THEN Goto("WAITING", IF c = Sync1 THEN 1 ELSE 255)
            ELSE Goto("RESPONSE_WAITING", 255)
    /\ Reply(IdleByte)
    /\ UNCHANGED <<parseVars, packetVars, device>>

(* Mutant: the counter does not wrap.                                      *)
IdleCheckNoWrap(c) ==
    /\ state = "IDLE_CHECK"
    /\ IF current > 0 THEN Goto("IDLE_CHECK", current - 1)
       ELSE IF header[1] = CmdNull \/ error # 0 \/ c # IdleCheck
            THEN Goto("WAITING", IF c = Sync1 THEN 1 ELSE current - 1)
            ELSE Goto("RESPONSE_WAITING", current - 1)
    /\ Reply(IdleByte)
    /\ UNCHANGED <<parseVars, packetVars, device>>

(* current-- on 0 leaves 255.                                              *)
IdleChecked(c) ==
    /\ state = "IDLE_CHECK"
    /\ IF current > 0 THEN Goto("IDLE_CHECK", current - 1)
       ELSE IF header[1] = CmdNull \/ error # 0 \/ c # IdleCheck
            THEN Goto("WAITING", IF c = Sync1 THEN 1 ELSE 255)
            ELSE Goto("RESPONSE_WAITING", 255)
    /\ Reply(IdleByte)
    /\ UNCHANGED <<parseVars, packetVars, device>>

ResponseWaiting ==
    /\ state = "RESPONSE_WAITING"
    /\ Reply(IdleByte)
    /\ UNCHANGED <<state, current, parseVars, packetVars, device>>

(* Mutant: the size left over from the request is used.                    *)
ResponseKeepsSize ==
    /\ state \in {"RESPONSE_INIT", "RESPONSE_START"}
    /\ IF state = "RESPONSE_INIT" \/ current = 0
       THEN /\ Goto("RESPONSE_START", 1)
            /\ Reply(Sync1)
            /\ UNCHANGED error
       ELSE /\ Goto("RESPONSE_HEADER", 0)
            /\ Reply(Sync2)
            /\ error' = 0
    /\ UNCHANGED <<data_size, checksum, packetVars, device>>

ResponseStart ==
    /\ state \in {"RESPONSE_INIT", "RESPONSE_START"}
    /\ IF state = "RESPONSE_INIT" \/ current = 0
       THEN /\ Goto("RESPONSE_START", 1)
            /\ Reply(Sync1)
            /\ UNCHANGED <<data_size, error>>
       ELSE /\ Goto("RESPONSE_HEADER", 0)
            /\ Reply(Sync2)
            /\ data_size' = header[4]
            /\ error' = 0
    /\ UNCHANGED <<checksum, packetVars, device>>

ResponseHeader ==
    /\ state = "RESPONSE_HEADER"
    /\ Reply(header[current + 1])
    /\ IF current < 3 THEN Goto("RESPONSE_HEADER", current + 1)
       ELSE Goto(IF data_size # 0 THEN "RESPONSE_DATA"
                 ELSE "RESPONSE_CHECKSUM", 0)
    /\ UNCHANGED <<parseVars, packetVars, device>>

ResponseData ==
    /\ state = "RESPONSE_DATA"
    /\ Reply(buffer[current + 1])
    /\ AfterData("RESPONSE_DATA_PAD", "RESPONSE_CHECKSUM")
    /\ UNCHANGED <<parseVars, packetVars, device>>

ResponseDataPad ==
    /\ state = "RESPONSE_DATA_PAD"
    /\ Goto(IF current = 1 THEN "RESPONSE_CHECKSUM"
            ELSE "RESPONSE_DATA_PAD", current - 1)
    /\ Reply(0)
    /\ UNCHANGED <<parseVars, packetVars, device>>

ResponseChecksum ==
    /\ state = "RESPONSE_CHECKSUM"
    /\ Reply(footer[current + 1])
    /\ IF current < 1 THEN Goto("RESPONSE_CHECKSUM", current + 1)
       ELSE Goto("RESPONSE_ACKNOWLEDGE", 0)
    /\ UNCHANGED <<parseVars, packetVars, device>>

Retried(e) == e \in {ErrUnknown, ErrChecksum, ErrInternal}

(* Mutant: the error is read one byte early.                               *)
AcknowledgeEarly(c) ==
    /\ state = "RESPONSE_ACKNOWLEDGE"
    /\ error' = IF current = 1 THEN c ELSE error
    /\ IF current < (IF mode_32bit THEN 4 ELSE 2)
       THEN /\ Goto("RESPONSE_ACKNOWLEDGE", current + 1)
            /\ Reply(IF current = 0 THEN device + 128 ELSE 0)
       ELSE /\ Goto(IF Retried(error') THEN "RESPONSE_START" ELSE "WAITING", 0)
            /\ Reply(IdleByte)
    /\ UNCHANGED <<data_size, checksum, packetVars, device>>

ResponseAcknowledge(c) ==
    /\ state = "RESPONSE_ACKNOWLEDGE"
    /\ error' = IF current = 2 THEN c ELSE error
    /\ IF current < (IF mode_32bit THEN 4 ELSE 2)
       THEN /\ Goto("RESPONSE_ACKNOWLEDGE", current + 1)
            /\ Reply(IF current = 0 THEN device + 128 ELSE 0)
       ELSE /\ Goto(IF Retried(error') THEN "RESPONSE_START" ELSE "WAITING", 0)
            /\ Reply(IdleByte)
    /\ UNCHANGED <<data_size, checksum, packetVars, device>>

mobile_serial_transfer(c) ==
    /\ \/ Waiting(c) \/ Header(c) \/ Data(c) \/ DataPad \/ Checksum(c)
       \/ Acknowledge(c) \/ AcknowledgePad \/ IdleChecked(c)
       \/ ResponseWaiting \/ ResponseStart \/ ResponseHeader \/ ResponseData
       \/ ResponseDataPad \/ ResponseChecksum \/ ResponseAcknowledge(c)
    /\ UNCHANGED <<mode_32bit, commandVars>>

-----------------------------------------------------------------------------
(* mobile_transfer, mobile_transfer_32bit: a call in the wrong mode between*)
(* two exchanges does nothing.                                             *)
WrongMode == state = "WAITING" /\ mode_32bit # wanted_mode

TransferIgnored ==
    /\ word = <<>> /\ WrongMode
    /\ out' = [i \in 1 .. (IF mode_32bit THEN 4 ELSE 1) |-> IdleByte]
    /\ UNCHANGED <<state, current, parseVars, packetVars, device, mode_32bit,
                   commandVars, word>>

TransferByte(c) ==
    /\ Len(word) < 4
    /\ ~(word = <<>> /\ WrongMode)
    /\ mobile_serial_transfer(c)

(* Mutant: one byte of the console's acknowledgement is not skipped.       *)
ReturnSkipsThree ==
    /\ Len(word) = 4
    /\ IF state = "ACKNOWLEDGE"
       THEN /\ out' = <<device + 128, ErrorOr(header[1]), 0, 0>>
            /\ Goto("IDLE_CHECK", 3)
       ELSE /\ out' = word
            /\ UNCHANGED <<state, current>>
    /\ word' = <<>>
    /\ UNCHANGED <<parseVars, packetVars, device, mode_32bit, commandVars>>

(* The end of mobile_serial_transfer_32bit: a packet that ends with a word *)
(* is acknowledged there, and the acknowledgement of the console skipped.  *)
TransferReturn ==
    /\ Len(word) = 4
    /\ IF state = "ACKNOWLEDGE"
       THEN /\ out' = <<device + 128, ErrorOr(header[1]), 0, 0>>
            /\ Goto("IDLE_CHECK", 4)
       ELSE /\ out' = word
            /\ UNCHANGED <<state, current>>
    /\ word' = <<>>
    /\ UNCHANGED <<parseVars, packetVars, device, mode_32bit, commandVars>>

-----------------------------------------------------------------------------
(* The main loop, as far as it touches the exchange.  An interrupt handler *)
(* finishes its word before the main loop goes on; a thread does not.      *)
BetweenCalls == word = <<>> \/ Threads

(* What is in the header, the data and the footer is up to r.              *)
packet_create(r) ==
    /\ header' = <<r.command + 128, 0, 0, Len(r.data)>>
    /\ buffer' = r.data \o SubSeq(buffer, Len(r.data) + 1, Len(buffer))
    /\ LET total == r.command + 128 + Len(r.data) + Sum(r.data)
       IN  footer' = <<(total \div 256) % 256, total % 256>>

(* Mutant: the exchange goes on before the response is written.            *)
RespondTooEarly(r) ==
    /\ state = "RESPONSE_WAITING" /\ BetweenCalls
    /\ r.to = header[1]
    /\ session_started' = (session_started \/ header[1] = CmdStart)
    /\ state' = "RESPONSE_INIT"
    /\ UNCHANGED <<packetVars, current, parseVars, wanted_mode, device,
                   mode_32bit, word, out>>

(* command_handle.  START, END and CHANGE_CLOCK change the session and the *)
(* mode that is wanted.                                                    *)
SerialRespond(r) ==
    /\ state = "RESPONSE_WAITING" /\ BetweenCalls
    /\ r.to = header[1]
    /\ packet_create(r)
    /\ \E x, y \in Leftovers :
          current' = x /\ data_size' = y /\ error' = y /\ checksum' = x
    /\ session_started' = CASE header[1] = CmdStart -> TRUE
                            [] header[1] = CmdEnd -> FALSE
                            [] OTHER -> session_started
    /\ wanted_mode' = CASE header[1] = CmdEnd -> FALSE
                        [] header[1] = CmdChangeClock /\ header[4] > 0
                              /\ buffer[1] \in {0, 1} -> buffer[1] = 1
                        [] OTHER -> wanted_mode
    /\ state' = "RESPONSE_INIT"
    /\ UNCHANGED <<device, mode_32bit, word, out>>

(* Mutant: the mode is switched in the middle of an exchange.              *)
ChangeModeAtOnce ==
    /\ mode_32bit # wanted_mode /\ word = <<>>
    /\ mode_32bit' = wanted_mode
    /\ out' = [i \in 1 .. (IF wanted_mode THEN 4 ELSE 1) |-> IdleByte]
    /\ UNCHANGED <<state, current, parseVars, packetVars, device, commandVars,
                   word>>

(* mobile_actions_process with CHANGE_32BIT_MODE, the port disabled.       *)
SerialChangeMode ==
    /\ WrongMode /\ word = <<>>
    /\ mode_32bit' = wanted_mode
    /\ out' = [i \in 1 .. (IF wanted_mode THEN 4 ELSE 1) |-> IdleByte]
    /\ UNCHANGED <<state, current, parseVars, packetVars, device, commandVars,
                   word>>

(* mobile_reset, the port disabled.                                        *)
SerialReset ==
    /\ word = <<>>
    /\ state' = "INIT"
    /\ mode_32bit' = FALSE
    /\ wanted_mode' = (wanted_mode /\ ~session_started)
    /\ session_started' = FALSE
    /\ out' = <<IdleByte>>
    /\ UNCHANGED <<current, parseVars, packetVars, device, word>>

SerialNext ==
    \/ TransferIgnored
    \/ \E c \in Bytes : TransferByte(c)
    \/ TransferReturn
    \/ \E r \in Responses : SerialRespond(r)
    \/ SerialChangeMode
    \/ SerialReset

SerialSpec == SerialInit /\ [][SerialNext]_serialVars

-----------------------------------------------------------------------------
(* Properties.                                                             *)

(* serial.c:46, 90, 111: every index stays within its array, whatever the  *)
(* console sends: header[4], footer[2] and buffer[255] (a size is a byte), *)
(* and a response is not read past what was written; the counters keep the *)
(* width of their type.                                                    *)
IndexInBounds ==
    /\ SerialTypeOK
    /\ state \in {"HEADER", "RESPONSE_HEADER"} => current < 4
    /\ state \in {"CHECKSUM", "RESPONSE_CHECKSUM"} => current < 2
    /\ state = "DATA" => current < data_size /\ current <= Len(buffer)
    /\ state = "RESPONSE_DATA" =>
          current < data_size /\ data_size <= Len(buffer)
    /\ state \in {"DATA_PAD", "RESPONSE_DATA_PAD", "ACKNOWLEDGE_PAD"} =>
          current \in 1 .. 3
    /\ Len(buffer) <= MaxDataSize

(* The footer is the sum of the header and the data.                       *)
Summed ==
    /\ header[4] <= Len(buffer)
    /\ footer[1] * 256 + footer[2] =
          (Sum(header) + Sum(SubSeq(buffer, 1, header[4]))) % 65536

(* serial.c:118-121, 169-177, mobile.c:60: whatever the console sends, the *)
(* main loop is handed a command that exists, with the sum of all that it  *)
(* will read, and every response carries its sum, repeated or not; request,*)
(* response and the progress of the command use the same memory.           *)
PacketSummed ==
    /\ state = "RESPONSE_WAITING" => header[1] \in Commands \ {CmdNull} /\ Summed
    /\ state \in {"RESPONSE_INIT"} \cup Responding => Summed

SerialPhase ==
    IF state \in Receiving THEN "RECEIVING"
    ELSE IF state \in Responding THEN "RESPONDING" ELSE state

ExchangeOf == INSTANCE Exchange WITH phase <- SerialPhase,
                                     port_mode <- mode_32bit

(* The handler that works byte by byte gives the main loop the exchange of *)
(* packets it relies on, with the mode changed only between two of them.   *)
ImplementsExchange == ExchangeOf!Spec

=============================================================================
