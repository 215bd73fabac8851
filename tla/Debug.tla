-------------------------------- MODULE Debug --------------------------------
(***************************************************************************)
(* debug.c: the log, written piece by piece into a buffer of one line.  Of *)
(* the text only its length is kept: the line must stay inside the buffer, *)
(* whose index is an unsigned char.                                        *)
(***************************************************************************)
EXTENDS Integers, Sequences, SequencesExt

CONSTANTS
    BufferSize,     \* MOBILE_DEBUG_BUFFER_SIZE: 80
    Lengths         \* lengths of packets; always up to 255

VARIABLES
    current,        \* adapter->debug.current
    pieces          \* what is left to write of the message in progress

vars == <<current, pieces>>

(* Pieces: text of mobile_debug_print, text of mobile_debug_write, the end *)
(* of a line.  The numbers of a message are short or long: octets (and     *)
(* single bytes) have d digits, an address 4d + 3, a port one or five.     *)
P(n) == [op |-> "print", n |-> n]
W(n) == [op |-> "write", n |-> n]
E == [op |-> "endl", n |-> 0]
Quad(d) == 4 * d + 3
Port(d) == IF d = 1 THEN 1 ELSE 5

Digits == {1, 3}

(* The longest text of one mobile_debug_print: an answered login.          *)
MaxText == 23 + 3 * Quad(3)

ASSUME DebugAssumption ==
    /\ BufferSize \in Nat \ {0} /\ BufferSize + MaxText <= 256
    /\ Lengths \subseteq 0 .. 255

-----------------------------------------------------------------------------
(* Mutant: leaves no room for the terminator.                              *)
WriteWhole(c, n) ==
    LET remaining == BufferSize - c
    IN  IF remaining <= 1 THEN c
        ELSE c + (IF n > remaining THEN remaining ELSE n)

mobile_debug_write(c, n) ==
    LET remaining == BufferSize - c
    IN  IF remaining <= 1 THEN c
        ELSE c + (IF n > remaining - 1 THEN remaining - 1 ELSE n)

(* vsnprintf returns the length of the whole text, current is 8 bits wide. *)
mobile_debug_print(c, n) ==
    LET after == (c + n) % 256
    IN  IF BufferSize - c <= 1 THEN c
        ELSE IF after >= BufferSize THEN BufferSize - 1 ELSE after

mobile_debug_print_addr(type, d) ==
    CASE type = "ipv4" -> <<P(Quad(d)), P(1 + Port(d))>>
      [] type = "ipv6" -> <<P(14), P(1 + Port(d))>>
      [] type = "none" -> <<>>

(* mobile_debug_print_hex of n bytes, in rows of 16.                       *)
Hex(n) == [i \in 1 .. n |-> P(3)]
Row(n) == <<P(4)>> \o Hex(n) \o <<E>>
dump_hex(len) ==
    <<E>> \o FlattenSeq([i \in 1 .. (len + 15) \div 16 |->
                            Row(IF 16 * i > len THEN len - 16 * (i - 1) ELSE 16)])

dump(len, ascii) ==
    CASE len = 0 -> <<E>>
      [] len > 0 /\ ~ascii -> dump_hex(len)
      [] len > 0 /\ ascii -> <<E, W(len), E>>

packet_end(len, used) ==
    IF len > used THEN <<P(19)>> \o dump_hex(len - used) ELSE <<E>>

(* A text that is followed by the rest of the packet, or a packet that is  *)
(* too short for it.                                                       *)
Fields(len, used, text) ==
    IF len < used THEN packet_end(len, 0) ELSE text \o packet_end(len, used)

(* A packet without the byte it begins with: the line is left as it is.    *)
IfAny(len, text) == IF len < 1 THEN <<>> ELSE text

(* The login: an id of that many bytes, a password (here empty), two       *)
(* addresses.                                                              *)
mobile_debug_ppp(send, len, d, id) ==
    IF send THEN Fields(len, 12, <<P(23 + 3 * Quad(d))>>)
    ELSE IfAny(len,
           IF len < 1 + id THEN packet_end(len, 0)
           ELSE <<P(6), W(id)>> \o
                (IF len < 1 + id + 1 + 8 THEN <<P(1)>> \o packet_end(len, 1 + id)
                 ELSE <<P(17 + 2 * Quad(d))>> \o packet_end(len, 1 + id + 1 + 8)))

(* The text after the number and before the end, by command.               *)
Command == {"START", "END", "TEL", "SIMPLE", "DATA", "CHECK_STATUS",
            "CHANGE_CLOCK", "EEPROM_READ", "EEPROM_WRITE", "DATA_END",
            "PPP_CONNECT", "TCP_CONNECT", "TCP_DISCONNECT", "DNS_REQUEST",
            "ERROR", "UNKNOWN"}

mobile_debug_command(cmd, send, len, d, id, ascii) ==
    <<P(4), P(3)>> \o
    CASE cmd = "START"  -> <<P(15), W(len), E>>
      [] cmd = "END"    -> <<P(11)>> \o packet_end(len, 0)
                                     \o (IF send THEN <<E>> ELSE <<>>)
      [] cmd = "TEL"    -> <<P(4)>> \o
            (IF send \/ len < 2 THEN packet_end(len, 0)
             ELSE <<P(10 + d), W(len - 1), E>>)
      [] cmd = "SIMPLE" -> <<P(14)>> \o packet_end(len, 0)
      [] cmd = "DATA"   -> <<P(13)>> \o IfAny(len, <<P(8 + d)>> \o dump(len - 1, ascii))
      [] cmd = "CHECK_STATUS" -> <<P(6)>> \o
            (IF send THEN Fields(len, 3, <<P(10)>>) ELSE packet_end(len, 0))
      [] cmd = "CHANGE_CLOCK" -> <<P(19)>> \o
            (IF send THEN packet_end(len, 0)
             ELSE IfAny(len, <<P(8)>> \o packet_end(len, 1)))
      [] cmd = "EEPROM_READ" -> <<P(11)>> \o
            (IF send THEN IfAny(len, <<P(13)>> \o dump_hex(len - 1))
             ELSE Fields(len, 2, <<P(23)>>))
      [] cmd = "EEPROM_WRITE" -> <<P(12)>> \o
            (IF ~send THEN IfAny(len, <<P(13)>> \o dump_hex(len - 1))
             ELSE IF len < 2 THEN <<>> ELSE <<P(23)>> \o packet_end(len, 2))
      [] cmd = "PPP_CONNECT" -> <<P(11)>> \o mobile_debug_ppp(send, len, d, id)
      [] cmd = "TCP_CONNECT" -> <<P(11)>> \o
            (IF ~send THEN Fields(len, 6, <<P(3 + Quad(d) + Port(d))>>)
             ELSE IfAny(len, <<P(8 + d)>> \o packet_end(len, 1)))
      [] cmd \in {"DATA_END", "TCP_DISCONNECT"} -> <<P(17)>> \o
            IfAny(len, <<P(8 + d)>> \o packet_end(len, 1))
      [] cmd = "DNS_REQUEST" -> <<P(11)>> \o
            (IF send THEN Fields(len, 4, <<P(2 + Quad(d))>>)
             ELSE <<P(2), W(len), E>>)
      [] cmd = "ERROR"   -> <<P(5)>> \o Fields(len, 2, <<P(4)>>)
      [] cmd = "UNKNOWN" -> <<P(7)>> \o dump_hex(len)

-----------------------------------------------------------------------------
Init == current = 0 /\ pieces = <<>>

(* The shortest packet with what its command needs: a byte, or two.        *)
Needs(cmd, send) ==
    CASE cmd \in {"DATA", "CHANGE_CLOCK", "EEPROM_READ", "DATA_END",
                  "PPP_CONNECT", "TCP_CONNECT", "TCP_DISCONNECT"} -> 1
      [] cmd = "EEPROM_WRITE" -> IF send THEN 2 ELSE 1
      [] OTHER -> 0

(* The library's own responses have what they need (commands.c:744, 770,   *)
(* 919, 975); a packet of the console may not, and then its line is left   *)
(* open (debug.c:183, 216, 248, 261, 269, 346).                            *)
LogCommand ==
    /\ pieces = <<>>
    /\ \E cmd \in Command, send \in BOOLEAN, d \in Digits, id \in {0, 2, 32},
          ascii \in BOOLEAN, len \in Lengths :
          /\ len < Needs(cmd, send) => ~send
          /\ id # 0 => cmd = "PPP_CONNECT"
          /\ ascii => cmd = "DATA"
          /\ pieces' = mobile_debug_command(cmd, send, len, d, id, ascii)
    /\ UNCHANGED current

(* Any other message: a prefix, a text, an address, the end of the line    *)
(* (mobile.c:30-34, commands.c:50-57, relay.c:49-52, 346-349).             *)
LogMessage ==
    /\ pieces = <<>>
    /\ \E n \in {10, 35}, type \in {"none", "ipv4", "ipv6"}, d \in Digits :
          pieces' = <<P(8), P(n)>> \o mobile_debug_print_addr(type, d) \o <<E>>
    /\ UNCHANGED current

Write ==
    /\ pieces # <<>>
    /\ LET p == Head(pieces)
       IN  current' = CASE p.op = "print" -> mobile_debug_print(current, p.n)
                        [] p.op = "write" -> mobile_debug_write(current, p.n)
                        [] p.op = "endl"  -> 0
    /\ pieces' = Tail(pieces)

Next == LogCommand \/ LogMessage \/ Write

Spec == Init /\ [][Next]_vars

-----------------------------------------------------------------------------
(* debug.c:24-49: whatever is logged, and however many messages meet on a  *)
(* line, the text and its terminator stay inside the buffer, and no text   *)
(* that was written is lost: the 8 bits of current never wrap around.      *)
LineFits ==
    /\ current < BufferSize
    /\ pieces # <<>> /\ Head(pieces).op = "print" => current + Head(pieces).n < 256
=============================================================================
