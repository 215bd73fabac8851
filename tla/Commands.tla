------------------------------ MODULE Commands ------------------------------
(***************************************************************************)
(* commands.c: the packet handlers, and the session, call and connection   *)
(* table they keep.  A handler is an action with a parameter reply:        *)
(* "pending" when the code returns NULL (the handler runs again at the next*)
(* iteration of the main loop, with the same packet), "ok" when it returns *)
(* the packet and "error" when it returns an error packet.                 *)
(*                                                                         *)
(* A handler runs while the interrupt handler only polls (serial.state is  *)
(* RESPONSE_WAITING), so one call of it is one step.                       *)
(***************************************************************************)
EXTENDS Relay

CONSTANTS
    MaxData,                \* bound on the payload of a DATA packet, in bytes
    PppDnsChoices           \* DNS servers a PPP_CONNECT may fill in

ASSUME MaxDataAssumption == MaxData \in Nat

ASSUME PppDnsAssumption == PppDnsChoices \subseteq SUBSET {1, 2}

VARIABLES
    session_started,        \* adapter->commands.session_started
    mode_32bit,             \* adapter->commands.mode_32bit
    state,                  \* adapter->commands.state
    connections,            \* adapter->commands.connections
    dns2_use,               \* adapter->commands.dns2_use
    ppp_dns,                \* which of commands.dns1, dns2 PPP_CONNECT filled in
    command,                \* the packet in buffer.serial/buffer.commands
    arg,                    \* and the part of its contents that matters
    packet_parsed,          \* adapter->global.packet_parsed
    processing,             \* buffer.commands.processing
    processing_data,        \* buffer.commands.processing_data
    processing_addr,        \* type of buffer.commands.processing_addr
    command_time,           \* MOBILE_TIMER_COMMAND: last limit it has passed
    number_fetch_active,    \* adapter->global.number_fetch_active
    config_relay,           \* type of adapter->config.relay
    config_dns              \* types of adapter->config.dns1, dns2

sessionVars == <<session_started, mode_32bit>>
dnsVars     == <<dns2_use, ppp_dns>>
packetVars  == <<command, arg>>
configVars  == <<config_relay, config_dns>>

p2p_conn == 0               \* commands.c:26; number_fetch_conn, mobile.c:15

ConnectionState ==
    {"DISCONNECTED", "WAIT", "WAIT_RELAY", "WAIT_TIMEOUT",
     "CALL", "CALL_RECV", "CALL_ISP", "INTERNET"}

InCall   == {"CALL", "CALL_RECV", "CALL_ISP"}
Waitable == {"DISCONNECTED", "WAIT", "WAIT_RELAY", "WAIT_TIMEOUT"}

(* Commands that change no state of the adapter.                           *)
Stateless == {"CHECK_STATUS", "EEPROM_READ", "EEPROM_WRITE", "UDP_CONNECT",
              "UDP_DISCONNECT", "TEST_MODE"}

Command == Stateless \cup
    {"START", "END", "TEL", "OFFLINE", "WAIT_CALL", "DATA", "REINIT",
     "CHANGE_CLOCK", "PPP_CONNECT", "PPP_DISCONNECT", "TCP_CONNECT",
     "TCP_DISCONNECT", "DNS_REQUEST"}

(* What the packet buffer holds after the reply.                           *)
Response == {"RESPONSE", "ERROR"}

(* The contents of a packet that the handlers tell apart; conn = -1 is a   *)
(* packet without contents, conn = MaxConnections an invalid connection.   *)
NoArgument == [kind |-> "none"]

Argument(cmd) ==
    CASE cmd = "START"        -> [kind : {"magic", "other"}]
      [] cmd = "TEL"          -> [kind : {"empty", "bad_first_byte", "isp", "ip", "number"}]
      [] cmd = "DATA"         -> [conn : -1 .. MaxConnections, size : 0 .. MaxData]
      [] cmd = "CHANGE_CLOCK" -> [kind : {"8bit", "32bit", "other"}]
      [] cmd = "PPP_CONNECT"  -> [valid : BOOLEAN, dns : PppDnsChoices]
      [] cmd = "TCP_CONNECT"  -> [kind : {"short", "address"}]
      [] cmd = "TCP_DISCONNECT" -> [conn : -1 .. MaxConnections]
      [] cmd = "DNS_REQUEST"  -> [kind : {"ip", "ip_zero", "name"}]
      [] OTHER                -> {NoArgument}

(* The limits of MOBILE_TIMER_COMMAND, in milliseconds.                    *)
CommandTimes == {0, 1000, 3000, 10000, 60000}

Replies == {"pending", "ok", "error"}

(* The enums process_tel, process_wait_call, process_data,                 *)
(* process_tcp_connect and process_dns_request; their first value is BEGIN.*)
ProcessingStep == {"BEGIN", "IP", "RELAY", "DONE", "CONNECTING", "CHECK",
                   "clobbered"}

(* command_handle (mobile.c:85-90) clears processing when it first sees a  *)
(* packet.                                                                 *)
Processing == IF packet_parsed THEN processing ELSE "BEGIN"

CommandsTypeOK ==
    /\ session_started \in BOOLEAN
    /\ mode_32bit \in BOOLEAN
    /\ state \in ConnectionState
    /\ connections \in [Conn -> BOOLEAN]
    /\ dns2_use \in BOOLEAN
    /\ ppp_dns \in SUBSET {1, 2}
    /\ command \in Command \cup Response
    /\ packet_parsed \in BOOLEAN
    /\ processing \in ProcessingStep
    /\ processing_data \in [{0, 1} -> Nat]
    /\ processing_addr \in Address
    /\ command_time \in CommandTimes
    /\ number_fetch_active \in BOOLEAN
    /\ config_relay \in AddrType
    /\ config_dns \in [{1, 2} -> AddrType]

-----------------------------------------------------------------------------
(* The parts of a handler's step that it leaves alone.                     *)
NoRelay   == UNCHANGED relayVars
NoSocket  == UNCHANGED sock
NoSession == UNCHANGED <<sessionVars, number_fetch_active>>
NoTable   == UNCHANGED <<state, connections>>
NoDns     == UNCHANGED dnsVars

(* The state of a pending packet.  It shares its memory with the response, *)
(* which packet_create writes (mobile.c:65-75, mobile_data.h:42-45).       *)
ClobberedData == [i \in {0, 1} |-> 255]

Proc(reply, p, data, addr) ==
    /\ processing' = IF reply = "pending" THEN p ELSE "clobbered"
    /\ processing_data' = IF reply = "pending" THEN data ELSE ClobberedData
    /\ processing_addr' = IF reply = "pending" THEN addr ELSE "clobbered"

NoProc(reply) == Proc(reply, Processing, processing_data, processing_addr)

(* An error packet before anything has changed.                            *)
Refuse(reply) ==
    /\ reply = "error"
    /\ NoRelay /\ NoSocket /\ NoSession /\ NoTable /\ NoProc(reply) /\ NoDns

Disconnected(c) == [connections EXCEPT ![c] = FALSE]
Connected(c)    == [connections EXCEPT ![c] = TRUE]

(* connection_new: the first free slot.                                    *)
FreeConn  == {c \in Conn : ~connections[c]}
IsNewConn(c) == c \in FreeConn /\ \A d \in FreeConn : c <= d

-----------------------------------------------------------------------------
(* Ending calls and sessions.                                              *)

(* The slots do_offline closes: all of them when logged in, else that of   *)
(* the call.                                                               *)
HangUp == {c \in Conn : /\ connections[c]
                        /\ \/ state = "INTERNET"
                           \/ state \in InCall /\ c = p2p_conn}

OffHook == state \in InCall \cup {"INTERNET"}

(* Mutant: the number of the peer stays with the user.                     *)
OfflineKeepsNumber ==
    /\ connections' = [c \in Conn |-> connections[c] /\ c \notin HangUp]
    /\ state' = IF OffHook THEN "DISCONNECTED" ELSE state
    /\ UNCHANGED peer_number

AfterOffline ==
    /\ connections' = [c \in Conn |-> connections[c] /\ c \notin HangUp]
    /\ state' = IF OffHook THEN "DISCONNECTED" ELSE state
    /\ peer_number' = (peer_number /\ ~OffHook)

(* Mutant: only an established call is closed.                             *)
EndForgetsWait == SockCloseAll(sock, HangUp)

(* do_end_session: a slot that a pending or waiting command left open is   *)
(* closed as well, but stays set in the table.                             *)
EndedSock ==
    SockCloseAll(sock, HangUp \cup {c \in {p2p_conn} : connections[c]})

do_end_session ==
    /\ AfterOffline
    /\ sock' = EndedSock
    /\ session_started' = FALSE
    /\ mode_32bit' = FALSE

(* mobile_number_fetch_cancel, on the slots s.                             *)
FetchCancelled(s) == IF number_fetch_active THEN SockClose(s, p2p_conn) ELSE s

(* Mutant: a number fetch goes on.                                         *)
StartKeepsFetch(s) ==
    /\ session_started' = TRUE
    /\ state' = "DISCONNECTED"
    /\ connections' = [c \in Conn |-> FALSE]
    /\ sock' = s
    /\ UNCHANGED number_fetch_active

do_start_session(s) ==
    /\ session_started' = TRUE
    /\ state' = "DISCONNECTED"
    /\ connections' = [c \in Conn |-> FALSE]
    /\ sock' = FetchCancelled(s)
    /\ number_fetch_active' = FALSE

command_start(reply) ==
    \/ /\ session_started \/ arg.kind # "magic"
       /\ Refuse(reply) /\ UNCHANGED command_time
    \/ /\ ~session_started /\ arg.kind = "magic"
       /\ reply = "ok"
       /\ do_start_session(sock)
       /\ UNCHANGED mode_32bit
       /\ NoRelay /\ NoProc(reply) /\ NoDns /\ UNCHANGED command_time

command_end(reply) ==
    /\ reply = "ok"
    /\ do_end_session
    /\ UNCHANGED <<relay_state, relay_processing, net_buffer, user_number,
                   number_fetch_retries, config_dirty, number_fetch_active>>
    /\ NoProc(reply) /\ NoDns /\ UNCHANGED command_time

command_reinit(reply) ==
    /\ reply = "ok"
    /\ do_start_session(EndedSock)
    /\ mode_32bit' = FALSE
    /\ peer_number' = (peer_number /\ ~OffHook)
    /\ UNCHANGED <<relay_state, relay_processing, net_buffer, user_number,
                   number_fetch_retries, config_dirty>>
    /\ NoProc(reply) /\ NoDns /\ UNCHANGED command_time

command_offline(reply) ==
    \/ /\ ~OffHook
       /\ Refuse(reply) /\ UNCHANGED command_time
    \/ /\ OffHook
       /\ reply = "ok"
       /\ AfterOffline
       /\ sock' = SockCloseAll(sock, HangUp)
       /\ UNCHANGED <<relay_state, relay_processing, net_buffer, user_number,
                      number_fetch_retries, config_dirty>>
       /\ NoSession /\ NoProc(reply) /\ NoDns /\ UNCHANGED command_time

command_ppp_disconnect(reply) ==
    \/ /\ state # "INTERNET"
       /\ Refuse(reply) /\ UNCHANGED command_time
    \/ /\ state = "INTERNET"
       /\ reply = "ok"
       /\ sock' = SockCloseAll(sock, HangUp)
       /\ connections' = [c \in Conn |-> FALSE]
       /\ state' = "CALL_ISP"
       /\ NoRelay /\ NoSession /\ NoProc(reply) /\ NoDns /\ UNCHANGED command_time

-----------------------------------------------------------------------------
(* Calling.                                                                *)

(* Mutant: the connection of an earlier WAIT_CALL is not closed.           *)
TelKeepsWait == sock

(* command_tel_begin closes the connection a WAIT_CALL left, even when the *)
(* packet turns out to be wrong.                                           *)
TelSock == IF connections[p2p_conn] THEN SockClose(sock, p2p_conn) ELSE sock

(* Open slot p2p_conn on the slots s, or fail to: then reply an error, with*)
(* the state that is given.                                                *)
TelOpen(addr, next, reply) ==
    /\ state' = "DISCONNECTED"
    /\ Proc(reply, next, processing_data, addr)
    /\ \/ /\ reply = "error"
          /\ sock' = TelSock
          /\ connections' = Disconnected(p2p_conn)
       \/ /\ reply = "pending"
          /\ sock' = SockOpen(TelSock, p2p_conn, "tcp", addr)
          /\ connections' = Connected(p2p_conn)

command_tel_begin(reply) ==
    \/ /\ state \notin Waitable \/ arg.kind = "empty"
       /\ Refuse(reply)
    \/ /\ state \in Waitable
       /\ NoSession /\ NoDns
       /\ \/ \* the first byte or the number is wrong
             /\ \/ arg.kind = "bad_first_byte"
                \/ arg.kind = "number" /\ config_relay = "none"
             /\ reply = "error"
             /\ sock' = TelSock
             /\ connections' = Disconnected(p2p_conn)
             /\ state' = "DISCONNECTED"
             /\ NoRelay /\ NoProc(reply)
          \/ \* the number of an ISP: the call is simulated
             /\ arg.kind = "isp"
             /\ reply = "ok"
             /\ sock' = TelSock
             /\ connections' = Disconnected(p2p_conn)
             /\ state' = "CALL_ISP"
             /\ peer_number' = TRUE
             /\ UNCHANGED <<relay_state, relay_processing, net_buffer,
                            user_number, number_fetch_retries, config_dirty>>
             /\ NoProc(reply)
          \/ /\ arg.kind \in {"ip", "number"} /\ config_relay # "none"
             /\ mobile_relay_init
             /\ TelOpen(config_relay, "RELAY", reply)
             /\ UNCHANGED <<net_buffer, user_number, peer_number,
                            number_fetch_retries, config_dirty>>
          \/ /\ arg.kind = "ip" /\ config_relay = "none"
             /\ TelOpen("ipv4", "IP", reply)
             /\ NoRelay

(* Polls of a call that is being made give up after 60 s.                  *)
TelTimeout(reply) ==
    /\ command_time >= 60000
    /\ reply = "error"
    /\ sock' = SockClose(sock, p2p_conn)
    /\ connections' = Disconnected(p2p_conn)
    /\ UNCHANGED state
    /\ NoRelay /\ NoSession /\ NoDns /\ NoProc(reply)

(* rc of mobile_cb_sock_connect: 0 connecting, 1 connected, -1 failed.     *)
command_tel_ip(reply) ==
    /\ command_time < 60000
    /\ NoSession /\ NoDns /\ NoProc(reply)
    /\ UNCHANGED <<relay_state, relay_processing, net_buffer, user_number,
                   number_fetch_retries, config_dirty>>
    /\ \/ /\ reply = "pending"
          /\ sock' = SockConnect(sock, p2p_conn, processing_addr, 0)
          /\ NoTable /\ UNCHANGED peer_number
       \/ /\ reply = "error"
          /\ sock' = SockClose(SockConnect(sock, p2p_conn, processing_addr, -1),
                               p2p_conn)
          /\ connections' = Disconnected(p2p_conn)
          /\ UNCHANGED <<state, peer_number>>
       \/ /\ reply = "ok"
          /\ sock' = SockConnect(sock, p2p_conn, processing_addr, 1)
          /\ peer_number' = TRUE
          /\ state' = "CALL"
          /\ UNCHANGED connections

command_tel_relay(reply) ==
    /\ command_time < 60000
    /\ NoSession /\ NoDns /\ NoProc(reply)
    /\ \E rc \in {-1, 0, 1, 2} :
          /\ mobile_relay_proc(p2p_conn, processing_addr, "call", {0, 1}, rc)
          /\ reply = CASE rc = 0 -> "pending" [] rc = 1 -> "ok" [] OTHER -> "error"
          /\ state' = IF rc = 1 THEN "CALL" ELSE state
          /\ connections' = IF rc \in {0, 1} THEN connections
                            ELSE Disconnected(p2p_conn)

command_tel(reply) ==
    \/ /\ Processing = "BEGIN"
       /\ command_tel_begin(reply)
       /\ command_time' = 0
    \/ /\ Processing \in {"IP", "RELAY"}
       /\ TelTimeout(reply)
       /\ UNCHANGED command_time
    \/ /\ Processing = "IP"
       /\ command_tel_ip(reply)
       /\ UNCHANGED command_time
    \/ /\ Processing = "RELAY"
       /\ command_tel_relay(reply)
       /\ UNCHANGED command_time

-----------------------------------------------------------------------------
(* Waiting for a call.  state survives from one WAIT_CALL to the next, so  *)
(* that a later one resumes the wait.                                      *)

(* Nothing waits yet: open the relay connection, or listen.                *)
command_wait_call_begin(reply) ==
    /\ IF config_relay # "none"
       THEN /\ mobile_relay_init
            /\ Proc(reply, "DONE", processing_data, config_relay)
            /\ UNCHANGED <<net_buffer, user_number, peer_number,
                           number_fetch_retries, config_dirty>>
       ELSE NoRelay /\ Proc(reply, "DONE", processing_data, processing_addr)
    /\ \/ \* the socket cannot be opened
          /\ reply = "error"
          /\ state' = "WAIT_TIMEOUT"
          /\ UNCHANGED connections /\ NoSocket
       \/ /\ config_relay # "none"
          /\ reply = "pending"
          /\ sock' = SockOpen(sock, p2p_conn, "tcp", config_relay)
          /\ connections' = Connected(p2p_conn)
          /\ state' = "WAIT_RELAY"
       \/ \* the socket is open, but cannot listen
          /\ config_relay = "none"
          /\ reply = "error"
          /\ sock' = SockClose(SockListen(SockOpen(sock, p2p_conn, "tcp", "ipv4"),
                                          p2p_conn, 0), p2p_conn)
          /\ state' = "WAIT_TIMEOUT"
          /\ UNCHANGED connections
       \/ /\ config_relay = "none"
          /\ reply = "pending"
          /\ sock' = SockListen(SockOpen(sock, p2p_conn, "tcp", "ipv4"),
                                p2p_conn, 1)
          /\ connections' = Connected(p2p_conn)
          /\ state' = "WAIT"

(* Mutant: no timeout.                                                     *)
WaitForever(time, reply) ==
    /\ NoRelay /\ UNCHANGED connections
    /\ Proc(reply, "DONE", processing_data, processing_addr)
    /\ reply \in {"pending", "ok"}
    /\ sock' = SockAccept(sock, p2p_conn, IF reply = "ok" THEN 1 ELSE 0)
    /\ state' = IF reply = "ok" THEN "CALL_RECV" ELSE state

command_wait_call_ip(time, reply) ==
    /\ NoRelay /\ UNCHANGED connections
    /\ Proc(reply, "DONE", processing_data, processing_addr)
    /\ \/ /\ time >= 1000
          /\ reply = "error"
          /\ NoSocket /\ UNCHANGED state
       \/ /\ time < 1000
          /\ reply \in {"pending", "ok"}
          /\ sock' = SockAccept(sock, p2p_conn, IF reply = "ok" THEN 1 ELSE 0)
          /\ state' = IF reply = "ok" THEN "CALL_RECV" ELSE state

command_wait_call_relay(time, reply) ==
    /\ Proc(reply, "DONE", processing_data, processing_addr)
    /\ \/ \* the wait continues in a later command, once WAIT was sent
          /\ time >= 1000 /\ relay_state = "RECV_WAIT"
          /\ reply = "error"
          /\ NoRelay /\ NoSocket /\ NoTable
       \/ \* the connection hangs
          /\ time >= 1000 /\ relay_state # "RECV_WAIT"
          /\ reply = "error"
          /\ sock' = SockClose(sock, p2p_conn)
          /\ connections' = Disconnected(p2p_conn)
          /\ state' = "DISCONNECTED"
          /\ NoRelay
       \/ /\ time < 1000
          /\ \E rc \in {-1, 0, 1, 2} :
                /\ mobile_relay_proc(p2p_conn, processing_addr, "wait", {0, 1}, rc)
                /\ reply = CASE rc = 0 -> "pending" [] rc = 1 -> "ok"
                             [] OTHER -> "error"
                /\ state' = CASE rc = 0 -> state [] rc = 1 -> "CALL_RECV"
                              [] OTHER -> "WAIT_TIMEOUT"
                /\ connections' = IF rc \in {0, 1} THEN connections
                                  ELSE Disconnected(p2p_conn)

command_wait_call(reply) ==
    \/ /\ state \notin Waitable
       /\ Refuse(reply) /\ UNCHANGED command_time
    \/ \* wait out the timeout of an earlier failure
       /\ Processing = "BEGIN" /\ state = "WAIT_TIMEOUT" /\ command_time < 1000
       /\ reply = "pending"
       /\ NoRelay /\ NoSocket /\ NoTable /\ NoProc(reply)
       /\ NoSession /\ NoDns /\ UNCHANGED command_time
    \/ /\ state \in Waitable
       /\ ~(Processing = "BEGIN" /\ state = "WAIT_TIMEOUT" /\ command_time < 1000)
       /\ command_time' = IF Processing = "BEGIN" THEN 0 ELSE command_time
       /\ NoSession /\ NoDns
       /\ \/ state \in {"DISCONNECTED", "WAIT_TIMEOUT"} /\ command_wait_call_begin(reply)
          \/ state = "WAIT" /\ command_wait_call_ip(command_time', reply)
          \/ state = "WAIT_RELAY" /\ command_wait_call_relay(command_time', reply)

-----------------------------------------------------------------------------
(* Exchanging data.  A call uses p2p_conn whatever the packet says.        *)
DataConn == IF state = "INTERNET" THEN arg.conn ELSE p2p_conn
DataTime == IF Processing = "BEGIN" THEN 0 ELSE command_time
DataSent == IF Processing = "BEGIN" THEN 0 ELSE processing_data[0]

(* What was sent is complete: receive.  The last disjunct is the wait for  *)
(* something to arrive when there was nothing to send.                     *)
DataReceive(reply) ==
    \/ /\ reply = "ok"
       /\ sock' = SockStream(sock, DataConn)
       /\ UNCHANGED connections
    \/ \* the peer has disconnected: on the internet that closes the slot
       /\ state = "INTERNET"
       /\ reply = "ok"
       /\ sock' = SockClose(SockStream(sock, DataConn), DataConn)
       /\ connections' = Disconnected(DataConn)
    \/ /\ reply = "error"
       /\ sock' = SockStream(sock, DataConn)
       /\ UNCHANGED connections
    \/ /\ state = "INTERNET" /\ arg.size = 0 /\ DataTime < 1000
       /\ reply = "pending"
       /\ sock' = SockStream(sock, DataConn)
       /\ UNCHANGED connections

command_data(reply) ==
    \/ /\ \/ state \notin {"CALL", "CALL_RECV", "INTERNET"}
          \/ arg.conn = -1
          \/ ~(DataConn \in Conn /\ connections[DataConn])
       /\ Refuse(reply) /\ UNCHANGED command_time
    \/ /\ state \in {"CALL", "CALL_RECV", "INTERNET"}
       /\ arg.conn # -1
       /\ DataConn \in Conn /\ connections[DataConn]
       /\ command_time' = DataTime
       /\ UNCHANGED state
       /\ NoRelay /\ NoSession /\ NoDns
       /\ \/ \* sending fails
             /\ DataSent < arg.size
             /\ reply = "error"
             /\ sock' = SockStream(sock, DataConn)
             /\ UNCHANGED connections
             /\ NoProc(reply)
          \/ \E n \in 0 .. arg.size - DataSent :
                /\ Proc(reply, "DONE",
                        [processing_data EXCEPT ![0] = DataSent + n],
                        processing_addr)
                /\ \/ /\ DataSent + n < arg.size
                      /\ reply = IF DataTime >= 10000 THEN "error" ELSE "pending"
                      /\ sock' = SockStream(sock, DataConn)
                      /\ UNCHANGED connections
                   \/ /\ DataSent + n = arg.size
                      /\ DataReceive(reply)

-----------------------------------------------------------------------------
(* Internet.                                                               *)
command_ppp_connect(reply) ==
    \/ /\ state # "CALL_ISP" \/ connections[p2p_conn] \/ ~arg.valid
       /\ Refuse(reply) /\ UNCHANGED command_time
    \/ /\ state = "CALL_ISP" /\ ~connections[p2p_conn] /\ arg.valid
       /\ reply = "ok"
       /\ ppp_dns' = arg.dns
       /\ dns2_use' = FALSE
       /\ state' = "INTERNET"
       /\ UNCHANGED <<connections, command_time>>
       /\ NoRelay /\ NoSocket /\ NoSession /\ NoProc(reply)

command_tcp_connect_begin(reply) ==
    /\ command_time' = 0
    /\ \/ \* wrong state or packet, no slot is free, or none can be opened
          Refuse(reply)
       \/ /\ state = "INTERNET" /\ arg.kind # "short"
          /\ reply = "pending"
          /\ \E c \in Conn :
                /\ IsNewConn(c)
                /\ sock' = SockOpen(sock, c, "tcp", "ipv4")
                /\ connections' = Connected(c)
                /\ Proc(reply, "CONNECTING",
                        [processing_data EXCEPT ![0] = c], processing_addr)
          /\ UNCHANGED state
          /\ NoRelay /\ NoSession /\ NoDns

command_tcp_connect_connecting(reply) ==
    LET c == processing_data[0] IN
    /\ \/ /\ command_time >= 60000
          /\ reply = "error"
          /\ sock' = SockClose(sock, c)
          /\ connections' = Disconnected(c)
       \/ /\ command_time < 60000
          /\ reply \in {"pending", "ok"}
          /\ sock' = SockConnect(sock, c, "ipv4", IF reply = "ok" THEN 1 ELSE 0)
          /\ UNCHANGED connections
       \/ /\ command_time < 60000
          /\ reply = "error"
          /\ sock' = SockClose(SockConnect(sock, c, "ipv4", -1), c)
          /\ connections' = Disconnected(c)
    /\ UNCHANGED <<state, command_time>>
    /\ NoRelay /\ NoSession /\ NoDns /\ NoProc(reply)

command_tcp_connect(reply) ==
    \/ Processing = "BEGIN" /\ command_tcp_connect_begin(reply)
    \/ Processing = "CONNECTING" /\ command_tcp_connect_connecting(reply)

(* Mutant: the slot stays in the table.                                    *)
DisconnectKeepsSlot(reply) ==
    /\ state = "INTERNET" /\ arg.conn \in Conn /\ connections[arg.conn]
    /\ reply = "ok"
    /\ sock' = SockClose(sock, arg.conn)
    /\ UNCHANGED <<state, connections, command_time>>
    /\ NoRelay /\ NoSession /\ NoDns /\ NoProc(reply)

command_tcp_disconnect(reply) ==
    \/ /\ state # "INTERNET" \/ ~(arg.conn \in Conn /\ connections[arg.conn])
       /\ Refuse(reply) /\ UNCHANGED command_time
    \/ /\ state = "INTERNET" /\ arg.conn \in Conn /\ connections[arg.conn]
       /\ reply = "ok"
       /\ sock' = SockClose(sock, arg.conn)
       /\ connections' = Disconnected(arg.conn)
       /\ UNCHANGED <<state, command_time>>
       /\ NoRelay /\ NoSession /\ NoDns /\ NoProc(reply)

-----------------------------------------------------------------------------
(* Name resolution.  Addresses 0 and 1 are those of the server tried first *)
(* (from the configuration, then from PPP_CONNECT), 2 and 3 those of the   *)
(* other one.                                                              *)
PppDns(n) == IF n \in ppp_dns THEN "ipv4" ELSE "none"

dns_get_addr(id) ==
    LET i == IF dns2_use THEN (id + 2) % 4 ELSE id IN
    CASE i = 0 -> config_dns[1]
      [] i = 1 -> PppDns(1)
      [] i = 2 -> config_dns[2]
      [] i = 3 -> PppDns(2)

Usable(from) == {i \in from .. 3 : dns_get_addr(i) # "none"}

(* Ask the first usable address from the given one on, with slot c of s.   *)
(* If it fails, the slot is as in s and the table as in table.             *)
dns_request_start(s, table, c, from, reply) ==
    \/ /\ Usable(from) = {}
       /\ reply = "error"
       /\ sock' = s
       /\ connections' = table
       /\ NoProc(reply) /\ UNCHANGED <<net_buffer, command_time>>
    \/ \E id \in Usable(from) :
          LET opened == SockDatagram(SockOpen(s, c, "udp", dns_get_addr(id)),
                                     c, dns_get_addr(id)) IN
          /\ \A i \in Usable(from) : id <= i
          /\ Proc(reply, "CHECK",
                  [processing_data EXCEPT ![0] = c, ![1] = id],
                  dns_get_addr(id))
          /\ \/ \* the socket cannot be opened, or the query not sent
                /\ reply = "error"
                /\ \/ sock' = s /\ UNCHANGED net_buffer
                   \/ sock' = SockClose(opened, c) /\ net_buffer' = "dns"
                /\ connections' = table
                /\ UNCHANGED command_time
             \/ /\ reply = "pending"
                /\ sock' = opened
                /\ net_buffer' = "dns"
                /\ connections' = [table EXCEPT ![c] = TRUE]
                /\ command_time' = 0

command_dns_request_begin(reply) ==
    \/ /\ \/ state # "INTERNET" \/ arg.kind = "ip_zero"
          \/ arg.kind = "name" /\ FreeConn = {}
       /\ Refuse(reply) /\ UNCHANGED command_time
    \/ /\ state = "INTERNET" /\ arg.kind = "ip"
       /\ reply = "ok"
       /\ NoRelay /\ NoSocket /\ NoSession /\ NoTable /\ NoProc(reply) /\ NoDns
       /\ UNCHANGED command_time
    \/ /\ state = "INTERNET" /\ arg.kind = "name"
       /\ \E c \in Conn :
             /\ IsNewConn(c)
             /\ dns_request_start(sock, connections, c, 0, reply)
       /\ UNCHANGED <<state, relay_state, relay_processing, user_number,
                      peer_number, number_fetch_retries, config_dirty>>
       /\ NoSession /\ NoDns

(* Mutant: the preference for the second server is set, not toggled.       *)
DnsSetsSecond(reply) ==
    LET c == processing_data[0]
        id == processing_data[1]
        closed == SockClose(SockDatagram(sock, c, processing_addr), c)
    IN
    /\ \/ /\ id < 2
          /\ dns_request_start(closed, Disconnected(c), c, 2, reply)
          /\ UNCHANGED dns2_use
       \/ /\ reply = "ok"
          /\ sock' = closed
          /\ connections' = Disconnected(c)
          /\ dns2_use' = (id >= 2)
          /\ UNCHANGED <<net_buffer, command_time>>
          /\ NoProc(reply)
    /\ UNCHANGED <<state, relay_state, relay_processing, user_number,
                   peer_number, number_fetch_retries, config_dirty, ppp_dns>>
    /\ NoSession

(* rc of mobile_dns_request_recv: 0 no answer yet, 1 an address, -1 a bad  *)
(* answer.                                                                 *)
command_dns_request_check(reply) ==
    LET c == processing_data[0]
        id == processing_data[1]
        polled == SockDatagram(sock, c, processing_addr)
    IN
    /\ UNCHANGED <<state, relay_state, relay_processing, user_number,
                   peer_number, number_fetch_retries, config_dirty, ppp_dns>>
    /\ NoSession
    /\ \E rc \in {-1, 0, 1} :
          \/ /\ rc = 0 /\ command_time < 3000
             /\ reply = "pending"
             /\ sock' = polled
             /\ UNCHANGED <<connections, net_buffer, command_time, dns2_use>>
             /\ NoProc(reply)
          \/ /\ rc = -1 \/ (rc = 0 /\ command_time >= 3000)
             /\ id < 2
             /\ dns_request_start(SockClose(polled, c), Disconnected(c), c, 2, reply)
             /\ UNCHANGED dns2_use
          \/ /\ rc = -1 \/ (rc = 0 /\ command_time >= 3000)
             /\ id >= 2
             /\ reply = "error"
             /\ sock' = SockClose(polled, c)
             /\ connections' = Disconnected(c)
             /\ UNCHANGED <<net_buffer, command_time, dns2_use>>
             /\ NoProc(reply)
          \/ /\ rc = 1
             /\ reply = "ok"
             /\ sock' = SockClose(polled, c)
             /\ connections' = Disconnected(c)
             /\ dns2_use' = IF id >= 2 THEN ~dns2_use ELSE dns2_use
             /\ UNCHANGED <<net_buffer, command_time>>
             /\ NoProc(reply)

command_dns_request(reply) ==
    \/ Processing = "BEGIN" /\ command_dns_request_begin(reply)
    \/ Processing = "CHECK" /\ command_dns_request_check(reply)

-----------------------------------------------------------------------------
command_change_clock(reply) ==
    \/ /\ arg.kind = "other"
       /\ Refuse(reply) /\ UNCHANGED command_time
    \/ /\ arg.kind # "other"
       /\ reply = "ok"
       /\ mode_32bit' = (arg.kind = "32bit")
       /\ UNCHANGED <<session_started, number_fetch_active, command_time>>
       /\ NoRelay /\ NoSocket /\ NoTable /\ NoProc(reply) /\ NoDns

command_stateless(reply) ==
    /\ reply \in {"ok", "error"}
    /\ NoRelay /\ NoSocket /\ NoSession /\ NoTable /\ NoProc(reply) /\ NoDns
    /\ UNCHANGED command_time

mobile_commands_process(reply) ==
    \/ command = "START"          /\ command_start(reply)
    \/ command = "END"            /\ command_end(reply)
    \/ command = "TEL"            /\ command_tel(reply)
    \/ command = "OFFLINE"        /\ command_offline(reply)
    \/ command = "WAIT_CALL"      /\ command_wait_call(reply)
    \/ command = "DATA"           /\ command_data(reply)
    \/ command = "REINIT"         /\ command_reinit(reply)
    \/ command = "CHANGE_CLOCK"   /\ command_change_clock(reply)
    \/ command = "PPP_CONNECT"    /\ command_ppp_connect(reply)
    \/ command = "PPP_DISCONNECT" /\ command_ppp_disconnect(reply)
    \/ command = "TCP_CONNECT"    /\ command_tcp_connect(reply)
    \/ command = "TCP_DISCONNECT" /\ command_tcp_disconnect(reply)
    \/ command = "DNS_REQUEST"    /\ command_dns_request(reply)
    \/ command \in Stateless      /\ command_stateless(reply)

(* One call of command_handle; a reply ends the packet.                    *)
command_handle(reply) ==
    /\ mobile_commands_process(reply)
    /\ packet_parsed' = (reply = "pending")
    /\ command' = CASE reply = "pending" -> command
                    [] reply = "ok"      -> "RESPONSE"
                    [] reply = "error"   -> "ERROR"
    /\ arg' = IF reply = "pending" THEN arg ELSE NoArgument
    /\ UNCHANGED configVars

(* mobile_commands_reset, on a drop or a stop.                             *)
mobile_commands_reset ==
    /\ IF session_started
       THEN do_end_session
       ELSE UNCHANGED <<sock, state, connections, peer_number, sessionVars>>
    /\ UNCHANGED <<relay_state, relay_processing, net_buffer, user_number,
                   number_fetch_retries, number_fetch_active>>
=============================================================================
