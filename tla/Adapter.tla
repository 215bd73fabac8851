------------------------------- MODULE Adapter -------------------------------
(***************************************************************************)
(* mobile.c: the library as a whole.  Three parties act on it:             *)
(*                                                                         *)
(*  - the main loop (mobile_loop: mobile_actions_get, then                 *)
(*    mobile_actions_process), which runs the command handlers;            *)
(*  - the interrupt handler or emulator thread that calls mobile_transfer  *)
(*    for every byte of the console.  It runs between any two steps of the *)
(*    main loop unless the serial port is disabled.  Here a packet is one  *)
(*    step of it;                                                          *)
(*  - the user, who starts, stops and configures the adapter between two   *)
(*    iterations of the main loop.                                         *)
(*                                                                         *)
(* Time passes between iterations of the loop: a timer holds the last of   *)
(* the limits the code compares it with that it has passed.                *)
(***************************************************************************)
EXTENDS Commands

CONSTANTS
    ConsoleCommands,    \* what the console sends during a session
    OutsideCommands,    \* and outside of one, besides START
    RelaySettings,      \* relay addresses (types) the user may configure
    DnsSettings,        \* DNS addresses (types) the user may configure
    FetchOpenMayFail,   \* whether sock_open may fail for the number fetch
    UserMayWithhold,    \* whether the user withholds actions (mobile.h:460-462)
    FreshStates,        \* what commands.state may hold before a session sets it
    UserMayReinit,      \* whether the user calls mobile_init again
    UserMayInterleave   \* whether the user configures the library between
                        \* mobile_actions_get and mobile_actions_process

ASSUME ConsoleAssumption ==
    /\ ConsoleCommands \subseteq Command
    /\ OutsideCommands \subseteq Command

ASSUME SettingsAssumption ==
    /\ RelaySettings \subseteq AddrType
    /\ DnsSettings \subseteq AddrType

ASSUME UserAssumption ==
    /\ FetchOpenMayFail \in BOOLEAN
    /\ UserMayWithhold \in BOOLEAN
    /\ UserMayReinit \in BOOLEAN
    /\ UserMayInterleave \in BOOLEAN

ASSUME FreshAssumption == FreshStates \subseteq ConnectionState

VARIABLES
    start,              \* adapter->global.start
    global_active,      \* adapter->global.active
    serial_state,       \* adapter->serial.state, see SerialState
    serial_active,      \* adapter->serial.active
    serial_mode_32bit,  \* adapter->serial.mode_32bit
    hardware,           \* what serial_enable/serial_disable made of the port
    serial_time,        \* MOBILE_TIMER_SERIAL: last limit it has passed
    pc,                 \* where the main loop is
    actions             \* the result of mobile_actions_get

serialVars == <<serial_state, serial_active, serial_mode_32bit, hardware>>
commandVars == <<sock, relayVars, sessionVars, state, connections, dnsVars,
                 packetVars, packet_parsed, processing, processing_data,
                 processing_addr, number_fetch_active>>
loopVars == <<start, global_active, pc, actions>>
timeVars == <<serial_time, command_time>>
vars == <<commandVars, configVars, serialVars, loopVars, timeVars>>

(* RECEIVING stands for HEADER to IDLE_CHECK, RESPONDING for               *)
(* RESPONSE_START to RESPONSE_ACKNOWLEDGE.                                 *)
SerialState == {"INIT", "WAITING", "RECEIVING", "RESPONSE_WAITING",
                "RESPONSE_INIT", "RESPONDING"}

SerialTimes == {0, 500, 3000}

(* enum mobile_action, in the order in which mobile_actions_process looks. *)
ActionOrder == <<"DROP_CONNECTION", "RESET", "PROCESS_COMMAND",
                 "RESET_SERIAL", "CHANGE_32BIT_MODE", "WRITE_CONFIG",
                 "INIT_NUMBER">>
Action == {ActionOrder[i] : i \in 1 .. 7}

TypeOK ==
    /\ sock \in [Conn -> Socket]
    /\ RelayTypeOK
    /\ CommandsTypeOK
    /\ start \in BOOLEAN
    /\ global_active \in BOOLEAN
    /\ serial_state \in SerialState
    /\ serial_state = "RESPONSE_WAITING" =>
          command \in Command /\ arg \in Argument(command)
    /\ serial_active \in BOOLEAN
    /\ serial_mode_32bit \in BOOLEAN
    /\ hardware \in {"disabled", "8bit", "32bit"}
    /\ serial_time \in SerialTimes
    /\ pc \in {"idle", "get", "process"}
    /\ actions \subseteq Action

Enabled(mode) == IF mode THEN "32bit" ELSE "8bit"

(* mobile_init on fresh memory: what it does not set is arbitrary.  The    *)
(* configuration is the one mobile_start will load.                        *)
Init ==
    /\ sock = [c \in Conn |-> Closed]
    /\ relay_state = "DISCONNECTED"
    /\ relay_processing = "BEGIN"
    /\ net_buffer = "relay"
    /\ user_number = FALSE
    /\ peer_number = FALSE
    /\ number_fetch_retries = FetchRetries
    /\ config_dirty \in BOOLEAN
    /\ session_started = FALSE
    /\ mode_32bit = FALSE
    /\ state \in FreshStates
    /\ connections \in [Conn -> BOOLEAN]
    /\ dns2_use = FALSE
    /\ ppp_dns = {}
    /\ command = "RESPONSE"
    /\ arg = NoArgument
    /\ packet_parsed = FALSE
    /\ processing = "clobbered"
    /\ processing_data = ClobberedData
    /\ processing_addr = "clobbered"
    /\ command_time = 0
    /\ number_fetch_active = FALSE
    /\ config_relay \in RelaySettings
    /\ config_dns \in [{1, 2} -> DnsSettings]
    /\ start = FALSE
    /\ global_active = FALSE
    /\ serial_state = "INIT"
    /\ serial_active = FALSE
    /\ serial_mode_32bit = FALSE
    /\ hardware = "disabled"
    /\ serial_time = 0
    /\ pc = "idle"
    /\ actions = {}

-----------------------------------------------------------------------------
(* The interrupt handler: mobile_transfer, mobile_transfer_32bit.          *)
Transfer ==
    /\ hardware # "disabled"
    /\ serial_active' = TRUE
    /\ UNCHANGED <<serial_mode_32bit, hardware>>
    /\ UNCHANGED <<configVars, loopVars, timeVars>>

(* A byte that does not end a phase of the exchange.                       *)
TransferByte ==
    /\ Transfer
    /\ serial_state' = IF serial_state = "INIT" THEN "WAITING" ELSE serial_state
    /\ UNCHANGED commandVars

(* Mutant: a packet may start although the mode is to be switched.         *)
StartInWrongMode ==
    /\ Transfer
    /\ serial_state = "WAITING"
    /\ serial_state' = "RECEIVING"
    /\ UNCHANGED commandVars

(* The first bytes of a packet.  They are ignored while the mode is to be  *)
(* switched.  From here on buffer.serial overwrites buffer.commands.  (In  *)
(* 32-bit mode the rest of the word that ends an exchange is not ignored:  *)
(* see Start in Exchange, and Serial.)                                     *)
TransferStart ==
    /\ Transfer
    /\ serial_state = "WAITING" /\ serial_mode_32bit = mode_32bit
    /\ serial_state' = "RECEIVING"
    /\ processing' = "clobbered"
    /\ processing_data' = ClobberedData
    /\ processing_addr' = "clobbered"
    /\ UNCHANGED <<sock, relayVars, sessionVars, state, connections, dnsVars,
                   packetVars, packet_parsed, number_fetch_active>>

(* A packet that is dropped: a bad checksum, acknowledgement or idle byte. *)
TransferDrop ==
    /\ Transfer
    /\ serial_state = "RECEIVING"
    /\ serial_state' = "WAITING"
    /\ UNCHANGED commandVars

(* The rest of a packet.  Whatever the command, it is handed to the main   *)
(* loop: serial.c:80-85 overwrites the WAITING of serial.c:64-67.          *)
TransferPacket ==
    /\ Transfer
    /\ serial_state = "RECEIVING"
    /\ serial_state' = "RESPONSE_WAITING"
    /\ \E cmd \in IF session_started THEN ConsoleCommands
                  ELSE OutsideCommands \cup {"START"} :
          /\ command' = cmd
          /\ arg' \in Argument(cmd)
    /\ UNCHANGED <<sock, relayVars, sessionVars, state, connections, dnsVars,
                   packet_parsed, processing, processing_data, processing_addr,
                   number_fetch_active>>

TransferResponse ==
    /\ Transfer
    /\ serial_state = "RESPONSE_INIT"
    /\ serial_state' = "RESPONDING"
    /\ UNCHANGED commandVars

TransferAcknowledge ==
    /\ Transfer
    /\ serial_state = "RESPONDING"
    /\ serial_state' = "WAITING"
    /\ UNCHANGED commandVars

Interrupt == TransferByte \/ TransferStart \/ TransferDrop \/ TransferPacket
             \/ TransferResponse \/ TransferAcknowledge

-----------------------------------------------------------------------------
(* The main loop.                                                          *)

(* Mutant: the timer is latched at every iteration.                        *)
LatchAlways ==
    /\ pc = "idle" /\ start
    /\ pc' = "get"
    /\ serial_active' = FALSE
    /\ global_active' = (global_active \/ serial_active)
    /\ serial_time' = 0
    /\ UNCHANGED <<commandVars, configVars, command_time, start, actions,
                   serial_state, serial_mode_32bit, hardware>>

(* The first half of mobile_actions_get: note activity on the serial port. *)
ActionsLatch ==
    /\ pc = "idle" /\ start
    /\ pc' = "get"
    /\ serial_active' = FALSE
    /\ global_active' = (global_active \/ serial_active)
    /\ serial_time' = IF serial_active THEN 0 ELSE serial_time
    /\ UNCHANGED <<commandVars, configVars, command_time, start, actions,
                   serial_state, serial_mode_32bit, hardware>>

Due(a) ==
    CASE a = "DROP_CONNECTION" -> session_started /\ serial_time >= 3000
      [] a = "RESET" ->
            global_active /\ ~session_started /\ serial_time >= 3000
      [] a = "PROCESS_COMMAND" -> serial_state = "RESPONSE_WAITING"
      [] a = "RESET_SERIAL" ->
            ~global_active /\ ~session_started /\ serial_time >= 500
      [] a = "CHANGE_32BIT_MODE" ->
            serial_state = "WAITING" /\ mode_32bit # serial_mode_32bit
      [] a = "WRITE_CONFIG" -> config_dirty
      [] a = "INIT_NUMBER" ->
            \/ number_fetch_active
            \/ /\ ~global_active
               /\ number_fetch_retries # 0
               /\ config_relay # "none"

(* The second half: collect what is due.                                   *)
ActionsCollect ==
    /\ pc = "get"
    /\ pc' = "process"
    /\ \/ actions' = {a \in Action : Due(a)}
       \/ /\ UserMayWithhold
          /\ actions' \in SUBSET {a \in Action : Due(a)}
    /\ UNCHANGED <<commandVars, configVars, serialVars, timeVars, start,
                   global_active>>

(* mobile_actions_process does the first of the actions it is given, but   *)
(* passes over a drop or a reset that the session no longer asks for.      *)
Ready == {a \in actions : /\ a = "DROP_CONNECTION" => session_started
                          /\ a = "RESET" => ~session_started}

Turn(a) ==
    /\ pc = "process"
    /\ a \in Ready
    /\ \A i, j \in 1 .. 7 :
          ActionOrder[i] = a /\ ActionOrder[j] \in Ready => i <= j
    /\ pc' = "idle"
    /\ actions' = {}

NothingToDo ==
    /\ pc = "process" /\ Ready = {}
    /\ pc' = "idle"
    /\ actions' = {}
    /\ UNCHANGED <<commandVars, configVars, serialVars, timeVars, start,
                   global_active>>

(* Mutant: a packet in progress is kept.                                   *)
ResetKeepsPacket ==
    /\ mobile_commands_reset
    /\ serial_state' = "INIT"
    /\ serial_mode_32bit' = FALSE
    /\ serial_active' = FALSE
    /\ global_active' = FALSE
    /\ UNCHANGED <<packet_parsed, packetVars, dnsVars, processing,
                   processing_data, processing_addr, command_time, configVars>>

(* Mutant: the mode is reset, but not the exchange.                        *)
ResetKeepsExchange ==
    /\ mobile_commands_reset
    /\ serial_mode_32bit' = FALSE
    /\ global_active' = FALSE
    /\ packet_parsed' = FALSE
    /\ UNCHANGED <<serial_state, serial_active, packetVars, dnsVars, processing,
                   processing_data, processing_addr, command_time, configVars>>

(* mobile_reset, with the port disabled.                                   *)
mobile_reset ==
    /\ mobile_commands_reset
    /\ serial_state' = "INIT"
    /\ serial_mode_32bit' = FALSE
    /\ serial_active' = FALSE
    /\ global_active' = FALSE
    /\ packet_parsed' = FALSE
    /\ UNCHANGED <<packetVars, dnsVars, processing, processing_data,
                   processing_addr, command_time, configVars>>

DropConnection ==
    /\ Turn("DROP_CONNECTION")
    /\ mobile_reset
    /\ serial_time' = 0
    /\ hardware' = Enabled(serial_mode_32bit')
    /\ UNCHANGED <<start, config_dirty>>

(* Keeps the serial state and the packet.                                  *)
Reset ==
    /\ Turn("RESET")
    /\ global_active' = FALSE
    /\ serial_time' = 0
    /\ hardware' = Enabled(serial_mode_32bit)
    /\ UNCHANGED <<commandVars, configVars, command_time, start, serial_state,
                   serial_active, serial_mode_32bit>>

(* Mutant: the response is not handed to the interrupt handler.            *)
ProcessKeepsWaiting ==
    /\ Turn("PROCESS_COMMAND")
    /\ \E reply \in Replies : command_handle(reply)
    /\ UNCHANGED <<start, global_active, serialVars, serial_time>>

ProcessCommand ==
    /\ Turn("PROCESS_COMMAND")
    /\ \/ /\ serial_state # "RESPONSE_WAITING"
          /\ UNCHANGED <<commandVars, configVars, serial_state, command_time>>
       \/ /\ serial_state = "RESPONSE_WAITING"
          /\ \E reply \in Replies :
                /\ command_handle(reply)
                /\ serial_state' = IF reply = "pending" THEN serial_state
                                   ELSE "RESPONSE_INIT"
    /\ UNCHANGED <<start, global_active, serial_active, serial_mode_32bit,
                   hardware, serial_time>>

ResetSerial ==
    /\ Turn("RESET_SERIAL")
    /\ serial_time' = 0
    /\ hardware' = Enabled(serial_mode_32bit)
    /\ UNCHANGED <<commandVars, configVars, command_time, start, global_active,
                   serial_state, serial_active, serial_mode_32bit>>

(* Mutant: the port is not enabled again in the new mode.                  *)
ChangeKeepsPort ==
    /\ Turn("CHANGE_32BIT_MODE")
    /\ serial_mode_32bit' = IF serial_state = "WAITING" THEN mode_32bit
                            ELSE serial_mode_32bit
    /\ UNCHANGED <<commandVars, configVars, timeVars, start, global_active,
                   serial_state, serial_active, hardware>>

Change32BitMode ==
    /\ Turn("CHANGE_32BIT_MODE")
    /\ IF serial_state = "WAITING"
       THEN /\ serial_mode_32bit' = mode_32bit
            /\ hardware' = Enabled(mode_32bit)
       ELSE UNCHANGED <<serial_mode_32bit, hardware>>
    /\ UNCHANGED <<commandVars, configVars, timeVars, start, global_active,
                   serial_state, serial_active>>

WriteConfig ==
    /\ Turn("WRITE_CONFIG")
    /\ config_dirty' = FALSE
    /\ UNCHANGED <<sock, relay_state, relay_processing, net_buffer,
                   user_number, peer_number, number_fetch_retries, sessionVars,
                   state, connections, dnsVars, packetVars, packet_parsed,
                   processing, processing_data, processing_addr,
                   number_fetch_active, configVars, serialVars, timeVars,
                   start, global_active>>

(* number_fetch_handle: open a connection to the relay, and poll it.  The  *)
(* result of sock_open is not looked at (mobile.c:136).                    *)
FetchBegin ==
    /\ ~number_fetch_active
    /\ number_fetch_retries' = IF number_fetch_retries = 0 THEN 0
                               ELSE number_fetch_retries - 1
    /\ relay_processing' = "BEGIN"
    /\ command_time' = 0
    /\ \E rc \in {-1, 0} :
          /\ number_fetch_active' = (rc = 0)
          /\ \/ relay_connect(SockOpen(sock, p2p_conn, "tcp", config_relay),
                              p2p_conn, config_relay, {0}, rc)
             \/ /\ FetchOpenMayFail
                /\ relay_connect(sock, p2p_conn, config_relay, {0}, rc)
    /\ UNCHANGED <<user_number, peer_number, config_dirty>>

FetchPoll ==
    /\ number_fetch_active /\ command_time < 3000
    /\ \E rc \in {-1, 0, 1} :
          /\ mobile_relay_proc(p2p_conn, config_relay, "number", {0}, rc)
          /\ number_fetch_active' = (rc = 0)
    /\ UNCHANGED command_time

FetchTimeout ==
    /\ number_fetch_active /\ command_time >= 3000
    /\ sock' = SockClose(sock, p2p_conn)
    /\ number_fetch_active' = FALSE
    /\ UNCHANGED <<relayVars, command_time>>

InitNumber ==
    /\ Turn("INIT_NUMBER")
    /\ FetchBegin \/ FetchPoll \/ FetchTimeout
    /\ UNCHANGED <<sessionVars, state, connections, dnsVars, packetVars,
                   packet_parsed, processing, processing_data, processing_addr,
                   configVars, serialVars, serial_time, start, global_active>>

MainLoop == ActionsLatch \/ ActionsCollect \/ NothingToDo \/ DropConnection
            \/ Reset \/ ProcessCommand \/ ResetSerial \/ Change32BitMode
            \/ WriteConfig \/ InitNumber

-----------------------------------------------------------------------------
(* The user, between two iterations of the loop or, for the settings, also *)
(* between mobile_actions_get and mobile_actions_process.                  *)
mobile_start ==
    /\ pc = "idle" /\ ~start
    /\ start' = TRUE
    /\ serial_time' = 0
    /\ hardware' = Enabled(serial_mode_32bit)
    /\ UNCHANGED <<commandVars, configVars, command_time, global_active, pc,
                   actions, serial_state, serial_active, serial_mode_32bit>>

(* A number fetch in progress keeps its socket.                            *)
mobile_stop ==
    /\ pc = "idle" /\ start
    /\ start' = FALSE
    /\ hardware' = "disabled"
    /\ mobile_reset
    /\ config_dirty' = FALSE
    /\ UNCHANGED <<serial_time, pc, actions>>

(* mobile_number_fetch_reset.                                              *)
NumberFetchReset ==
    /\ sock' = FetchCancelled(sock)
    /\ number_fetch_active' = FALSE
    /\ user_number' = (user_number /\ number_fetch_retries # 0)
    /\ number_fetch_retries' = FetchRetries

Configure ==
    /\ pc = "idle" \/ (UserMayInterleave /\ pc = "process")
    /\ config_dirty' = TRUE
    /\ UNCHANGED <<relay_state, relay_processing, net_buffer, peer_number,
                   sessionVars, state, connections, dnsVars, packetVars,
                   packet_parsed, processing, processing_data, processing_addr,
                   serialVars, loopVars, timeVars>>

mobile_config_set_relay ==
    /\ Configure
    /\ config_relay' \in RelaySettings
    /\ UNCHANGED config_dns
    /\ NumberFetchReset

mobile_config_set_relay_token ==
    /\ Configure
    /\ UNCHANGED configVars
    /\ NumberFetchReset

mobile_config_set_dns ==
    /\ Configure
    /\ \E n \in {1, 2}, a \in DnsSettings :
          config_dns' = [config_dns EXCEPT ![n] = a]
    /\ UNCHANGED <<sock, number_fetch_active, user_number,
                   number_fetch_retries, config_relay>>

(* "Can be used to reset the library as well" (mobile.h:574).              *)
mobile_init ==
    /\ pc = "idle" /\ ~start /\ UserMayReinit
    /\ number_fetch_active' = FALSE
    /\ number_fetch_retries' = FetchRetries
    /\ config_dirty' = TRUE
    /\ config_relay' \in RelaySettings      \* loaded again by mobile_start
    /\ config_dns' \in [{1, 2} -> DnsSettings]
    /\ packet_parsed' = FALSE
    /\ session_started' = FALSE
    /\ mode_32bit' = FALSE
    /\ serial_state' = "INIT"
    /\ serial_mode_32bit' = FALSE
    /\ serial_active' = FALSE
    /\ global_active' = FALSE
    /\ UNCHANGED <<sock, relay_state, relay_processing, net_buffer, user_number,
                   peer_number, state, connections, dnsVars, packetVars,
                   processing, processing_data, processing_addr, hardware,
                   start, pc, actions, timeVars>>

User == mobile_start \/ mobile_stop \/ mobile_config_set_relay
        \/ mobile_config_set_relay_token \/ mobile_config_set_dns \/ mobile_init

-----------------------------------------------------------------------------
(* A timer passes the next of its limits.  A timer that the code latches   *)
(* before it looks at it again stands still.                               *)
NextTime(times, time, after) ==
    /\ after \in times /\ after > time
    /\ \A t \in times : t > time => after <= t

TickSerial ==
    /\ pc = "idle" /\ start
    /\ \E t \in SerialTimes : NextTime(SerialTimes, serial_time, t) /\ serial_time' = t
    /\ UNCHANGED <<commandVars, configVars, serialVars, loopVars, command_time>>

TickCommand ==
    /\ pc = "idle"
    /\ packet_parsed \/ number_fetch_active \/ state = "WAIT_TIMEOUT"
    /\ \E t \in CommandTimes : NextTime(CommandTimes, command_time, t) /\ command_time' = t
    /\ UNCHANGED <<commandVars, configVars, serialVars, loopVars, serial_time>>

Next == Interrupt \/ MainLoop \/ User \/ TickSerial \/ TickCommand

Spec == Init /\ [][Next]_vars

(* mobile_loop is called again and again (mobile.h:486), time passes       *)
(* between its iterations, and the console ends an exchange it began.      *)
Fairness ==
    /\ WF_vars(MainLoop)
    /\ SF_vars(TickSerial)
    /\ SF_vars(TickCommand)
    /\ WF_vars(TransferResponse)
    /\ WF_vars(TransferAcknowledge)

FairSpec == Spec /\ Fairness

-----------------------------------------------------------------------------
(* Properties.                                                             *)

(* The number fetch and a session share slot 0, the relay state and the    *)
(* command timer; they never run at the same time.                         *)
FetchOutsideSession == ~(session_started /\ number_fetch_active)

(* Which procedure of relay.c will be polled next.                         *)
RelayLive(goal) ==
    CASE goal = "number" -> number_fetch_active
      [] goal = "wait"   -> session_started /\ state = "WAIT_RELAY"
      [] goal = "call"   -> packet_parsed /\ command = "TEL" /\ processing = "RELAY"

(* relay.c:437, 490, 534: a poll of the relay never reaches the "default"  *)
(* of a switch, whichever command, session or number fetch used the relay  *)
(* state before.                                                           *)
RelayConsistent == \A goal \in Goal : RelayLive(goal) => RelayInStep(goal)

(* mobile_data.h:38-41: the relay and the DNS client share one buffer, and *)
(* a wait for a call keeps its half-received answer there from one command *)
(* to the next.  Nobody writes to it while the other one depends on it.    *)
SharedBuffer ==
    /\ \A goal \in Goal :
          RelayLive(goal) /\ relay_state \in Receiving => net_buffer = "relay"
    /\ packet_parsed /\ command = "DNS_REQUEST" /\ processing = "CHECK" =>
          net_buffer = "dns"

(* The number of a peer that was shown to the user is withdrawn when the   *)
(* call ends, however it ends.                                             *)
PeerNumberInCall ==
    peer_number => session_started /\ (state \in InCall \cup {"INTERNET"})

(* mobile.c:113-122, config.c:274-302: a change of the relay or the token  *)
(* withdraws the number that the user was shown, and nothing else does: not*)
(* the end of a session, a drop, a stop or a fetch that fails.  The code   *)
(* does not keep whether a number is shown, but takes "no retries left" for*)
(* it, and retries are counted by fetches, calls and waits.                *)
SettingsOfNumber == mobile_config_set_relay \/ mobile_config_set_relay_token

NumberFollowsSettings ==
    [][/\ SettingsOfNumber => ~user_number'
       /\ user_number /\ ~user_number' => SettingsOfNumber]_vars

(* A number that is shown always goes with no retries left.                *)
UserNumberSettled == user_number => number_fetch_retries = 0

(* A packet in progress is only ever resumed for the exchange it came in:  *)
(* a reset in the middle of a command forgets it.                          *)
ParsedPacketWaits == packet_parsed => serial_state = "RESPONSE_WAITING"

(* mobile.h:534-535: the implementation was told the mode that             *)
(* mobile_transfer assumes.                                                *)
PortModeAgrees ==
    hardware # "disabled" => hardware = Enabled(serial_mode_32bit)

(* The mode of the serial port is never changed in the middle of a packet: *)
(* only while nothing is exchanged, or together with a reset.              *)
ModeSwitchIdle ==
    [][serial_mode_32bit' # serial_mode_32bit =>
          serial_state = "WAITING" \/ serial_state' = "INIT"]_vars

(* The number of the DNS address, without the order of preference.         *)
DnsServer(id) == IF dns2_use THEN (id + 2) % 4 ELSE id

DnsAnswered ==
    /\ command = "DNS_REQUEST" /\ packet_parsed /\ processing = "CHECK"
    /\ command' = "RESPONSE"

LoggedIn == state # "INTERNET" /\ state' = "INTERNET"

(* commands.c:840, 1015, 1132: a server that answers is one of those the   *)
(* next request tries first, and until the next login no other event       *)
(* changes the order: not a server that fails, a session that ends or a    *)
(* change of the configuration.                                            *)
DnsSticky ==
    [][/\ DnsAnswered => DnsServer(processing_data[1])
                             \in {DnsServer(0)', DnsServer(1)'}
       /\ dns2_use' # dns2_use => DnsAnswered \/ LoggedIn]_vars

(* Every packet is answered (or forgotten by a reset): no command can hang *)
(* for ever, whatever the network does.                                    *)
CommandAnswered ==
    (serial_state = "RESPONSE_WAITING" /\ start)
        ~> serial_state # "RESPONSE_WAITING"

(* A console that falls silent loses its session.                          *)
SilentSessionDropped ==
    session_started ~> (~session_started \/ serial_active)

(* A change of mode that was acknowledged takes effect.                    *)
ModeSwitchCompletes ==
    (start /\ mode_32bit # serial_mode_32bit)
        ~> (mode_32bit = serial_mode_32bit)

(* serial.h:12-30: whatever the commands and the user do, the interrupt    *)
(* handler and the main loop keep to the exchange of packets of Exchange,  *)
(* as the bytes of Serial do.                                              *)
ExchangeOf == INSTANCE Exchange WITH phase <- serial_state,
                                     port_mode <- serial_mode_32bit,
                                     wanted_mode <- mode_32bit

ImplementsExchange == ExchangeOf!Spec

-----------------------------------------------------------------------------
(* Why the socket contract holds: what every slot holds, by who uses it.   *)

(* A console that opens a session before it sends anything else, a user    *)
(* who calls mobile_loop and initialises the library once, and sockets that*)
(* can be opened when the number fetch takes it for granted.               *)
OrderlyUse ==
    /\ OutsideCommands = {}
    /\ ~FetchOpenMayFail
    /\ ~UserMayWithhold
    /\ ~UserMayReinit
    /\ ~UserMayInterleave

Pending(cmd) == packet_parsed /\ command = cmd

(* Slot 0 belongs to a procedure of relay.c that was given address addr.   *)
RelaySlot(goal, addr) ==
    /\ RelayInStep(goal)
    /\ IF relay_state \in {"DISCONNECTED", "RECV_CONNECT"}
       THEN addr \in HostType /\ sock[p2p_conn] = Slot("tcp", addr)
       ELSE sock[p2p_conn].phase = "connected"

(* A command that waits for its next poll.                                 *)
PendingOK ==
    packet_parsed =>
        /\ serial_state = "RESPONSE_WAITING"
        /\ session_started
        /\ \/ /\ command = "TEL" /\ state = "DISCONNECTED"
              /\ processing \in {"IP", "RELAY"}
              /\ processing = "IP" =>
                    /\ processing_addr = "ipv4"
                    /\ sock[p2p_conn] = Slot("tcp", "ipv4")
              /\ processing = "RELAY" => RelaySlot("call", processing_addr)
           \/ /\ command = "WAIT_CALL"
              /\ \/ processing = "BEGIN" /\ state = "WAIT_TIMEOUT"
                 \/ processing = "DONE" /\ state \in {"WAIT", "WAIT_RELAY"}
           \/ /\ command = "DATA" /\ processing = "DONE"
              /\ state \in {"CALL", "CALL_RECV", "INTERNET"}
              /\ processing_data[0] <= arg.size
           \/ /\ command = "TCP_CONNECT" /\ processing = "CONNECTING"
              /\ state = "INTERNET"
              /\ processing_data[0] \in Conn
              /\ sock[processing_data[0]] = Slot("tcp", "ipv4")
           \/ /\ command = "DNS_REQUEST" /\ processing = "CHECK"
              /\ state = "INTERNET"
              /\ processing_data[0] \in Conn /\ processing_data[1] \in 0 .. 3
              /\ processing_addr \in HostType
              /\ sock[processing_data[0]] = Slot("udp", processing_addr)

(* The slots of a session.                                                 *)
SessionSlots ==
    session_started =>
        /\ \A c \in Conn : connections[c] <=> sock[c] # Closed
        /\ \A c \in Conn : connections[c] => c = p2p_conn \/ state = "INTERNET"
        /\ state \in {"WAIT_TIMEOUT", "CALL_ISP"} => sock[p2p_conn] = Closed
        /\ state = "DISCONNECTED" =>
              sock[p2p_conn] = Closed \/ Pending("TEL")
        /\ state = "WAIT" => sock[p2p_conn].phase = "listening"
        /\ state = "WAIT_RELAY" =>
              /\ RelaySlot("wait", processing_addr)
              /\ relay_state = "RECV_WAIT" \/ Pending("WAIT_CALL")
        /\ state \in {"CALL", "CALL_RECV"} =>
              sock[p2p_conn].phase = "connected"
        /\ state = "INTERNET" =>
              \A c \in Conn :
                  \/ sock[c] = Closed
                  \/ sock[c].phase = "connected"
                  \/ /\ Pending("TCP_CONNECT") \/ Pending("DNS_REQUEST")
                     /\ c = processing_data[0]

(* The slots between two sessions.                                         *)
FetchSlots ==
    /\ ~session_started =>
          \A c \in Conn :
              sock[c] = Closed \/ (c = p2p_conn /\ number_fetch_active)
    /\ number_fetch_active =>
          /\ ~session_started
          /\ RelaySlot("number", config_relay)
          /\ config_relay # "none"

(* Why a number fetch and a session never meet: a START that waits to be   *)
(* processed was noticed, or will be before the next fetch is considered.  *)
ActivityNoticed ==
    /\ session_started => global_active \/ (pc = "idle" /\ serial_active)
    /\ pc = "process" /\ "INIT_NUMBER" \in actions =>
          /\ ~session_started
          /\ config_relay # "none"
    /\ ~session_started /\ serial_state = "RESPONSE_WAITING" =>
          /\ command = "START"
          /\ \/ serial_active
             \/ pc = "get" /\ global_active /\ serial_time = 0
             \/ /\ pc = "process" /\ global_active
                /\ "PROCESS_COMMAND" \in actions
                /\ "RESET" \notin actions

(* mobile.h:246-249, commands.c:131, mobile.c:105: a slot is open exactly  *)
(* while its user's progress says so, through every interleaving of packet,*)
(* poll, drop, stop and number fetch.  This is the inductive invariant from*)
(* which the socket contract is proved.                                    *)
SlotDiscipline ==
    SocketContract /\ PendingOK /\ SessionSlots /\ FetchSlots /\ ActivityNoticed

=============================================================================
