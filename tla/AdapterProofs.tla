---------------------------- MODULE AdapterProofs ----------------------------
(***************************************************************************)
(* Proofs about Adapter: for any number of connections, any set of console *)
(* commands, any settings and any number of retries.  In three parts: what *)
(* the variables are and the sessions, calls and logins; the socket        *)
(* contract; the numbers, the shared buffer and the DNS server.            *)
(***************************************************************************)
EXTENDS Adapter, TLAPS

-----------------------------------------------------------------------------
(* The socket callbacks return slots.                                      *)
LEMMA SlotFacts ==
    /\ Closed \in Socket /\ Misused \in Socket
    /\ \A phase \in {"tcp", "udp", "listening", "connected"} : \A addr :
          Slot(phase, addr) \in Socket <=> addr \in HostType
    /\ \A x \in Socket : x.phase \in {"tcp", "listening"} => x.addr \in HostType
  <1>1. Closed \in Socket /\ Misused \in Socket
    BY DEF Socket
  <1>2. ASSUME NEW phase \in {"tcp", "udp", "listening", "connected"}, NEW addr
        PROVE  Slot(phase, addr) \in Socket <=> addr \in HostType
    BY DEF Socket, Slot, Closed, Misused
  <1>3. ASSUME NEW x \in Socket, x.phase \in {"tcp", "listening"}
        PROVE  x.addr \in HostType
    BY <1>3 DEF Socket, Slot, Closed, Misused
  <1> QED BY <1>1, <1>2, <1>3

LEMMA SockOpenType ==
    ASSUME NEW s \in [Conn -> Socket], NEW c, NEW type \in {"tcp", "udp"}, NEW addr
    PROVE  SockOpen(s, c, type, addr) \in [Conn -> Socket]
  BY SlotFacts DEF SockOpen

LEMMA SockCloseType ==
    ASSUME NEW s \in [Conn -> Socket], NEW c
    PROVE  SockClose(s, c) \in [Conn -> Socket]
  BY SlotFacts DEF SockClose

LEMMA SockConnectType ==
    ASSUME NEW s \in [Conn -> Socket], NEW c, NEW addr, NEW rc
    PROVE  SockConnect(s, c, addr, rc) \in [Conn -> Socket]
  BY SlotFacts DEF SockConnect

LEMMA SockListenType ==
    ASSUME NEW s \in [Conn -> Socket], NEW c, NEW rc
    PROVE  SockListen(s, c, rc) \in [Conn -> Socket]
  BY SlotFacts DEF SockListen

LEMMA SockAcceptType ==
    ASSUME NEW s \in [Conn -> Socket], NEW c, NEW rc
    PROVE  SockAccept(s, c, rc) \in [Conn -> Socket]
  BY SlotFacts DEF SockAccept

LEMMA SockStreamType ==
    ASSUME NEW s \in [Conn -> Socket], NEW c
    PROVE  SockStream(s, c) \in [Conn -> Socket]
  BY SlotFacts DEF SockStream

LEMMA SockDatagramType ==
    ASSUME NEW s \in [Conn -> Socket], NEW c, NEW addr
    PROVE  SockDatagram(s, c, addr) \in [Conn -> Socket]
  BY SlotFacts DEF SockDatagram

LEMMA SockCloseAllType ==
    ASSUME NEW s \in [Conn -> Socket], NEW C
    PROVE  SockCloseAll(s, C) \in [Conn -> Socket]
  BY SockCloseType DEF SockCloseAll

-----------------------------------------------------------------------------
(* Type correctness, one handler at a time.                                *)
HandlerTypes ==
    /\ sock \in [Conn -> Socket]
    /\ RelayTypeOK
    /\ session_started \in BOOLEAN
    /\ mode_32bit \in BOOLEAN
    /\ state \in ConnectionState
    /\ connections \in [Conn -> BOOLEAN]
    /\ dns2_use \in BOOLEAN
    /\ ppp_dns \in SUBSET {1, 2}
    /\ processing \in ProcessingStep
    /\ processing_data \in [{0, 1} -> Nat]
    /\ processing_addr \in Address
    /\ command_time \in CommandTimes
    /\ number_fetch_active \in BOOLEAN

LEMMA ConnFacts == p2p_conn \in Conn /\ Conn \subseteq Nat
  BY MaxConnectionsAssumption DEF p2p_conn, Conn

LEMMA SettleType ==
    ASSUME NEW s \in [Conn -> Socket], NEW c, NEW rc, NEW keep
    PROVE  Settle(s, c, rc, keep) \in [Conn -> Socket]
  BY SockCloseType DEF Settle

LEMMA RelayConnectTypes ==
    ASSUME RelayTypeOK, NEW s \in [Conn -> Socket],
           NEW c, NEW server, NEW keep, NEW rc,
           relay_connect(s, c, server, keep, rc)
    PROVE  /\ sock' \in [Conn -> Socket]
           /\ relay_state' \in RelayState
           /\ net_buffer' \in {"relay", "dns"}
  <1>1. /\ SockConnect(s, c, server, rc) \in [Conn -> Socket]
        /\ SockConnect(s, c, server, 1) \in [Conn -> Socket]
    BY SockConnectType
  <1>2. SockStream(SockConnect(s, c, server, 1), c) \in [Conn -> Socket]
    BY <1>1, SockStreamType
  <1> QED BY <1>1, <1>2, SettleType DEF relay_connect, RelayTypeOK, RelayState

LEMMA RelayProcTypes ==
    ASSUME sock \in [Conn -> Socket], RelayTypeOK,
           NEW c, NEW server, NEW goal \in Goal, NEW keep, NEW rc \in {-1, 0, 1, 2},
           mobile_relay_proc(c, server, goal, keep, rc)
    PROVE  sock' \in [Conn -> Socket] /\ RelayTypeOK'
  <1>1. Settle(SockStream(sock, c), c, rc, keep) \in [Conn -> Socket]
    BY SockStreamType, SettleType
  <1>2. CASE /\ relay_connect(sock, c, server, keep, rc)
             /\ UNCHANGED <<relay_processing, user_number, peer_number,
                            number_fetch_retries, config_dirty>>
    BY <1>2, RelayConnectTypes DEF RelayTypeOK
  <1>3. CASE relay_handshake(c, goal, keep, rc)
    BY <1>1, <1>3 DEF relay_handshake, RelayTypeOK, RelayState
  <1>4. CASE relay_get_number(c, goal, keep, rc)
    <2>1. sock' \in [Conn -> Socket]
      BY <1>1, <1>4 DEF relay_get_number
    <2>2. number_fetch_retries' \in 0 .. FetchRetries
      BY <1>4, FetchRetriesAssumption DEF relay_get_number, RelayTypeOK
    <2>3. user_number' \in BOOLEAN /\ peer_number' \in BOOLEAN /\ config_dirty' \in BOOLEAN
      BY <1>4 DEF relay_get_number, RelayTypeOK
    <2>4. relay_state' \in RelayState
      BY <1>4 DEF relay_get_number, RelayTypeOK, RelayState
    <2>5. /\ relay_processing' \in {"BEGIN", "GET_NUMBER", "FINAL"}
          /\ net_buffer' \in {"relay", "dns"}
      BY <1>4 DEF relay_get_number, RelayTypeOK
    <2> QED BY <2>1, <2>2, <2>3, <2>4, <2>5 DEF RelayTypeOK
  <1>5. CASE relay_answer(c, goal, keep, rc)
    BY <1>1, <1>5 DEF relay_answer, RelayTypeOK, RelayState
  <1> QED BY <1>2, <1>3, <1>4, <1>5 DEF mobile_relay_proc

LEMMA ProcTypes ==
    ASSUME HandlerTypes, NEW reply \in Replies, NEW p \in ProcessingStep,
           NEW data \in [{0, 1} -> Nat], NEW addr \in Address,
           Proc(reply, p, data, addr)
    PROVE  /\ processing' \in ProcessingStep
           /\ processing_data' \in [{0, 1} -> Nat]
           /\ processing_addr' \in Address
  <1>1. ClobberedData \in [{0, 1} -> Nat]
    BY DEF ClobberedData
  <1>2. "clobbered" \in Address /\ "clobbered" \in ProcessingStep
    BY DEF Address, ProcessingStep
  <1> QED BY <1>1, <1>2 DEF Proc

LEMMA NoProcTypes ==
    ASSUME HandlerTypes, packet_parsed \in BOOLEAN, NEW reply \in Replies, NoProc(reply)
    PROVE  /\ processing' \in ProcessingStep
           /\ processing_data' \in [{0, 1} -> Nat]
           /\ processing_addr' \in Address
  <1>1. Processing \in ProcessingStep
    BY DEF Processing, HandlerTypes, ProcessingStep
  <1> QED BY <1>1, ProcTypes DEF NoProc, HandlerTypes

LEMMA RefuseTypes ==
    ASSUME HandlerTypes, packet_parsed \in BOOLEAN, NEW reply \in Replies,
           Refuse(reply), command_time' \in CommandTimes
    PROVE  HandlerTypes'
  BY NoProcTypes DEF Refuse, HandlerTypes, NoRelay, NoSocket, NoSession,
     NoTable, NoDns, RelayTypeOK, relayVars, sessionVars, dnsVars

(* The conjuncts of HandlerTypes that a handler leaves alone.              *)
LEMMA KeepTypes ==
    ASSUME HandlerTypes
    PROVE  /\ NoRelay => RelayTypeOK'
           /\ NoSocket => sock' \in [Conn -> Socket]
           /\ NoSession => /\ session_started' \in BOOLEAN
                           /\ mode_32bit' \in BOOLEAN
                           /\ number_fetch_active' \in BOOLEAN
           /\ NoTable => /\ state' \in ConnectionState
                         /\ connections' \in [Conn -> BOOLEAN]
           /\ NoDns => dns2_use' \in BOOLEAN /\ ppp_dns' \in SUBSET {1, 2}
  BY DEF HandlerTypes, NoRelay, NoSocket, NoSession, NoTable, NoDns,
     RelayTypeOK, relayVars, sessionVars, dnsVars

LEMMA TableTypes ==
    ASSUME HandlerTypes, NEW c
    PROVE  /\ Connected(c) \in [Conn -> BOOLEAN]
           /\ Disconnected(c) \in [Conn -> BOOLEAN]
  BY DEF HandlerTypes, Connected, Disconnected

LEMMA EndTypes ==
    ASSUME HandlerTypes
    PROVE  /\ EndedSock \in [Conn -> Socket]
           /\ SockCloseAll(sock, HangUp) \in [Conn -> Socket]
           /\ FetchCancelled(sock) \in [Conn -> Socket]
           /\ FetchCancelled(EndedSock) \in [Conn -> Socket]
           /\ TelSock \in [Conn -> Socket]
  <1>1. sock \in [Conn -> Socket]
    BY DEF HandlerTypes
  <1>2. EndedSock \in [Conn -> Socket]
    BY <1>1, SockCloseAllType DEF EndedSock
  <1>3. SockCloseAll(sock, HangUp) \in [Conn -> Socket]
    BY <1>1, SockCloseAllType
  <1>4. FetchCancelled(sock) \in [Conn -> Socket] /\ FetchCancelled(EndedSock) \in [Conn -> Socket]
    BY <1>1, <1>2, SockCloseType DEF FetchCancelled
  <1>5. TelSock \in [Conn -> Socket]
    BY <1>1, SockCloseType DEF TelSock
  <1> QED BY <1>2, <1>3, <1>4, <1>5

LEMMA AfterOfflineTypes ==
    ASSUME HandlerTypes, AfterOffline
    PROVE  /\ connections' \in [Conn -> BOOLEAN]
           /\ state' \in ConnectionState
           /\ peer_number' \in BOOLEAN
  <1>1. connections' \in [Conn -> BOOLEAN]
    BY DEF AfterOffline
  <1>2. state' \in ConnectionState
    BY DEF AfterOffline, HandlerTypes, ConnectionState
  <1>3. peer_number' \in BOOLEAN
    BY DEF AfterOffline
  <1> QED BY <1>1, <1>2, <1>3

LEMMA StartTypes ==
    ASSUME HandlerTypes, packet_parsed \in BOOLEAN, NEW reply \in Replies,
           command_start(reply)
    PROVE  HandlerTypes'
  <1>1. CASE Refuse(reply) /\ UNCHANGED command_time
    BY <1>1, RefuseTypes DEF HandlerTypes
  <1>2. CASE ~Refuse(reply)
    <2>1. do_start_session(sock) /\ UNCHANGED mode_32bit /\ NoRelay
          /\ NoProc(reply) /\ NoDns /\ UNCHANGED command_time
      BY <1>2 DEF command_start
    <2>2. sock' \in [Conn -> Socket]
      BY <2>1, EndTypes DEF do_start_session
    <2>3. /\ session_started' \in BOOLEAN /\ number_fetch_active' \in BOOLEAN
          /\ state' \in ConnectionState
          /\ connections' \in [Conn -> BOOLEAN]
      BY <2>1 DEF do_start_session, ConnectionState
    <2> QED BY <2>1, <2>2, <2>3, KeepTypes, NoProcTypes DEF HandlerTypes
  <1> QED BY <1>1, <1>2 DEF command_start

LEMMA EndSessionTypes ==
    ASSUME HandlerTypes, packet_parsed \in BOOLEAN, NEW reply \in Replies,
           command_end(reply)
    PROVE  HandlerTypes'
  <1>1. sock' \in [Conn -> Socket]
    BY EndTypes DEF command_end, do_end_session
  <1>2. /\ connections' \in [Conn -> BOOLEAN] /\ state' \in ConnectionState
        /\ peer_number' \in BOOLEAN
    BY AfterOfflineTypes DEF command_end, do_end_session
  <1>3. RelayTypeOK'
    BY <1>2 DEF command_end, HandlerTypes, RelayTypeOK
  <1>4. session_started' \in BOOLEAN /\ mode_32bit' \in BOOLEAN
    BY DEF command_end, do_end_session
  <1> QED BY <1>1, <1>2, <1>3, <1>4, KeepTypes, NoProcTypes
      DEF command_end, HandlerTypes

LEMMA ReinitTypes ==
    ASSUME HandlerTypes, packet_parsed \in BOOLEAN, NEW reply \in Replies,
           command_reinit(reply)
    PROVE  HandlerTypes'
  <1>1. sock' \in [Conn -> Socket]
    BY EndTypes DEF command_reinit, do_start_session
  <1>2. /\ connections' \in [Conn -> BOOLEAN] /\ state' \in ConnectionState
        /\ session_started' \in BOOLEAN /\ number_fetch_active' \in BOOLEAN
    BY DEF command_reinit, do_start_session, ConnectionState
  <1>3. peer_number' \in BOOLEAN
    BY DEF command_reinit
  <1>4. RelayTypeOK'
    BY <1>3 DEF command_reinit, HandlerTypes, RelayTypeOK
  <1>5. mode_32bit' \in BOOLEAN
    BY DEF command_reinit
  <1> QED BY <1>1, <1>2, <1>4, <1>5, KeepTypes, NoProcTypes
      DEF command_reinit, HandlerTypes

LEMMA OfflineTypes ==
    ASSUME HandlerTypes, packet_parsed \in BOOLEAN, NEW reply \in Replies,
           command_offline(reply)
    PROVE  HandlerTypes'
  <1>1. CASE Refuse(reply) /\ UNCHANGED command_time
    BY <1>1, RefuseTypes DEF HandlerTypes
  <1>2. CASE ~Refuse(reply)
    <2>1. AfterOffline /\ sock' = SockCloseAll(sock, HangUp)
          /\ UNCHANGED <<relay_state, relay_processing, net_buffer, user_number,
                         number_fetch_retries, config_dirty>>
          /\ NoSession /\ NoProc(reply) /\ NoDns /\ UNCHANGED command_time
      BY <1>2 DEF command_offline
    <2>2. /\ connections' \in [Conn -> BOOLEAN] /\ state' \in ConnectionState
          /\ peer_number' \in BOOLEAN
      BY <2>1, AfterOfflineTypes
    <2>3. RelayTypeOK'
      BY <2>1, <2>2 DEF HandlerTypes, RelayTypeOK
    <2> QED BY <2>1, <2>2, <2>3, EndTypes, KeepTypes, NoProcTypes DEF HandlerTypes
  <1> QED BY <1>1, <1>2 DEF command_offline

LEMMA PppDisconnectTypes ==
    ASSUME HandlerTypes, packet_parsed \in BOOLEAN, NEW reply \in Replies,
           command_ppp_disconnect(reply)
    PROVE  HandlerTypes'
  <1>1. CASE Refuse(reply) /\ UNCHANGED command_time
    BY <1>1, RefuseTypes DEF HandlerTypes
  <1>2. CASE ~Refuse(reply)
    <2>1. /\ connections' \in [Conn -> BOOLEAN] /\ state' \in ConnectionState
      BY <1>2 DEF command_ppp_disconnect, ConnectionState
    <2> QED BY <1>2, <2>1, EndTypes, KeepTypes, NoProcTypes
        DEF command_ppp_disconnect, HandlerTypes
  <1> QED BY <1>1, <1>2 DEF command_ppp_disconnect

LEMMA TelOpenTypes ==
    ASSUME HandlerTypes, NEW reply \in Replies, NEW addr \in AddrType,
           NEW next \in {"IP", "RELAY"}, TelOpen(addr, next, reply)
    PROVE  /\ sock' \in [Conn -> Socket]
           /\ state' \in ConnectionState
           /\ connections' \in [Conn -> BOOLEAN]
           /\ processing' \in ProcessingStep
           /\ processing_data' \in [{0, 1} -> Nat]
           /\ processing_addr' \in Address
  <1>1. SockOpen(TelSock, p2p_conn, "tcp", addr) \in [Conn -> Socket]
    BY EndTypes, SockOpenType
  <1>2. sock' \in [Conn -> Socket]
    BY <1>1, EndTypes DEF TelOpen
  <1>3. state' \in ConnectionState /\ connections' \in [Conn -> BOOLEAN]
    BY TableTypes DEF TelOpen, ConnectionState
  <1>4. /\ addr \in Address /\ next \in ProcessingStep
        /\ processing_data \in [{0, 1} -> Nat]
    BY DEF Address, HandlerTypes, ProcessingStep
  <1>5. Proc(reply, next, processing_data, addr)
    BY DEF TelOpen
  <1> QED BY <1>2, <1>3, <1>4, <1>5, ProcTypes

LEMMA TelBeginTypes ==
    ASSUME HandlerTypes, packet_parsed \in BOOLEAN, config_relay \in AddrType,
           NEW reply \in Replies, command_tel_begin(reply), command_time' = 0
    PROVE  HandlerTypes'
  <1>0. command_time' \in CommandTimes
    BY DEF CommandTimes
  <1>1. CASE Refuse(reply)
    BY <1>0, <1>1, RefuseTypes
  <1>2. CASE /\ sock' = TelSock
             /\ connections' = Disconnected(p2p_conn)
             /\ state' = "DISCONNECTED"
             /\ NoRelay /\ NoProc(reply) /\ NoSession /\ NoDns
    BY <1>0, <1>2, EndTypes, TableTypes, KeepTypes, NoProcTypes
       DEF HandlerTypes, ConnectionState
  <1>3. CASE /\ sock' = TelSock
             /\ connections' = Disconnected(p2p_conn)
             /\ state' = "CALL_ISP"
             /\ peer_number' = TRUE
             /\ UNCHANGED <<relay_state, relay_processing, net_buffer,
                            user_number, number_fetch_retries, config_dirty>>
             /\ NoProc(reply) /\ NoSession /\ NoDns
    <2>1. RelayTypeOK'
      BY <1>3 DEF HandlerTypes, RelayTypeOK
    <2> QED BY <1>0, <1>3, <2>1, EndTypes, TableTypes, KeepTypes, NoProcTypes
        DEF HandlerTypes, ConnectionState
  <1>4. CASE /\ mobile_relay_init
             /\ TelOpen(config_relay, "RELAY", reply)
             /\ UNCHANGED <<net_buffer, user_number, peer_number,
                            number_fetch_retries, config_dirty>>
             /\ NoSession /\ NoDns
    <2>1. RelayTypeOK'
      BY <1>4 DEF HandlerTypes, RelayTypeOK, mobile_relay_init, RelayState
    <2> QED BY <1>0, <1>4, <2>1, TelOpenTypes, KeepTypes DEF HandlerTypes
  <1>5. CASE TelOpen("ipv4", "IP", reply) /\ NoRelay /\ NoSession /\ NoDns
    <2>1. "ipv4" \in AddrType
      BY DEF AddrType, HostType
    <2> QED BY <1>0, <1>5, <2>1, TelOpenTypes, KeepTypes DEF HandlerTypes
  <1> QED BY <1>1, <1>2, <1>3, <1>4, <1>5 DEF command_tel_begin

LEMMA TelTimeoutTypes ==
    ASSUME HandlerTypes, packet_parsed \in BOOLEAN, NEW reply \in Replies,
           TelTimeout(reply), UNCHANGED command_time
    PROVE  HandlerTypes'
  BY SockCloseType, TableTypes, KeepTypes, NoProcTypes DEF TelTimeout, HandlerTypes

LEMMA TelIpTypes ==
    ASSUME HandlerTypes, packet_parsed \in BOOLEAN, NEW reply \in Replies,
           command_tel_ip(reply), UNCHANGED command_time
    PROVE  HandlerTypes'
  <1>1. /\ SockConnect(sock, p2p_conn, processing_addr, 0) \in [Conn -> Socket]
        /\ SockConnect(sock, p2p_conn, processing_addr, 1) \in [Conn -> Socket]
        /\ SockConnect(sock, p2p_conn, processing_addr, -1) \in [Conn -> Socket]
    BY SockConnectType DEF HandlerTypes
  <1>2. sock' \in [Conn -> Socket]
    <2>1. SockClose(SockConnect(sock, p2p_conn, processing_addr, -1), p2p_conn)
              \in [Conn -> Socket]
      BY <1>1, SockCloseType
    <2> QED BY <1>1, <2>1 DEF command_tel_ip
  <1>3. state' \in ConnectionState /\ connections' \in [Conn -> BOOLEAN]
    BY TableTypes DEF command_tel_ip, HandlerTypes, ConnectionState, NoTable
  <1>4. peer_number' \in BOOLEAN
    <2>1. peer_number' = peer_number \/ peer_number' = TRUE
      BY DEF command_tel_ip
    <2>2. peer_number \in BOOLEAN
      BY DEF HandlerTypes, RelayTypeOK
    <2> QED BY <2>1, <2>2
  <1>5. RelayTypeOK'
    BY <1>4 DEF command_tel_ip, HandlerTypes, RelayTypeOK
  <1> QED BY <1>2, <1>3, <1>5, KeepTypes, NoProcTypes DEF command_tel_ip, HandlerTypes

LEMMA TelRelayTypes ==
    ASSUME HandlerTypes, packet_parsed \in BOOLEAN, NEW reply \in Replies,
           command_tel_relay(reply), UNCHANGED command_time
    PROVE  HandlerTypes'
  <1>1. PICK rc \in {-1, 0, 1, 2} :
          /\ mobile_relay_proc(p2p_conn, processing_addr, "call", {0, 1}, rc)
          /\ state' = IF rc = 1 THEN "CALL" ELSE state
          /\ connections' = IF rc \in {0, 1} THEN connections
                            ELSE Disconnected(p2p_conn)
    BY DEF command_tel_relay
  <1>2. sock' \in [Conn -> Socket] /\ RelayTypeOK'
    <2>1. "call" \in Goal
      BY DEF Goal
    <2> QED BY <1>1, <2>1, RelayProcTypes DEF HandlerTypes
  <1>3. state' \in ConnectionState /\ connections' \in [Conn -> BOOLEAN]
    BY <1>1, TableTypes DEF HandlerTypes, ConnectionState
  <1> QED BY <1>2, <1>3, KeepTypes, NoProcTypes DEF command_tel_relay, HandlerTypes

LEMMA TelTypes ==
    ASSUME HandlerTypes, packet_parsed \in BOOLEAN, config_relay \in AddrType,
           NEW reply \in Replies, command_tel(reply)
    PROVE  HandlerTypes'
  BY TelBeginTypes, TelTimeoutTypes, TelIpTypes, TelRelayTypes DEF command_tel

LEMMA WaitBeginTypes ==
    ASSUME HandlerTypes, config_relay \in AddrType, NEW reply \in Replies,
           command_wait_call_begin(reply), NoSession, NoDns,
           command_time' \in CommandTimes
    PROVE  HandlerTypes'
  <1>1. /\ SockOpen(sock, p2p_conn, "tcp", config_relay) \in [Conn -> Socket]
        /\ SockOpen(sock, p2p_conn, "tcp", "ipv4") \in [Conn -> Socket]
    BY SockOpenType DEF HandlerTypes
  <1>2. /\ SockListen(SockOpen(sock, p2p_conn, "tcp", "ipv4"), p2p_conn, 0)
              \in [Conn -> Socket]
        /\ SockListen(SockOpen(sock, p2p_conn, "tcp", "ipv4"), p2p_conn, 1)
              \in [Conn -> Socket]
    BY <1>1, SockListenType
  <1>3. SockClose(SockListen(SockOpen(sock, p2p_conn, "tcp", "ipv4"), p2p_conn, 0),
                  p2p_conn) \in [Conn -> Socket]
    BY <1>2, SockCloseType
  <1>4. sock' \in [Conn -> Socket]
    BY <1>1, <1>2, <1>3 DEF command_wait_call_begin, NoSocket, HandlerTypes
  <1>5. state' \in ConnectionState /\ connections' \in [Conn -> BOOLEAN]
    BY TableTypes DEF command_wait_call_begin, HandlerTypes, ConnectionState
  <1>6. RelayTypeOK'
    <2>1. NoRelay \/ (mobile_relay_init /\ UNCHANGED <<net_buffer, user_number,
                         peer_number, number_fetch_retries, config_dirty>>)
      BY DEF command_wait_call_begin
    <2> QED BY <2>1, KeepTypes
        DEF mobile_relay_init, HandlerTypes, RelayTypeOK, RelayState
  <1>7. /\ processing' \in ProcessingStep
        /\ processing_data' \in [{0, 1} -> Nat]
        /\ processing_addr' \in Address
    <2>1. \/ Proc(reply, "DONE", processing_data, config_relay)
          \/ Proc(reply, "DONE", processing_data, processing_addr)
      BY DEF command_wait_call_begin
    <2>2. /\ "DONE" \in ProcessingStep /\ processing_data \in [{0, 1} -> Nat]
          /\ config_relay \in Address /\ processing_addr \in Address
      BY DEF ProcessingStep, Address, HandlerTypes
    <2> QED BY <2>1, <2>2, ProcTypes
  <1> QED BY <1>4, <1>5, <1>6, <1>7, KeepTypes DEF HandlerTypes

LEMMA ProcDoneTypes ==
    ASSUME HandlerTypes, NEW reply \in Replies,
           Proc(reply, "DONE", processing_data, processing_addr)
    PROVE  /\ processing' \in ProcessingStep
           /\ processing_data' \in [{0, 1} -> Nat]
           /\ processing_addr' \in Address
  <1>1. /\ "DONE" \in ProcessingStep /\ processing_data \in [{0, 1} -> Nat]
        /\ processing_addr \in Address
    BY DEF ProcessingStep, HandlerTypes
  <1> QED BY <1>1, ProcTypes

LEMMA WaitIpTypes ==
    ASSUME HandlerTypes, NEW time, NEW reply \in Replies,
           command_wait_call_ip(time, reply), NoSession, NoDns,
           command_time' \in CommandTimes
    PROVE  HandlerTypes'
  <1>1. \A rc : SockAccept(sock, p2p_conn, rc) \in [Conn -> Socket]
    BY SockAcceptType DEF HandlerTypes
  <1>2. sock' \in [Conn -> Socket]
    BY <1>1 DEF command_wait_call_ip, NoSocket, HandlerTypes
  <1>3. state' \in ConnectionState /\ connections' \in [Conn -> BOOLEAN]
    BY DEF command_wait_call_ip, HandlerTypes, ConnectionState
  <1> QED BY <1>2, <1>3, KeepTypes, ProcDoneTypes DEF command_wait_call_ip, HandlerTypes

LEMMA WaitRelayTypes ==
    ASSUME HandlerTypes, NEW time, NEW reply \in Replies,
           command_wait_call_relay(time, reply), NoSession, NoDns,
           command_time' \in CommandTimes
    PROVE  HandlerTypes'
  <1>0. Proc(reply, "DONE", processing_data, processing_addr)
    BY DEF command_wait_call_relay
  <1>1. CASE NoRelay /\ NoSocket /\ NoTable
    BY <1>0, <1>1, KeepTypes, ProcDoneTypes DEF HandlerTypes
  <1>2. CASE /\ sock' = SockClose(sock, p2p_conn)
             /\ connections' = Disconnected(p2p_conn)
             /\ state' = "DISCONNECTED"
             /\ NoRelay
    <2>1. sock' \in [Conn -> Socket] /\ state' \in ConnectionState
      BY <1>2, SockCloseType DEF HandlerTypes, ConnectionState
    <2> QED BY <1>0, <1>2, <2>1, TableTypes, KeepTypes, ProcDoneTypes DEF HandlerTypes
  <1>3. CASE \E rc \in {-1, 0, 1, 2} :
                /\ mobile_relay_proc(p2p_conn, processing_addr, "wait", {0, 1}, rc)
                /\ state' = CASE rc = 0 -> state [] rc = 1 -> "CALL_RECV"
                              [] OTHER -> "WAIT_TIMEOUT"
                /\ connections' = IF rc \in {0, 1} THEN connections
                                  ELSE Disconnected(p2p_conn)
    <2>1. PICK rc \in {-1, 0, 1, 2} :
                /\ mobile_relay_proc(p2p_conn, processing_addr, "wait", {0, 1}, rc)
                /\ state' = CASE rc = 0 -> state [] rc = 1 -> "CALL_RECV"
                              [] OTHER -> "WAIT_TIMEOUT"
                /\ connections' = IF rc \in {0, 1} THEN connections
                                  ELSE Disconnected(p2p_conn)
      BY <1>3
    <2>2. "wait" \in Goal
      BY DEF Goal
    <2>3. sock' \in [Conn -> Socket] /\ RelayTypeOK'
      BY <2>1, <2>2, RelayProcTypes DEF HandlerTypes
    <2>4. state' \in ConnectionState /\ connections' \in [Conn -> BOOLEAN]
      BY <2>1, TableTypes DEF HandlerTypes, ConnectionState
    <2> QED BY <1>0, <2>3, <2>4, KeepTypes, ProcDoneTypes DEF HandlerTypes
  <1> QED BY <1>1, <1>2, <1>3 DEF command_wait_call_relay

LEMMA WaitCallTypes ==
    ASSUME HandlerTypes, packet_parsed \in BOOLEAN, config_relay \in AddrType,
           NEW reply \in Replies, command_wait_call(reply)
    PROVE  HandlerTypes'
  <1>1. CASE Refuse(reply) /\ UNCHANGED command_time
    BY <1>1, RefuseTypes DEF HandlerTypes
  <1>2. CASE /\ NoRelay /\ NoSocket /\ NoTable /\ NoProc(reply)
             /\ NoSession /\ NoDns /\ UNCHANGED command_time
    BY <1>2, KeepTypes, NoProcTypes DEF HandlerTypes
  <1>3. CASE /\ command_time' = IF Processing = "BEGIN" THEN 0 ELSE command_time
             /\ NoSession /\ NoDns
             /\ \/ command_wait_call_begin(reply)
                \/ command_wait_call_ip(command_time', reply)
                \/ command_wait_call_relay(command_time', reply)
    <2>1. command_time' \in CommandTimes
      BY <1>3 DEF HandlerTypes, CommandTimes
    <2> QED BY <1>3, <2>1, WaitBeginTypes, WaitIpTypes, WaitRelayTypes
  <1> QED BY <1>1, <1>2, <1>3 DEF command_wait_call

(* What a call of command_data that does not refuse does with the slot.    *)
LEMMA DataOutcomes ==
    ASSUME NEW reply, command_data(reply),
           ~(Refuse(reply) /\ UNCHANGED command_time)
    PROVE  \/ sock' = SockStream(sock, DataConn) /\ UNCHANGED connections
           \/ DataReceive(reply)
  <1> DEFINE Streamed == sock' = SockStream(sock, DataConn) /\ UNCHANGED connections
             Sent(n) == Proc(reply, "DONE",
                             [processing_data EXCEPT ![0] = DataSent + n],
                             processing_addr)
  <1>1. CASE \E n \in 0 .. arg.size - DataSent :
                /\ Sent(n)
                /\ \/ /\ DataSent + n < arg.size
                      /\ reply = IF DataTime >= 10000 THEN "error" ELSE "pending"
                      /\ sock' = SockStream(sock, DataConn)
                      /\ UNCHANGED connections
                   \/ /\ DataSent + n = arg.size
                      /\ DataReceive(reply)
    BY <1>1
  <1>2. CASE Streamed
    BY <1>2
  <1> QED BY <1>1, <1>2 DEF command_data

LEMMA DataTypes ==
    ASSUME HandlerTypes, packet_parsed \in BOOLEAN, command = "DATA",
           arg \in Argument(command), NEW reply \in Replies, command_data(reply)
    PROVE  HandlerTypes'
  <1>1. CASE Refuse(reply) /\ UNCHANGED command_time
    BY <1>1, RefuseTypes DEF HandlerTypes
  <1>2. CASE ~(Refuse(reply) /\ UNCHANGED command_time)
    <2>1. /\ command_time' = DataTime
          /\ UNCHANGED state
          /\ NoRelay /\ NoSession /\ NoDns
          /\ DataConn \in Conn
      BY <1>2 DEF command_data
    <2>2. command_time' \in CommandTimes
      BY <2>1 DEF DataTime, HandlerTypes, CommandTimes
    <2>3. SockStream(sock, DataConn) \in [Conn -> Socket]
      BY SockStreamType DEF HandlerTypes
    <2>4. SockClose(SockStream(sock, DataConn), DataConn) \in [Conn -> Socket]
      BY <2>3, SockCloseType
    <2>0. \/ sock' = SockStream(sock, DataConn) /\ UNCHANGED connections
          \/ DataReceive(reply)
      BY <1>2, DataOutcomes
    <2>5. sock' \in [Conn -> Socket]
      <3>1. \/ sock' = SockStream(sock, DataConn)
            \/ sock' = SockClose(SockStream(sock, DataConn), DataConn)
        BY <2>0 DEF DataReceive
      <3> QED BY <2>3, <2>4, <3>1
    <2>6. connections' \in [Conn -> BOOLEAN]
      <3>1. connections' = connections \/ connections' = Disconnected(DataConn)
        BY <2>0 DEF DataReceive
      <3> QED BY <3>1, TableTypes DEF HandlerTypes
    <2>7. /\ processing' \in ProcessingStep
          /\ processing_data' \in [{0, 1} -> Nat]
          /\ processing_addr' \in Address
      <3>1. CASE NoProc(reply)
        BY <3>1, NoProcTypes
      <3>2. CASE \E n \in 0 .. arg.size - DataSent :
                    Proc(reply, "DONE",
                         [processing_data EXCEPT ![0] = DataSent + n], processing_addr)
        <4>1. arg.size \in Nat
          <5>1. arg \in [conn : -1 .. MaxConnections, size : 0 .. MaxData]
            BY DEF Argument
          <5> QED BY <5>1, MaxDataAssumption
        <4>2. DataSent \in Nat
          BY DEF DataSent, HandlerTypes
        <4>3. PICK n \in 0 .. arg.size - DataSent :
                    Proc(reply, "DONE",
                         [processing_data EXCEPT ![0] = DataSent + n], processing_addr)
          BY <3>2
        <4>4. [processing_data EXCEPT ![0] = DataSent + n] \in [{0, 1} -> Nat]
          BY <4>1, <4>2 DEF HandlerTypes
        <4>5. "DONE" \in ProcessingStep /\ processing_addr \in Address
          BY DEF ProcessingStep, HandlerTypes
        <4> QED BY <4>3, <4>4, <4>5, ProcTypes
      <3> QED BY <1>2, <3>1, <3>2 DEF command_data
    <2> QED BY <2>1, <2>2, <2>5, <2>6, <2>7, KeepTypes DEF HandlerTypes
  <1> QED BY <1>1, <1>2 DEF command_data

LEMMA PppConnectTypes ==
    ASSUME HandlerTypes, packet_parsed \in BOOLEAN, command = "PPP_CONNECT",
           arg \in Argument(command), NEW reply \in Replies,
           command_ppp_connect(reply)
    PROVE  HandlerTypes'
  <1>1. CASE Refuse(reply) /\ UNCHANGED command_time
    BY <1>1, RefuseTypes DEF HandlerTypes
  <1>2. CASE ~(Refuse(reply) /\ UNCHANGED command_time)
    <2>1. arg \in [valid : BOOLEAN, dns : PppDnsChoices]
      BY DEF Argument
    <2>2. /\ ppp_dns' = arg.dns /\ dns2_use' = FALSE /\ state' = "INTERNET"
          /\ UNCHANGED <<connections, command_time>>
          /\ NoRelay /\ NoSocket /\ NoSession /\ NoProc(reply)
      BY <1>2 DEF command_ppp_connect
    <2>3. ppp_dns' \in SUBSET {1, 2} /\ dns2_use' \in BOOLEAN
          /\ state' \in ConnectionState
      BY <2>1, <2>2, PppDnsAssumption DEF ConnectionState
    <2> QED BY <2>2, <2>3, KeepTypes, NoProcTypes DEF HandlerTypes
  <1> QED BY <1>1, <1>2

LEMMA TcpConnectTypes ==
    ASSUME HandlerTypes, packet_parsed \in BOOLEAN, NEW reply \in Replies,
           command_tcp_connect(reply)
    PROVE  HandlerTypes'
  <1>1. CASE command_time' = 0 /\ Refuse(reply)
    <2>1. command_time' \in CommandTimes
      BY <1>1 DEF CommandTimes
    <2> QED BY <1>1, <2>1, RefuseTypes
  <1>2. ASSUME NEW c \in Conn,
               sock' = SockOpen(sock, c, "tcp", "ipv4"),
               connections' = Connected(c),
               Proc(reply, "CONNECTING", [processing_data EXCEPT ![0] = c],
                    processing_addr),
               command_time' = 0, UNCHANGED state,
               NoRelay, NoSession, NoDns
        PROVE  HandlerTypes'
    <2>1. sock' \in [Conn -> Socket] /\ command_time' \in CommandTimes
      BY <1>2, SockOpenType DEF HandlerTypes, CommandTimes
    <2>2. /\ [processing_data EXCEPT ![0] = c] \in [{0, 1} -> Nat]
          /\ "CONNECTING" \in ProcessingStep /\ processing_addr \in Address
      BY ConnFacts DEF HandlerTypes, ProcessingStep
    <2>3. /\ processing' \in ProcessingStep
          /\ processing_data' \in [{0, 1} -> Nat]
          /\ processing_addr' \in Address
      BY <1>2, <2>2, ProcTypes
    <2> QED BY <1>2, <2>1, <2>3, TableTypes, KeepTypes DEF HandlerTypes
  <1>3. CASE command_tcp_connect_connecting(reply)
    <2> DEFINE c == processing_data[0]
               rc == IF reply = "ok" THEN 1 ELSE 0
    <2>1. /\ SockClose(sock, c) \in [Conn -> Socket]
          /\ SockConnect(sock, c, "ipv4", rc) \in [Conn -> Socket]
          /\ SockConnect(sock, c, "ipv4", -1) \in [Conn -> Socket]
      BY SockCloseType, SockConnectType DEF HandlerTypes
    <2>2. SockClose(SockConnect(sock, c, "ipv4", -1), c) \in [Conn -> Socket]
      BY <2>1, SockCloseType
    <2>3. sock' \in [Conn -> Socket]
      BY <1>3, <2>1, <2>2 DEF command_tcp_connect_connecting
    <2>4. connections' \in [Conn -> BOOLEAN]
      BY <1>3, TableTypes DEF command_tcp_connect_connecting, HandlerTypes
    <2> QED BY <1>3, <2>3, <2>4, KeepTypes, NoProcTypes
        DEF command_tcp_connect_connecting, HandlerTypes
  <1> QED BY <1>1, <1>2, <1>3 DEF command_tcp_connect, command_tcp_connect_begin

LEMMA TcpDisconnectTypes ==
    ASSUME HandlerTypes, packet_parsed \in BOOLEAN, NEW reply \in Replies,
           command_tcp_disconnect(reply)
    PROVE  HandlerTypes'
  <1>1. CASE Refuse(reply) /\ UNCHANGED command_time
    BY <1>1, RefuseTypes DEF HandlerTypes
  <1>2. CASE ~(Refuse(reply) /\ UNCHANGED command_time)
    <2>1. SockClose(sock, arg.conn) \in [Conn -> Socket]
      BY SockCloseType DEF HandlerTypes
    <2> QED BY <1>2, <2>1, TableTypes, KeepTypes, NoProcTypes
        DEF command_tcp_disconnect, HandlerTypes
  <1> QED BY <1>1, <1>2

(* dns_get_addr names one of the four configured addresses.                *)
LEMMA DnsAddrType ==
    ASSUME HandlerTypes, config_dns \in [{1, 2} -> AddrType], NEW id \in 0 .. 3
    PROVE  dns_get_addr(id) \in AddrType
  <1>1. \A n : PppDns(n) \in AddrType
    BY DEF PppDns, AddrType, HostType
  <1>2. (IF dns2_use THEN (id + 2) % 4 ELSE id) \in {0, 1, 2, 3}
    OBVIOUS
  <1>3. config_dns[1] \in AddrType /\ config_dns[2] \in AddrType
    OBVIOUS
  <1> QED BY <1>1, <1>2, <1>3 DEF dns_get_addr

LEMMA DnsStartTypes ==
    ASSUME HandlerTypes, packet_parsed \in BOOLEAN,
           config_dns \in [{1, 2} -> AddrType],
           NEW s \in [Conn -> Socket], NEW table \in [Conn -> BOOLEAN],
           NEW c \in Nat, NEW from \in {0, 2}, NEW reply \in Replies,
           dns_request_start(s, table, c, from, reply)
    PROVE  /\ sock' \in [Conn -> Socket]
           /\ connections' \in [Conn -> BOOLEAN]
           /\ net_buffer' \in {"relay", "dns"}
           /\ command_time' \in CommandTimes
           /\ processing' \in ProcessingStep
           /\ processing_data' \in [{0, 1} -> Nat]
           /\ processing_addr' \in Address
  <1>0. net_buffer \in {"relay", "dns"} /\ command_time \in CommandTimes
        /\ 0 \in CommandTimes
    BY DEF HandlerTypes, RelayTypeOK, CommandTimes
  <1>1. CASE Usable(from) = {}
    <2>2. sock' = s /\ connections' = table /\ NoProc(reply)
          /\ UNCHANGED <<net_buffer, command_time>>
      BY <1>1 DEF dns_request_start
    <2> QED BY <1>0, <2>2, NoProcTypes
  <1>2. CASE Usable(from) # {}
    <2> DEFINE opened(id) == SockDatagram(SockOpen(s, c, "udp", dns_get_addr(id)),
                                          c, dns_get_addr(id))
    <2>1. PICK id \in Usable(from) :
            /\ Proc(reply, "CHECK", [processing_data EXCEPT ![0] = c, ![1] = id],
                    dns_get_addr(id))
            /\ sock' \in {s, SockClose(opened(id), c), opened(id)}
            /\ net_buffer' \in {net_buffer, "dns"}
            /\ connections' \in {table, [table EXCEPT ![c] = TRUE]}
            /\ command_time' \in {command_time, 0}
      BY <1>2 DEF dns_request_start
    <2>2. id \in 0 .. 3
      BY DEF Usable
    <2>3. dns_get_addr(id) \in AddrType /\ dns_get_addr(id) \in Address
      BY <2>2, DnsAddrType DEF Address
    <2>4. opened(id) \in [Conn -> Socket]
      BY SockOpenType, SockDatagramType
    <2>5. SockClose(opened(id), c) \in [Conn -> Socket]
      BY <2>4, SockCloseType
    <2>6. [processing_data EXCEPT ![0] = c, ![1] = id] \in [{0, 1} -> Nat]
      BY <2>2 DEF HandlerTypes
    <2>7. "CHECK" \in ProcessingStep
      BY DEF ProcessingStep
    <2>8. /\ processing' \in ProcessingStep
          /\ processing_data' \in [{0, 1} -> Nat]
          /\ processing_addr' \in Address
      BY <2>1, <2>3, <2>6, <2>7, ProcTypes
    <2>9. connections' \in [Conn -> BOOLEAN]
      BY <2>1
    <2>10. sock' \in [Conn -> Socket]
      BY <2>1, <2>4, <2>5
    <2> QED BY <1>0, <2>1, <2>8, <2>9, <2>10
  <1> QED BY <1>1, <1>2

LEMMA DnsRequestTypes ==
    ASSUME HandlerTypes, packet_parsed \in BOOLEAN,
           config_dns \in [{1, 2} -> AddrType],
           NEW reply \in Replies, command_dns_request(reply)
    PROVE  HandlerTypes'
  <1>1. CASE Refuse(reply) /\ UNCHANGED command_time
    BY <1>1, RefuseTypes DEF HandlerTypes
  <1>2. CASE /\ NoRelay /\ NoSocket /\ NoSession /\ NoTable /\ NoProc(reply) /\ NoDns
             /\ UNCHANGED command_time
    BY <1>2, KeepTypes, NoProcTypes DEF HandlerTypes
  <1>3. ASSUME NEW c \in Conn,
               dns_request_start(sock, connections, c, 0, reply),
               UNCHANGED <<state, relay_state, relay_processing, user_number,
                      peer_number, number_fetch_retries, config_dirty>>,
               NoSession, NoDns
        PROVE  HandlerTypes'
    <2>1. sock \in [Conn -> Socket] /\ connections \in [Conn -> BOOLEAN] /\ c \in Nat
      BY ConnFacts DEF HandlerTypes
    <2>2. /\ sock' \in [Conn -> Socket] /\ connections' \in [Conn -> BOOLEAN]
          /\ net_buffer' \in {"relay", "dns"} /\ command_time' \in CommandTimes
          /\ processing' \in ProcessingStep
          /\ processing_data' \in [{0, 1} -> Nat] /\ processing_addr' \in Address
      BY <1>3, <2>1, DnsStartTypes
    <2>3. RelayTypeOK'
      BY <1>3, <2>2 DEF HandlerTypes, RelayTypeOK
    <2> QED BY <1>3, <2>2, <2>3, KeepTypes DEF HandlerTypes
  <1>4. CASE Processing = "CHECK" /\ command_dns_request_check(reply)
    <2> DEFINE c == processing_data[0]
               polled == SockDatagram(sock, c, processing_addr)
    <2>1. /\ polled \in [Conn -> Socket] /\ connections \in [Conn -> BOOLEAN]
          /\ c \in Nat
      BY SockDatagramType DEF HandlerTypes
    <2>2. /\ SockClose(polled, c) \in [Conn -> Socket]
          /\ Disconnected(c) \in [Conn -> BOOLEAN]
      BY <2>1, SockCloseType, TableTypes
    <2>3. /\ UNCHANGED <<state, relay_state, relay_processing, user_number,
                   peer_number, number_fetch_retries, config_dirty, ppp_dns>>
          /\ NoSession
          /\ dns2_use' = dns2_use \/ dns2_use' = ~dns2_use
          /\ \/ /\ sock' \in {polled, SockClose(polled, c)}
                /\ connections' \in {connections, Disconnected(c)}
                /\ UNCHANGED <<net_buffer, command_time>>
                /\ NoProc(reply)
             \/ dns_request_start(SockClose(polled, c), Disconnected(c), c, 2, reply)
      BY <1>4 DEF command_dns_request_check
    <2>4. /\ sock' \in [Conn -> Socket] /\ connections' \in [Conn -> BOOLEAN]
          /\ net_buffer' \in {"relay", "dns"} /\ command_time' \in CommandTimes
          /\ processing' \in ProcessingStep
          /\ processing_data' \in [{0, 1} -> Nat] /\ processing_addr' \in Address
      <3>1. CASE dns_request_start(SockClose(polled, c), Disconnected(c), c, 2, reply)
        BY <2>1, <2>2, <3>1, DnsStartTypes
      <3>2. CASE /\ sock' \in {polled, SockClose(polled, c)}
                 /\ connections' \in {connections, Disconnected(c)}
                 /\ UNCHANGED <<net_buffer, command_time>>
                 /\ NoProc(reply)
        BY <2>1, <2>2, <3>2, NoProcTypes DEF HandlerTypes, RelayTypeOK
      <3> QED BY <2>3, <3>1, <3>2
    <2>5. RelayTypeOK'
      BY <2>3, <2>4 DEF HandlerTypes, RelayTypeOK
    <2>6. dns2_use' \in BOOLEAN
      BY <2>3 DEF HandlerTypes
    <2> QED BY <2>3, <2>4, <2>5, <2>6, KeepTypes DEF HandlerTypes
  <1> QED BY <1>1, <1>2, <1>3, <1>4 DEF command_dns_request, command_dns_request_begin

LEMMA ChangeClockTypes ==
    ASSUME HandlerTypes, packet_parsed \in BOOLEAN, NEW reply \in Replies,
           command_change_clock(reply)
    PROVE  HandlerTypes'
  <1>1. CASE Refuse(reply) /\ UNCHANGED command_time
    BY <1>1, RefuseTypes DEF HandlerTypes
  <1>2. CASE ~(Refuse(reply) /\ UNCHANGED command_time)
    <2>1. mode_32bit' \in BOOLEAN
      BY <1>2 DEF command_change_clock
    <2> QED BY <1>2, <2>1, KeepTypes, NoProcTypes DEF command_change_clock, HandlerTypes
  <1> QED BY <1>1, <1>2

LEMMA StatelessTypes ==
    ASSUME HandlerTypes, packet_parsed \in BOOLEAN, NEW reply \in Replies,
           command_stateless(reply)
    PROVE  HandlerTypes'
  BY KeepTypes, NoProcTypes DEF command_stateless, HandlerTypes

LEMMA ProcessTypes ==
    ASSUME TypeOK, serial_state = "RESPONSE_WAITING", NEW reply \in Replies,
           mobile_commands_process(reply)
    PROVE  HandlerTypes'
  <1>1. /\ HandlerTypes /\ packet_parsed \in BOOLEAN
        /\ config_relay \in AddrType /\ config_dns \in [{1, 2} -> AddrType]
        /\ arg \in Argument(command)
    BY DEF TypeOK, CommandsTypeOK, HandlerTypes
  <1> QED BY <1>1, StartTypes, EndSessionTypes, TelTypes, OfflineTypes,
        WaitCallTypes, DataTypes, ReinitTypes, ChangeClockTypes, PppConnectTypes,
        PppDisconnectTypes, TcpConnectTypes, TcpDisconnectTypes, DnsRequestTypes,
        StatelessTypes
      DEF mobile_commands_process

-----------------------------------------------------------------------------
LEMMA InitTypes == Init => TypeOK
  <1> SUFFICES ASSUME Init PROVE TypeOK
    OBVIOUS
  <1>1. sock \in [Conn -> Socket]
    BY SlotFacts DEF Init
  <1>2. RelayTypeOK
    <2>1. number_fetch_retries \in 0 .. FetchRetries
      BY FetchRetriesAssumption DEF Init
    <2>2. user_number \in BOOLEAN /\ peer_number \in BOOLEAN /\ config_dirty \in BOOLEAN
      BY DEF Init
    <2>3. /\ relay_state \in RelayState
          /\ relay_processing \in {"BEGIN", "GET_NUMBER", "FINAL"}
          /\ net_buffer \in {"relay", "dns"}
      BY DEF Init, RelayState
    <2> QED BY <2>1, <2>2, <2>3 DEF RelayTypeOK
  <1>3. CommandsTypeOK
    <2>1. /\ session_started \in BOOLEAN /\ mode_32bit \in BOOLEAN
          /\ dns2_use \in BOOLEAN /\ packet_parsed \in BOOLEAN
          /\ number_fetch_active \in BOOLEAN
      BY DEF Init
    <2>2. connections \in [Conn -> BOOLEAN] /\ ppp_dns \in SUBSET {1, 2}
      BY DEF Init
    <2>3. /\ command \in Command \cup Response /\ processing \in ProcessingStep
          /\ processing_addr \in Address /\ command_time \in CommandTimes
      BY DEF Init, Response, ProcessingStep, Address, CommandTimes
    <2>4. processing_data \in [{0, 1} -> Nat]
      BY DEF Init, ClobberedData
    <2>5. /\ state \in ConnectionState
          /\ config_relay \in AddrType /\ config_dns \in [{1, 2} -> AddrType]
      BY SettingsAssumption, FreshAssumption DEF Init
    <2> QED BY <2>1, <2>2, <2>3, <2>4, <2>5 DEF CommandsTypeOK
  <1> QED BY <1>1, <1>2, <1>3 DEF Init, TypeOK, SerialState, SerialTimes

(* What the steps outside the handlers leave alone.                        *)
OtherTypes ==
    /\ command \in Command \cup Response
    /\ packet_parsed \in BOOLEAN
    /\ config_relay \in AddrType
    /\ config_dns \in [{1, 2} -> AddrType]

LoopTypes ==
    /\ start \in BOOLEAN
    /\ global_active \in BOOLEAN
    /\ serial_state \in SerialState
    /\ serial_active \in BOOLEAN
    /\ serial_mode_32bit \in BOOLEAN
    /\ hardware \in {"disabled", "8bit", "32bit"}
    /\ serial_time \in SerialTimes
    /\ pc \in {"idle", "get", "process"}
    /\ actions \subseteq Action

ArgTypes ==
    serial_state = "RESPONSE_WAITING" => command \in Command /\ arg \in Argument(command)

LEMMA TypeParts ==
    /\ TypeOK => HandlerTypes /\ OtherTypes /\ LoopTypes /\ ArgTypes
    /\ HandlerTypes' /\ OtherTypes' /\ LoopTypes' /\ ArgTypes' => TypeOK'
  BY DEF TypeOK, CommandsTypeOK, HandlerTypes, OtherTypes, LoopTypes, ArgTypes

LEMMA SameHandlerTypes ==
    ASSUME HandlerTypes,
           UNCHANGED <<sock, relayVars, sessionVars, state, connections, dnsVars,
                       processing, processing_data, processing_addr,
                       number_fetch_active, command_time>>
    PROVE  HandlerTypes'
  BY DEF HandlerTypes, RelayTypeOK, relayVars, sessionVars, dnsVars

LEMMA InterruptTypes == TypeOK /\ Interrupt => TypeOK'
  <1> SUFFICES ASSUME TypeOK, Interrupt PROVE TypeOK'
    OBVIOUS
  <1>0. HandlerTypes /\ OtherTypes /\ LoopTypes /\ ArgTypes
    BY TypeParts
  <1>1. Transfer
    BY DEF Interrupt, TransferByte, TransferStart, TransferDrop, TransferPacket,
           TransferResponse, TransferAcknowledge
  <1>2. LoopTypes'
    BY <1>0, <1>1 DEF Transfer, LoopTypes, SerialState, loopVars, timeVars,
       Interrupt, TransferByte, TransferStart, TransferDrop, TransferPacket,
       TransferResponse, TransferAcknowledge
  <1>3. CASE TransferStart
    <2>1. /\ processing' \in ProcessingStep
          /\ processing_data' \in [{0, 1} -> Nat]
          /\ processing_addr' \in Address
      BY <1>3 DEF TransferStart, ProcessingStep, ClobberedData, Address
    <2>2. HandlerTypes'
      BY <1>0, <1>1, <1>3, <2>1 DEF TransferStart, Transfer, HandlerTypes,
         RelayTypeOK, relayVars, sessionVars, dnsVars, timeVars
    <2> QED BY <1>0, <1>1, <1>2, <1>3, <2>2, TypeParts
        DEF TransferStart, Transfer, OtherTypes, ArgTypes, packetVars, configVars
  <1>4. CASE TransferPacket
    <2>1. HandlerTypes'
      BY <1>0, <1>1, <1>4, SameHandlerTypes DEF TransferPacket, Transfer, timeVars
    <2>2. command' \in Command /\ arg' \in Argument(command')
      BY <1>4, ConsoleAssumption DEF TransferPacket, Command
    <2> QED BY <1>0, <1>1, <1>2, <1>4, <2>1, <2>2, TypeParts
        DEF TransferPacket, Transfer, OtherTypes, ArgTypes, configVars
  <1>5. CASE UNCHANGED commandVars /\ (serial_state' # "RESPONSE_WAITING" \/ UNCHANGED serial_state)
    <2>1. HandlerTypes'
      BY <1>0, <1>1, <1>5, SameHandlerTypes DEF Transfer, commandVars, timeVars
    <2> QED BY <1>0, <1>1, <1>2, <1>5, <2>1, TypeParts
        DEF Transfer, OtherTypes, ArgTypes, commandVars, packetVars, configVars
  <1> QED BY <1>3, <1>4, <1>5 DEF Interrupt, TransferByte, TransferDrop,
      TransferResponse, TransferAcknowledge

(* A step that leaves the handlers' state, the packet and the settings     *)
(* alone, and does not hand over another packet.                           *)
LEMMA QuietTypes ==
    ASSUME TypeOK, LoopTypes', UNCHANGED <<commandVars, configVars>>,
           command_time' \in CommandTimes,
           serial_state' # "RESPONSE_WAITING" \/ UNCHANGED serial_state
    PROVE  TypeOK'
  <1>0. HandlerTypes /\ OtherTypes /\ LoopTypes /\ ArgTypes
    BY TypeParts
  <1>1. HandlerTypes'
    BY <1>0 DEF HandlerTypes, RelayTypeOK, commandVars, relayVars, sessionVars, dnsVars
  <1>2. OtherTypes' /\ ArgTypes'
    BY <1>0 DEF OtherTypes, ArgTypes, commandVars, packetVars, configVars
  <1> QED BY <1>1, <1>2, TypeParts

LEMMA TurnTypes ==
    ASSUME NEW a, Turn(a)
    PROVE  pc' \in {"idle", "get", "process"} /\ actions' \subseteq Action
  BY DEF Turn

LEMMA CommandsResetTypes ==
    ASSUME HandlerTypes, mobile_commands_reset, config_dirty' \in BOOLEAN,
           UNCHANGED <<dnsVars, processing, processing_data, processing_addr,
                       command_time>>
    PROVE  HandlerTypes'
  <1>1. CASE do_end_session
    <2>1. /\ connections' \in [Conn -> BOOLEAN] /\ state' \in ConnectionState
          /\ peer_number' \in BOOLEAN
      BY <1>1, AfterOfflineTypes DEF do_end_session
    <2>2. sock' \in [Conn -> Socket]
      BY <1>1, EndTypes DEF do_end_session
    <2>3. session_started' \in BOOLEAN /\ mode_32bit' \in BOOLEAN
      BY <1>1 DEF do_end_session
    <2> QED BY <2>1, <2>2, <2>3 DEF mobile_commands_reset, HandlerTypes,
        RelayTypeOK, dnsVars
  <1>2. CASE UNCHANGED <<sock, state, connections, peer_number, sessionVars>>
    BY <1>2 DEF mobile_commands_reset, HandlerTypes, RelayTypeOK, dnsVars, sessionVars
  <1> QED BY <1>1, <1>2 DEF mobile_commands_reset

LEMMA ResetTypes ==
    ASSUME TypeOK, mobile_reset, config_dirty' \in BOOLEAN
    PROVE  /\ HandlerTypes' /\ OtherTypes' /\ ArgTypes'
           /\ global_active' \in BOOLEAN /\ serial_active' \in BOOLEAN
           /\ serial_mode_32bit' \in BOOLEAN /\ serial_state' \in SerialState
  <1>0. HandlerTypes /\ OtherTypes
    BY TypeParts
  <1>1. HandlerTypes'
    BY <1>0, CommandsResetTypes DEF mobile_reset
  <1>2. OtherTypes' /\ ArgTypes'
    BY <1>0 DEF mobile_reset, OtherTypes, ArgTypes, packetVars, configVars
  <1>3. /\ global_active' \in BOOLEAN /\ serial_active' \in BOOLEAN
        /\ serial_mode_32bit' \in BOOLEAN
    BY DEF mobile_reset
  <1>4. serial_state' \in SerialState
    BY DEF mobile_reset, SerialState
  <1> QED BY <1>1, <1>2, <1>3, <1>4

LEMMA ProcessCommandTypes == TypeOK /\ ProcessCommand => TypeOK'
  <1> SUFFICES ASSUME TypeOK, ProcessCommand PROVE TypeOK'
    OBVIOUS
  <1>0. HandlerTypes /\ OtherTypes /\ LoopTypes /\ ArgTypes
    BY TypeParts
  <1>1. CASE UNCHANGED <<commandVars, configVars, serial_state, command_time>>
    <2>1. LoopTypes'
      BY <1>0, <1>1, TurnTypes DEF ProcessCommand, LoopTypes
    <2> QED BY <1>0, <1>1, <2>1, QuietTypes DEF HandlerTypes
  <1>2. ASSUME NEW reply \in Replies, serial_state = "RESPONSE_WAITING",
               command_handle(reply),
               serial_state' = IF reply = "pending" THEN serial_state
                               ELSE "RESPONSE_INIT"
        PROVE  TypeOK'
    <2>1. HandlerTypes'
      BY <1>2, ProcessTypes DEF command_handle
    <2>2. LoopTypes'
      BY <1>0, <1>2, TurnTypes DEF ProcessCommand, LoopTypes, SerialState
    <2>3. packet_parsed' \in BOOLEAN
      BY <1>2 DEF command_handle
    <2>4. OtherTypes'
      BY <1>0, <1>2, <2>3 DEF command_handle, OtherTypes, configVars, Response, Replies
    <2>5. ArgTypes'
      BY <1>0, <1>2 DEF command_handle, ArgTypes
    <2> QED BY <2>1, <2>2, <2>4, <2>5, TypeParts
  <1> QED BY <1>1, <1>2 DEF ProcessCommand

LEMMA InitNumberTypes == TypeOK /\ InitNumber => TypeOK'
  <1> SUFFICES ASSUME TypeOK, InitNumber PROVE TypeOK'
    OBVIOUS
  <1>0. HandlerTypes /\ OtherTypes /\ LoopTypes /\ ArgTypes
    BY TypeParts
  <1>1. sock \in [Conn -> Socket] /\ RelayTypeOK
    BY <1>0 DEF HandlerTypes
  <1>2. ASSUME FetchBegin
        PROVE  /\ sock' \in [Conn -> Socket] /\ RelayTypeOK'
               /\ number_fetch_active' \in BOOLEAN /\ command_time' \in CommandTimes
    <2>1. PICK rc \in {-1, 0} :
            /\ number_fetch_active' = (rc = 0)
            /\ \/ relay_connect(SockOpen(sock, p2p_conn, "tcp", config_relay),
                                p2p_conn, config_relay, {0}, rc)
               \/ relay_connect(sock, p2p_conn, config_relay, {0}, rc)
      BY <1>2 DEF FetchBegin
    <2>2. SockOpen(sock, p2p_conn, "tcp", config_relay) \in [Conn -> Socket]
      BY <1>1, SockOpenType
    <2>3. /\ sock' \in [Conn -> Socket] /\ relay_state' \in RelayState
          /\ net_buffer' \in {"relay", "dns"}
      BY <1>1, <2>1, <2>2, RelayConnectTypes
    <2>4. number_fetch_retries' \in 0 .. FetchRetries
      BY <1>1, <1>2, FetchRetriesAssumption DEF FetchBegin, RelayTypeOK
    <2>5. number_fetch_active' \in BOOLEAN
      BY <2>1
    <2>6. RelayTypeOK'
      BY <1>1, <1>2, <2>3, <2>4 DEF FetchBegin, RelayTypeOK
    <2>7. command_time' \in CommandTimes
      BY <1>2 DEF FetchBegin, CommandTimes
    <2> QED BY <2>3, <2>5, <2>6, <2>7
  <1>3. ASSUME FetchPoll
        PROVE  /\ sock' \in [Conn -> Socket] /\ RelayTypeOK'
               /\ number_fetch_active' \in BOOLEAN /\ command_time' \in CommandTimes
    <2>1. PICK rc \in {-1, 0, 1} :
            /\ mobile_relay_proc(p2p_conn, config_relay, "number", {0}, rc)
            /\ number_fetch_active' = (rc = 0)
      BY <1>3 DEF FetchPoll
    <2>2. "number" \in Goal /\ rc \in {-1, 0, 1, 2}
      BY DEF Goal
    <2>3. sock' \in [Conn -> Socket] /\ RelayTypeOK'
      BY <1>1, <2>1, <2>2, RelayProcTypes
    <2>4. number_fetch_active' \in BOOLEAN
      BY <2>1
    <2>5. command_time' \in CommandTimes
      BY <1>0, <1>3 DEF FetchPoll, HandlerTypes
    <2> QED BY <2>3, <2>4, <2>5
  <1>4. ASSUME FetchTimeout
        PROVE  /\ sock' \in [Conn -> Socket] /\ RelayTypeOK'
               /\ number_fetch_active' \in BOOLEAN /\ command_time' \in CommandTimes
    <2>1. sock' \in [Conn -> Socket]
      BY <1>1, <1>4, SockCloseType DEF FetchTimeout
    <2>2. RelayTypeOK'
      BY <1>1, <1>4 DEF FetchTimeout, RelayTypeOK, relayVars
    <2>3. number_fetch_active' \in BOOLEAN
      <3>1. number_fetch_active' = FALSE
        BY <1>4 DEF FetchTimeout
      <3> QED BY <3>1
    <2>4. command_time' \in CommandTimes
      BY <1>0, <1>4 DEF FetchTimeout, HandlerTypes
    <2> QED BY <2>1, <2>2, <2>3, <2>4
  <1>5. /\ sock' \in [Conn -> Socket] /\ RelayTypeOK'
        /\ number_fetch_active' \in BOOLEAN /\ command_time' \in CommandTimes
    BY <1>2, <1>3, <1>4 DEF InitNumber
  <1>6. HandlerTypes'
    BY <1>0, <1>5 DEF InitNumber, HandlerTypes, sessionVars, dnsVars
  <1>7. OtherTypes' /\ ArgTypes'
    BY <1>0 DEF InitNumber, OtherTypes, ArgTypes, packetVars, configVars, serialVars
  <1>8. LoopTypes'
    BY <1>0, TurnTypes DEF InitNumber, LoopTypes, serialVars
  <1> QED BY <1>6, <1>7, <1>8, TypeParts

LEMMA MainLoopTypes == TypeOK /\ MainLoop => TypeOK'
  <1> SUFFICES ASSUME TypeOK, MainLoop PROVE TypeOK'
    OBVIOUS
  <1>0. HandlerTypes /\ OtherTypes /\ LoopTypes /\ ArgTypes
    BY TypeParts
  <1>1. command_time \in CommandTimes
    BY <1>0 DEF HandlerTypes
  <1>2. \A m \in BOOLEAN : Enabled(m) \in {"disabled", "8bit", "32bit"}
    BY DEF Enabled
  <1>3. CASE ActionsLatch
    <2>1. LoopTypes'
      <3>1. global_active' \in BOOLEAN /\ serial_active' \in BOOLEAN
        BY <1>3 DEF ActionsLatch
      <3>2. serial_time' \in SerialTimes
        BY <1>0, <1>3 DEF ActionsLatch, LoopTypes, SerialTimes
      <3> QED BY <1>0, <1>3, <3>1, <3>2 DEF ActionsLatch, LoopTypes
    <2> QED BY <1>1, <1>3, <2>1, QuietTypes DEF ActionsLatch
  <1>4. CASE ActionsCollect
    <2>1. LoopTypes'
      BY <1>0, <1>4 DEF ActionsCollect, LoopTypes, serialVars, timeVars
    <2> QED BY <1>1, <1>4, <2>1, QuietTypes DEF ActionsCollect, timeVars, serialVars
  <1>5. CASE NothingToDo
    <2>1. LoopTypes'
      BY <1>0, <1>5 DEF NothingToDo, LoopTypes, serialVars, timeVars
    <2> QED BY <1>1, <1>5, <2>1, QuietTypes DEF NothingToDo, timeVars, serialVars
  <1>6. CASE DropConnection
    <2>1. config_dirty' \in BOOLEAN
      BY <1>0, <1>6 DEF DropConnection, HandlerTypes, RelayTypeOK
    <2>2. /\ HandlerTypes' /\ OtherTypes' /\ ArgTypes'
          /\ global_active' \in BOOLEAN /\ serial_active' \in BOOLEAN
          /\ serial_mode_32bit' \in BOOLEAN /\ serial_state' \in SerialState
      BY <1>6, <2>1, ResetTypes DEF DropConnection
    <2>3. LoopTypes'
      BY <1>0, <1>2, <1>6, <2>2, TurnTypes DEF DropConnection, LoopTypes, SerialTimes
    <2> QED BY <2>2, <2>3, TypeParts
  <1>7. CASE Reset
    <2>1. LoopTypes'
      <3>1. global_active' \in BOOLEAN
        BY <1>7 DEF Reset
      <3>2. hardware' \in {"disabled", "8bit", "32bit"}
        BY <1>0, <1>2, <1>7 DEF Reset, LoopTypes
      <3> QED BY <1>0, <1>7, <3>1, <3>2, TurnTypes DEF Reset, LoopTypes, SerialTimes
    <2> QED BY <1>1, <1>7, <2>1, QuietTypes DEF Reset
  <1>8. CASE ResetSerial
    <2>1. LoopTypes'
      BY <1>0, <1>2, <1>8, TurnTypes DEF ResetSerial, LoopTypes, SerialTimes
    <2> QED BY <1>1, <1>8, <2>1, QuietTypes DEF ResetSerial
  <1>9. CASE Change32BitMode
    <2>1. serial_mode_32bit' \in BOOLEAN /\ hardware' \in {"disabled", "8bit", "32bit"}
      <3>1. mode_32bit \in BOOLEAN
        BY <1>0 DEF HandlerTypes
      <3>2. CASE serial_state = "WAITING"
        BY <1>2, <1>9, <3>1, <3>2 DEF Change32BitMode
      <3>3. CASE serial_state # "WAITING"
        BY <1>0, <1>9, <3>3 DEF Change32BitMode, LoopTypes
      <3> QED BY <3>2, <3>3
    <2>2. LoopTypes'
      BY <1>0, <1>9, <2>1, TurnTypes DEF Change32BitMode, LoopTypes, timeVars
    <2> QED BY <1>1, <1>9, <2>2, QuietTypes DEF Change32BitMode, timeVars
  <1>10. CASE WriteConfig
    <2>1. LoopTypes'
      BY <1>0, <1>10, TurnTypes DEF WriteConfig, LoopTypes, serialVars, timeVars
    <2>2. config_dirty' \in BOOLEAN
      BY <1>10 DEF WriteConfig
    <2>3. HandlerTypes'
      BY <1>0, <1>10, <2>2 DEF WriteConfig, HandlerTypes, RelayTypeOK, sessionVars,
         dnsVars, timeVars
    <2>4. OtherTypes' /\ ArgTypes'
      BY <1>0, <1>10 DEF WriteConfig, OtherTypes, ArgTypes, packetVars, configVars,
         serialVars
    <2> QED BY <2>1, <2>3, <2>4, TypeParts
  <1> QED BY <1>3, <1>4, <1>5, <1>6, <1>7, <1>8, <1>9, <1>10,
        ProcessCommandTypes, InitNumberTypes DEF MainLoop

LEMMA FetchResetTypes ==
    ASSUME HandlerTypes, NumberFetchReset
    PROVE  /\ sock' \in [Conn -> Socket]
           /\ number_fetch_active' \in BOOLEAN
           /\ user_number' \in BOOLEAN
           /\ number_fetch_retries' \in 0 .. FetchRetries
  <1>1. sock' \in [Conn -> Socket]
    BY EndTypes DEF NumberFetchReset
  <1>2. number_fetch_active' \in BOOLEAN /\ user_number' \in BOOLEAN
    BY DEF NumberFetchReset
  <1>3. number_fetch_retries' \in 0 .. FetchRetries
    BY FetchRetriesAssumption DEF NumberFetchReset
  <1> QED BY <1>1, <1>2, <1>3

LEMMA UserTypes == TypeOK /\ User => TypeOK'
  <1> SUFFICES ASSUME TypeOK, User PROVE TypeOK'
    OBVIOUS
  <1>0. HandlerTypes /\ OtherTypes /\ LoopTypes /\ ArgTypes
    BY TypeParts
  <1>1. \A m \in BOOLEAN : Enabled(m) \in {"disabled", "8bit", "32bit"}
    BY DEF Enabled
  <1>2. CASE mobile_start
    <2>1. LoopTypes'
      BY <1>0, <1>1, <1>2 DEF mobile_start, LoopTypes, SerialTimes
    <2>2. command_time' \in CommandTimes
      BY <1>0, <1>2 DEF mobile_start, HandlerTypes
    <2> QED BY <1>2, <2>1, <2>2, QuietTypes DEF mobile_start
  <1>3. CASE mobile_stop
    <2>1. config_dirty' \in BOOLEAN
      BY <1>3 DEF mobile_stop
    <2>2. /\ HandlerTypes' /\ OtherTypes' /\ ArgTypes'
          /\ global_active' \in BOOLEAN /\ serial_active' \in BOOLEAN
          /\ serial_mode_32bit' \in BOOLEAN /\ serial_state' \in SerialState
      BY <1>3, <2>1, ResetTypes DEF mobile_stop
    <2>3. LoopTypes'
      BY <1>0, <1>3, <2>2 DEF mobile_stop, LoopTypes
    <2> QED BY <2>2, <2>3, TypeParts
  <1>4. ASSUME Configure,
               sock' \in [Conn -> Socket], number_fetch_active' \in BOOLEAN,
               user_number' \in BOOLEAN, number_fetch_retries' \in 0 .. FetchRetries,
               config_relay' \in AddrType, config_dns' \in [{1, 2} -> AddrType]
        PROVE  TypeOK'
    <2>1. LoopTypes'
      BY <1>0, <1>4 DEF Configure, LoopTypes, serialVars, loopVars, timeVars
    <2>2. config_dirty' \in BOOLEAN
      BY <1>4 DEF Configure
    <2>3. HandlerTypes'
      BY <1>0, <1>4, <2>2 DEF Configure, HandlerTypes, RelayTypeOK, sessionVars,
         dnsVars, timeVars
    <2>4. OtherTypes' /\ ArgTypes'
      BY <1>0, <1>4 DEF Configure, OtherTypes, ArgTypes, packetVars, serialVars
    <2> QED BY <2>1, <2>3, <2>4, TypeParts
  <1>5. CASE mobile_config_set_relay \/ mobile_config_set_relay_token
    <2>1. config_relay' \in AddrType /\ config_dns' \in [{1, 2} -> AddrType]
      BY <1>0, <1>5, SettingsAssumption
         DEF mobile_config_set_relay, mobile_config_set_relay_token, OtherTypes, configVars
    <2> QED BY <1>0, <1>4, <1>5, <2>1, FetchResetTypes
        DEF mobile_config_set_relay, mobile_config_set_relay_token
  <1>6. CASE mobile_config_set_dns
    <2>1. config_relay' \in AddrType /\ config_dns' \in [{1, 2} -> AddrType]
      BY <1>0, <1>6, SettingsAssumption DEF mobile_config_set_dns, OtherTypes
    <2>2. /\ sock' \in [Conn -> Socket] /\ number_fetch_active' \in BOOLEAN
          /\ user_number' \in BOOLEAN /\ number_fetch_retries' \in 0 .. FetchRetries
      BY <1>0, <1>6 DEF mobile_config_set_dns, HandlerTypes, RelayTypeOK
    <2> QED BY <1>4, <1>6, <2>1, <2>2 DEF mobile_config_set_dns
  <1>7. CASE mobile_init
    <2>1. /\ number_fetch_active' \in BOOLEAN /\ config_dirty' \in BOOLEAN
          /\ session_started' \in BOOLEAN /\ mode_32bit' \in BOOLEAN
          /\ packet_parsed' \in BOOLEAN
      BY <1>7 DEF mobile_init
    <2>2. number_fetch_retries' \in 0 .. FetchRetries
      BY <1>7, FetchRetriesAssumption DEF mobile_init
    <2>3. HandlerTypes'
      BY <1>0, <1>7, <2>1, <2>2 DEF mobile_init, HandlerTypes, RelayTypeOK, dnsVars,
         timeVars
    <2>4. OtherTypes' /\ ArgTypes'
      BY <1>0, <1>7, <2>1, SettingsAssumption
         DEF mobile_init, OtherTypes, ArgTypes, packetVars
    <2>5. /\ serial_mode_32bit' \in BOOLEAN /\ serial_active' \in BOOLEAN
          /\ global_active' \in BOOLEAN /\ serial_state' \in SerialState
      BY <1>7 DEF mobile_init, SerialState
    <2>6. LoopTypes'
      BY <1>0, <1>7, <2>5 DEF mobile_init, LoopTypes, timeVars
    <2> QED BY <2>3, <2>4, <2>6, TypeParts
  <1> QED BY <1>2, <1>3, <1>5, <1>6, <1>7 DEF User

LEMMA TickTypes == TypeOK /\ (TickSerial \/ TickCommand) => TypeOK'
  <1> SUFFICES ASSUME TypeOK, TickSerial \/ TickCommand PROVE TypeOK'
    OBVIOUS
  <1>0. HandlerTypes /\ OtherTypes /\ LoopTypes /\ ArgTypes
    BY TypeParts
  <1>1. command_time' \in CommandTimes /\ serial_time' \in SerialTimes
    BY <1>0 DEF TickSerial, TickCommand, NextTime, HandlerTypes, LoopTypes
  <1>2. LoopTypes'
    BY <1>0, <1>1 DEF TickSerial, TickCommand, LoopTypes, serialVars, loopVars
  <1> QED BY <1>1, <1>2, QuietTypes DEF TickSerial, TickCommand, serialVars

(* Adapter, TypeOK: whatever the console, the network and the user do, and *)
(* whatever the constants are, every variable keeps its type; a packet that*)
(* waits for the main loop is a command with contents of its kind.         *)
THEOREM TypeCorrect == Spec => []TypeOK
  <1>1. TypeOK /\ [Next]_vars => TypeOK'
    <2> SUFFICES ASSUME TypeOK, [Next]_vars PROVE TypeOK'
      OBVIOUS
    <2>1. CASE Next
      BY <2>1, InterruptTypes, MainLoopTypes, UserTypes, TickTypes DEF Next
    <2>2. CASE UNCHANGED vars
      <3>0. HandlerTypes /\ LoopTypes
        BY TypeParts
      <3>1. LoopTypes'
        BY <2>2, <3>0 DEF vars, LoopTypes, serialVars, loopVars, timeVars
      <3> QED BY <2>2, <3>0, <3>1, QuietTypes DEF vars, HandlerTypes, serialVars, timeVars
    <2> QED BY <2>1, <2>2
  <1> QED BY <1>1, InitTypes, PTL DEF Spec

-----------------------------------------------------------------------------
(* The hand-over of packets between the interrupt handler and the main     *)
(* loop, and the mode of the serial port: for every console and every user,*)
(* also those that the slot discipline rules out.                          *)

(* Adapter, ParsedPacketWaits: global.packet_parsed is set and cleared in  *)
(* step with serial.state, so command_handle never resumes a packet that   *)
(* another one has overwritten.                                            *)
THEOREM ParsedPacketsWait == Spec => []ParsedPacketWaits
  <1>1. Init => ParsedPacketWaits
    BY DEF Init, ParsedPacketWaits
  <1>2. ParsedPacketWaits /\ [Next]_vars => ParsedPacketWaits'
    <2> SUFFICES ASSUME ParsedPacketWaits, [Next]_vars PROVE ParsedPacketWaits'
      OBVIOUS
    <2> USE DEF ParsedPacketWaits
    <2>1. CASE UNCHANGED <<packet_parsed, serial_state>>
      BY <2>1
    <2>2. CASE ~packet_parsed'
      BY <2>2
    <2>3. CASE Interrupt
      BY <2>3 DEF Interrupt, TransferByte, TransferStart, TransferDrop,
         TransferPacket, TransferResponse, TransferAcknowledge, commandVars
    <2>4. CASE mobile_reset
      BY <2>4 DEF mobile_reset
    <2>5. CASE ProcessCommand
      <3>1. CASE UNCHANGED <<commandVars, serial_state>>
        BY <2>1, <3>1 DEF commandVars
      <3>2. ASSUME NEW reply \in Replies, serial_state = "RESPONSE_WAITING",
                   command_handle(reply),
                   serial_state' = IF reply = "pending" THEN serial_state
                                   ELSE "RESPONSE_INIT"
            PROVE  ParsedPacketWaits'
        <4>1. packet_parsed' = (reply = "pending")
          BY <3>2 DEF command_handle
        <4> QED BY <3>2, <4>1
      <3> QED BY <2>5, <3>1, <3>2 DEF ProcessCommand
    <2>6. CASE MainLoop
      <3>1. CASE DropConnection \/ ProcessCommand
        BY <2>4, <2>5, <3>1 DEF DropConnection
      <3>2. CASE ~DropConnection /\ ~ProcessCommand
        BY <2>1, <2>6, <3>2 DEF MainLoop, ActionsLatch, ActionsCollect,
           NothingToDo, Reset, ResetSerial, Change32BitMode, WriteConfig,
           InitNumber, commandVars, serialVars
      <3> QED BY <3>1, <3>2
    <2>7. CASE User
      <3>1. CASE mobile_stop \/ mobile_init
        BY <2>2, <2>4, <3>1 DEF mobile_stop, mobile_init
      <3>2. CASE ~mobile_stop /\ ~mobile_init
        BY <2>1, <2>7, <3>2 DEF User, mobile_start, mobile_config_set_relay,
           mobile_config_set_relay_token, mobile_config_set_dns, Configure,
           commandVars, serialVars
      <3> QED BY <3>1, <3>2
    <2>8. CASE TickSerial \/ TickCommand \/ UNCHANGED vars
      BY <2>1, <2>8 DEF TickSerial, TickCommand, vars, commandVars, serialVars
    <2> QED BY <2>3, <2>6, <2>7, <2>8 DEF Next
  <1> QED BY <1>1, <1>2, PTL DEF Spec

(* A stopped adapter keeps its port disabled: its main loop is not in the  *)
(* middle of an iteration that would enable it again.                      *)
StoppedPort == ~start => pc = "idle" /\ hardware = "disabled"

(* Adapter, PortModeAgrees: whenever the serial port is enabled, it was    *)
(* enabled in the mode in which mobile_transfer decodes its bytes.         *)
THEOREM PortModesAgree == Spec => []PortModeAgrees
  <1>1. Init => PortModeAgrees /\ StoppedPort
    BY DEF Init, PortModeAgrees, StoppedPort
  <1>2. PortModeAgrees /\ StoppedPort /\ [Next]_vars => (PortModeAgrees /\ StoppedPort)'
    <2> SUFFICES ASSUME PortModeAgrees, StoppedPort, [Next]_vars
                 PROVE  PortModeAgrees' /\ StoppedPort'
      OBVIOUS
    <2> USE DEF PortModeAgrees, StoppedPort
    <2>1. CASE UNCHANGED <<hardware, serial_mode_32bit>> /\ UNCHANGED <<start, pc>>
      BY <2>1
    <2>2. CASE Interrupt
      BY <2>1, <2>2 DEF Interrupt, TransferByte, TransferStart, TransferDrop,
         TransferPacket, TransferResponse, TransferAcknowledge, Transfer, loopVars
    <2>3. CASE MainLoop
      <3>1. start /\ start'
        BY <2>3 DEF MainLoop, ActionsLatch, ActionsCollect, NothingToDo,
           DropConnection, Reset, ProcessCommand, ResetSerial, Change32BitMode,
           WriteConfig, InitNumber, Turn
      <3>2. CASE DropConnection \/ Reset \/ ResetSerial \/ Change32BitMode
        BY <3>1, <3>2 DEF DropConnection, Reset, ResetSerial, Change32BitMode
      <3>3. CASE ~(DropConnection \/ Reset \/ ResetSerial \/ Change32BitMode)
        BY <2>3, <3>1, <3>3 DEF MainLoop, ActionsLatch, ActionsCollect,
           NothingToDo, ProcessCommand, WriteConfig, InitNumber, serialVars
      <3> QED BY <3>2, <3>3
    <2>4. CASE User
      <3>1. CASE mobile_start
        BY <3>1 DEF mobile_start
      <3>2. CASE mobile_stop
        BY <3>2 DEF mobile_stop
      <3>3. CASE mobile_init
        BY <3>3 DEF mobile_init
      <3>4. CASE \/ mobile_config_set_relay \/ mobile_config_set_relay_token
                 \/ mobile_config_set_dns
        BY <2>1, <3>4 DEF mobile_config_set_relay, mobile_config_set_relay_token,
           mobile_config_set_dns, Configure, serialVars, loopVars
      <3> QED BY <2>4, <3>1, <3>2, <3>3, <3>4 DEF User
    <2>5. CASE TickSerial \/ TickCommand \/ UNCHANGED vars
      BY <2>1, <2>5 DEF TickSerial, TickCommand, vars, serialVars, loopVars
    <2> QED BY <2>2, <2>3, <2>4, <2>5 DEF Next
  <1> QED BY <1>1, <1>2, PTL DEF Spec

(* Adapter, ModeSwitchIdle: serial.mode_32bit only changes while no packet *)
(* is exchanged, or when mobile_reset or mobile_init restarts the exchange.*)
THEOREM ModeSwitchesIdle == Spec => ModeSwitchIdle
  <1> DEFINE Switch == serial_mode_32bit' # serial_mode_32bit =>
                          serial_state = "WAITING" \/ serial_state' = "INIT"
  <1>1. [Next]_vars => [Switch]_vars
    <2> SUFFICES ASSUME Next PROVE Switch
      OBVIOUS
    <2>1. CASE Interrupt
      BY <2>1 DEF Interrupt, TransferByte, TransferStart, TransferDrop,
         TransferPacket, TransferResponse, TransferAcknowledge, Transfer
    <2>2. CASE MainLoop
      BY <2>2 DEF MainLoop, ActionsLatch, ActionsCollect, NothingToDo,
         DropConnection, mobile_reset, Reset, ProcessCommand, ResetSerial,
         Change32BitMode, WriteConfig, InitNumber, serialVars
    <2>3. CASE User
      BY <2>3 DEF User, mobile_start, mobile_stop, mobile_reset, mobile_init,
         mobile_config_set_relay, mobile_config_set_relay_token,
         mobile_config_set_dns, Configure, serialVars
    <2>4. CASE TickSerial \/ TickCommand
      BY <2>4 DEF TickSerial, TickCommand, serialVars
    <2> QED BY <2>1, <2>2, <2>3, <2>4 DEF Next
  <1>2. ModeSwitchIdle <=> [][Switch]_vars
    BY DEF ModeSwitchIdle
  <1> QED BY <1>1, <1>2, PTL DEF Spec

-----------------------------------------------------------------------------
(* A command that is not answered yet leaves the mode alone.               *)
LEMMA PendingKeepsMode ==
    ASSUME NEW reply, reply = "pending", mobile_commands_process(reply)
    PROVE  mode_32bit' = mode_32bit
  <1>1. CASE NoSession
    BY <1>1 DEF NoSession, sessionVars
  <1>2. CASE command_reinit(reply) \/ command_end(reply)
    BY <1>2 DEF command_reinit, command_end
  <1>3. CASE command_change_clock(reply) \/ command_start(reply)
    BY <1>3 DEF command_change_clock, command_start, Refuse
  <1>5. CASE command_tel(reply)
    BY <1>1, <1>5 DEF command_tel, command_tel_begin, Refuse, TelTimeout,
       command_tel_ip, command_tel_relay
  <1>6. CASE command_offline(reply) \/ command_ppp_disconnect(reply)
    BY <1>1, <1>6 DEF command_offline, command_ppp_disconnect, Refuse
  <1>7. CASE command_wait_call(reply)
    BY <1>1, <1>7 DEF command_wait_call, Refuse
  <1>8. CASE command_data(reply)
    BY <1>1, <1>8 DEF command_data, Refuse
  <1>9. CASE \/ command_ppp_connect(reply) \/ command_tcp_disconnect(reply)
             \/ command_stateless(reply)
    BY <1>1, <1>9 DEF command_ppp_connect, command_tcp_disconnect,
       command_stateless, Refuse
  <1>10. CASE command_tcp_connect(reply)
    BY <1>1, <1>10 DEF command_tcp_connect, command_tcp_connect_begin,
       command_tcp_connect_connecting, Refuse
  <1>11. CASE command_dns_request(reply)
    BY <1>1, <1>11 DEF command_dns_request, command_dns_request_begin,
       command_dns_request_check, Refuse
  <1> QED BY <1>2, <1>3, <1>5, <1>6, <1>7, <1>8, <1>9, <1>10, <1>11
      DEF mobile_commands_process

(* mobile_reset, of a drop or a stop.                                      *)
LEMMA ResetExchange == mobile_reset => ExchangeOf!Reset
  BY DEF mobile_reset, mobile_commands_reset, do_end_session, sessionVars,
     ExchangeOf!Reset

LEMMA ExchangeStep ==
    TypeOK /\ TypeOK' /\ [Next]_vars => [ExchangeOf!Next]_(ExchangeOf!exchangeVars)
  <1> SUFFICES ASSUME TypeOK, TypeOK', [Next]_vars
               PROVE  ExchangeOf!Next \/ UNCHANGED ExchangeOf!exchangeVars
    OBVIOUS
  <1>1. CASE UNCHANGED <<serial_state, serial_mode_32bit, mode_32bit>>
    BY <1>1 DEF ExchangeOf!exchangeVars
  <1>2. CASE mobile_reset
    BY <1>2, ResetExchange DEF ExchangeOf!Next
  <1>3. CASE Interrupt
    BY <1>3 DEF Interrupt, TransferByte, TransferStart, TransferDrop,
       TransferPacket, TransferResponse, TransferAcknowledge, Transfer,
       commandVars, sessionVars, ExchangeOf!exchangeVars, ExchangeOf!Next, ExchangeOf!Begin,
       ExchangeOf!Start, ExchangeOf!Drop, ExchangeOf!Deliver, ExchangeOf!Fetch,
       ExchangeOf!Acknowledge, ExchangeOf!Go
  <1>4. CASE ProcessCommand
    <2>1. CASE UNCHANGED <<commandVars, serial_state>>
      BY <1>1, <1>4, <2>1 DEF ProcessCommand, commandVars, sessionVars
    <2>2. ASSUME NEW reply \in Replies, serial_state = "RESPONSE_WAITING",
                 command_handle(reply),
                 serial_state' = IF reply = "pending" THEN serial_state
                                 ELSE "RESPONSE_INIT"
          PROVE  ExchangeOf!Next \/ UNCHANGED ExchangeOf!exchangeVars
      <3>1. CASE reply = "pending"
        BY <1>1, <1>4, <2>2, <3>1, PendingKeepsMode DEF command_handle, ProcessCommand
      <3>2. CASE reply # "pending"
        <4>1. mode_32bit' \in BOOLEAN
          BY DEF TypeOK, CommandsTypeOK
        <4> QED BY <1>4, <2>2, <3>2, <4>1 DEF ProcessCommand, ExchangeOf!Next,
               ExchangeOf!Respond
      <3> QED BY <3>1, <3>2
    <2> QED BY <1>4, <2>1, <2>2 DEF ProcessCommand
  <1>5. CASE Change32BitMode
    BY <1>1, <1>5 DEF Change32BitMode, commandVars, sessionVars, ExchangeOf!Next,
       ExchangeOf!ChangeMode
  <1>6. CASE MainLoop
    <2>1. CASE DropConnection \/ ProcessCommand \/ Change32BitMode
      BY <1>2, <1>4, <1>5, <2>1 DEF DropConnection
    <2>2. CASE ~(DropConnection \/ ProcessCommand \/ Change32BitMode)
      BY <1>1, <1>6, <2>2 DEF MainLoop, ActionsLatch, ActionsCollect,
         NothingToDo, Reset, ResetSerial, WriteConfig, InitNumber,
         commandVars, sessionVars, serialVars
    <2> QED BY <2>1, <2>2
  <1>7. CASE User
    <2>1. CASE mobile_stop
      BY <1>2, <2>1 DEF mobile_stop
    <2>2. CASE mobile_init
      BY <2>2 DEF mobile_init, ExchangeOf!Next, ExchangeOf!Reset
    <2>3. CASE ~mobile_stop /\ ~mobile_init
      BY <1>1, <1>7, <2>3 DEF User, mobile_start, mobile_config_set_relay,
         mobile_config_set_relay_token, mobile_config_set_dns, Configure,
         commandVars, sessionVars, serialVars
    <2> QED BY <2>1, <2>2, <2>3
  <1>8. CASE TickSerial \/ TickCommand \/ UNCHANGED vars
    BY <1>1, <1>8 DEF TickSerial, TickCommand, vars, commandVars, sessionVars,
       serialVars
  <1> QED BY <1>3, <1>6, <1>7, <1>8 DEF Next

(* Adapter, ImplementsExchange: for every console and every user, the      *)
(* commands, the main loop and the interrupt handler exchange packets as   *)
(* Exchange says, one at a time and each in one mode of the port.          *)
THEOREM AdapterExchanges == Spec => ImplementsExchange
  <1>1. Init => ExchangeOf!Init
    BY DEF Init, ExchangeOf!Init
  <1>2. Spec => []TypeOK
    BY TypeCorrect
  <1> QED BY <1>1, <1>2, ExchangeStep, PTL
      DEF Spec, ImplementsExchange, ExchangeOf!Spec

-----------------------------------------------------------------------------
(***************************************************************************)
(* The socket contract of Adapter, for a console and a user that behave as *)
(* OrderlyUse says, any number of connections, any commands and settings.  *)
(* SlotDiscipline is inductive; the lemmas go through the handlers and     *)
(* actions one by one.                                                     *)
(***************************************************************************)

(* Slots.                                                                  *)

LEMMA SlotValues ==
    /\ Closed # Misused
    /\ \A a : /\ Slot("tcp", a) \notin {Closed, Misused}
              /\ Slot("udp", a) \notin {Closed, Misused}
              /\ Slot("listening", a) \notin {Closed, Misused}
              /\ Slot("connected", a) \notin {Closed, Misused}
              /\ Slot("tcp", a).phase = "tcp"
              /\ Slot("listening", a).phase = "listening"
              /\ Slot("connected", a).phase = "connected"
    /\ Closed.phase = "closed"
    /\ Misused.phase = "misused"
  BY DEF Slot, Closed, Misused

(* What a call within the contract does.                                   *)
LEMMA OpenAt ==
    ASSUME NEW s \in [Conn -> Socket], NEW c \in Conn, s[c] = Closed,
           NEW type, NEW addr \in HostType
    PROVE  SockOpen(s, c, type, addr) = [s EXCEPT ![c] = Slot(type, addr)]
  BY DEF SockOpen

LEMMA CloseAt ==
    ASSUME NEW s \in [Conn -> Socket], NEW c \in Conn, s[c] \notin {Closed, Misused}
    PROVE  SockClose(s, c) = [s EXCEPT ![c] = Closed]
  BY DEF SockClose

LEMMA ConnectAt ==
    ASSUME NEW s \in [Conn -> Socket], NEW c \in Conn, NEW addr,
           s[c] = Slot("tcp", addr)
    PROVE  /\ SockConnect(s, c, addr, 1) = [s EXCEPT ![c] = Slot("connected", addr)]
           /\ \A rc : rc # 1 => SockConnect(s, c, addr, rc) = s
  BY DEF SockConnect

LEMMA ListenAt ==
    ASSUME NEW s \in [Conn -> Socket], NEW c \in Conn, NEW addr,
           s[c] = Slot("tcp", addr)
    PROVE  /\ SockListen(s, c, 1) = [s EXCEPT ![c] = Slot("listening", addr)]
           /\ SockListen(s, c, 0) = s
  BY SlotValues DEF SockListen, Slot

LEMMA AcceptAt ==
    ASSUME NEW s \in [Conn -> Socket], NEW c \in Conn, s[c].phase = "listening"
    PROVE  /\ SockAccept(s, c, 1) = [s EXCEPT ![c] = Slot("connected", s[c].addr)]
           /\ SockAccept(s, c, 0) = s
  BY DEF SockAccept

LEMMA StreamAt ==
    ASSUME NEW s \in [Conn -> Socket], NEW c \in Conn, s[c].phase = "connected"
    PROVE  SockStream(s, c) = s
  BY DEF SockStream

LEMMA DatagramAt ==
    ASSUME NEW s \in [Conn -> Socket], NEW c \in Conn, NEW addr,
           s[c] = Slot("udp", addr)
    PROVE  SockDatagram(s, c, addr) = s
  BY DEF SockDatagram

LEMMA CloseAllAt ==
    ASSUME NEW s \in [Conn -> Socket], NEW C,
           \A c \in Conn : c \in C <=> s[c] # Closed,
           \A c \in Conn : s[c] # Misused
    PROVE  SockCloseAll(s, C) = [c \in Conn |-> Closed]
  <1>1. ASSUME NEW c \in Conn, c \in C
        PROVE  SockClose(s, c)[c] = Closed
    BY <1>1, CloseAt
  <1> QED BY <1>1 DEF SockCloseAll

-----------------------------------------------------------------------------
(* The relay.  As RelaySlot, but after a step, with the address the step   *)
(* was given.                                                              *)
RelaySlotNext(goal, addr) ==
    /\ RelayInStep(goal)'
    /\ IF relay_state' \in {"DISCONNECTED", "RECV_CONNECT"}
       THEN addr \in HostType /\ sock'[p2p_conn] = Slot("tcp", addr)
       ELSE sock'[p2p_conn].phase = "connected"

(* A poll of the relay leaves the other slots alone.  It goes on, or ends  *)
(* with a connection (rc = 1, when the caller keeps it), or is closed.     *)
LEMMA RelayConnectSlots ==
    ASSUME NEW s \in [Conn -> Socket], NEW server \in HostType, NEW keep, NEW rc,
           s[p2p_conn] = Slot("tcp", server), 0 \in keep, -1 \notin keep,
           relay_connect(s, p2p_conn, server, keep, rc)
    PROVE  /\ rc \in {-1, 0}
           /\ rc = 0 => \/ /\ relay_state' = "RECV_CONNECT"
                           /\ sock' = s
                        \/ /\ relay_state' = "RECV_HANDSHAKE"
                           /\ sock' = [s EXCEPT ![p2p_conn] = Slot("connected", server)]
           /\ rc = -1 => sock' = [s EXCEPT ![p2p_conn] = Closed]
  <1> DEFINE t == [s EXCEPT ![p2p_conn] = Slot("connected", server)]
  <1>1. p2p_conn \in Conn
    BY ConnFacts
  <1>2. /\ SockConnect(s, p2p_conn, server, 1) = t
        /\ SockConnect(s, p2p_conn, server, 0) = s
        /\ SockConnect(s, p2p_conn, server, -1) = s
    BY <1>1, ConnectAt
  <1>3. t \in [Conn -> Socket] /\ t[p2p_conn] = Slot("connected", server)
    BY <1>1, SlotFacts
  <1>4. SockStream(t, p2p_conn) = t
    BY <1>1, <1>3, StreamAt, SlotValues
  <1>5. SockClose(t, p2p_conn) = [s EXCEPT ![p2p_conn] = Closed]
    <2>1. SockClose(t, p2p_conn) = [t EXCEPT ![p2p_conn] = Closed]
      BY <1>1, <1>3, CloseAt, SlotValues
    <2> QED BY <2>1
  <1>6. SockClose(s, p2p_conn) = [s EXCEPT ![p2p_conn] = Closed]
    BY <1>1, CloseAt, SlotValues
  <1> HIDE DEF t
  <1>7. CASE /\ rc \in {0, -1}
             /\ relay_state' = IF rc = 0 THEN "RECV_CONNECT" ELSE "DISCONNECTED"
             /\ sock' = Settle(SockConnect(s, p2p_conn, server, rc), p2p_conn, rc, keep)
    BY <1>7, <1>2, <1>6 DEF Settle
  <1>8. CASE /\ rc \in {0, -1}
             /\ relay_state' = IF rc = 0 THEN "RECV_HANDSHAKE" ELSE "RECV_CONNECT"
             /\ sock' = Settle(SockStream(SockConnect(s, p2p_conn, server, 1), p2p_conn),
                               p2p_conn, rc, keep)
    BY <1>8, <1>2, <1>4, <1>5 DEF Settle, t
  <1> QED BY <1>7, <1>8 DEF relay_connect

LEMMA RelayProcSlots ==
    ASSUME sock \in [Conn -> Socket], RelayTypeOK, NEW server, NEW goal \in Goal,
           NEW keep, NEW rc \in {-1, 0, 1, 2},
           0 \in keep, -1 \notin keep, 2 \notin keep,
           RelaySlot(goal, server),
           mobile_relay_proc(p2p_conn, server, goal, keep, rc)
    PROVE  /\ rc = 0 => RelaySlotNext(goal, server)
           /\ rc = 1 /\ 1 \in keep => sock'[p2p_conn].phase = "connected"
           /\ rc \notin keep => sock'[p2p_conn] = Closed
           /\ \A c \in Conn : c # p2p_conn => sock'[c] = sock[c]
           /\ goal = "number" => rc # 2
  <1>1. p2p_conn \in Conn
    BY ConnFacts
  <1>2. ASSUME relay_state \in {"DISCONNECTED", "RECV_CONNECT"}
        PROVE  /\ server \in HostType /\ sock[p2p_conn] = Slot("tcp", server)
               /\ relay_processing = "BEGIN"
    BY <1>2 DEF RelaySlot, RelayInStep
  <1>3. ASSUME relay_state \notin {"DISCONNECTED", "RECV_CONNECT"}
        PROVE  /\ sock[p2p_conn].phase = "connected"
               /\ Settle(SockStream(sock, p2p_conn), p2p_conn, rc, keep) =
                    IF rc \in keep THEN sock ELSE [sock EXCEPT ![p2p_conn] = Closed]
    <2>1. sock[p2p_conn].phase = "connected"
      BY <1>3 DEF RelaySlot
    <2>2. SockStream(sock, p2p_conn) = sock
      BY <1>1, <2>1, StreamAt
    <2>3. SockClose(sock, p2p_conn) = [sock EXCEPT ![p2p_conn] = Closed]
      BY <1>1, <2>1, CloseAt, SlotValues
    <2> QED BY <2>1, <2>2, <2>3 DEF Settle
  <1>4. CASE /\ relay_state \in {"DISCONNECTED", "RECV_CONNECT"}
             /\ relay_connect(sock, p2p_conn, server, keep, rc)
             /\ UNCHANGED relay_processing
    <2>1. /\ rc \in {-1, 0}
          /\ rc = 0 => \/ /\ relay_state' = "RECV_CONNECT"
                          /\ sock' = sock
                       \/ /\ relay_state' = "RECV_HANDSHAKE"
                          /\ sock' = [sock EXCEPT ![p2p_conn] = Slot("connected", server)]
          /\ rc = -1 => sock' = [sock EXCEPT ![p2p_conn] = Closed]
      BY <1>2, <1>4, RelayConnectSlots
    <2>2. rc = 0 => RelaySlotNext(goal, server)
      BY <1>1, <1>2, <1>4, <2>1, SlotValues DEF RelaySlotNext, RelayInStep
    <2> QED BY <1>1, <2>1, <2>2
  <1>5. CASE relay_handshake(p2p_conn, goal, keep, rc)
    <2>1. relay_state = "RECV_HANDSHAKE" /\ relay_processing = "BEGIN"
      BY <1>5 DEF relay_handshake, RelaySlot, RelayInStep
    <2>2. sock' = IF rc \in keep THEN sock ELSE [sock EXCEPT ![p2p_conn] = Closed]
      BY <1>3, <1>5, <2>1 DEF relay_handshake
    <2>3. /\ rc \in {0, -1}
          /\ rc = 0 => \/ relay_state' = relay_state /\ UNCHANGED relay_processing
                       \/ /\ relay_state' = "RECV_GET_NUMBER"
                          /\ relay_processing' = IF goal = "number" THEN relay_processing
                                                 ELSE "GET_NUMBER"
      BY <1>5 DEF relay_handshake
    <2>4. rc = 0 => RelaySlotNext(goal, server)
      BY <1>3, <2>1, <2>2, <2>3 DEF RelaySlotNext, RelayInStep
    <2> QED BY <1>1, <2>2, <2>3, <2>4
  <1>6. CASE relay_get_number(p2p_conn, goal, keep, rc)
    <2>1. /\ relay_state = "RECV_GET_NUMBER"
          /\ relay_processing = IF goal = "number" THEN "BEGIN" ELSE "GET_NUMBER"
      BY <1>6 DEF relay_get_number, RelaySlot, RelayInStep
    <2>2. sock' = IF rc \in keep THEN sock ELSE [sock EXCEPT ![p2p_conn] = Closed]
      BY <1>3, <1>6, <2>1 DEF relay_get_number
    <2>3. /\ rc \in {0, -1, 1}
          /\ rc = 0 => \/ relay_state' = relay_state /\ UNCHANGED relay_processing
                       \/ /\ relay_state' = IF goal = "call" THEN "RECV_CALL" ELSE "RECV_WAIT"
                          /\ relay_processing' = "FINAL"
                          /\ goal # "number"
      BY <1>6 DEF relay_get_number
    <2>4. rc = 0 => RelaySlotNext(goal, server)
      BY <1>3, <2>1, <2>2, <2>3 DEF RelaySlotNext, RelayInStep, Goal
    <2> QED BY <1>1, <1>3, <2>1, <2>2, <2>3, <2>4
  <1>7. CASE goal # "number" /\ relay_answer(p2p_conn, goal, keep, rc)
    <2>1. /\ relay_state = IF goal = "call" THEN "RECV_CALL" ELSE "RECV_WAIT"
          /\ relay_processing = "FINAL"
      BY <1>7 DEF relay_answer, RelaySlot, RelayInStep
    <2>2. sock' = IF rc \in keep THEN sock ELSE [sock EXCEPT ![p2p_conn] = Closed]
      BY <1>3, <1>7, <2>1 DEF relay_answer
    <2>3. rc = 0 => relay_state' = relay_state /\ UNCHANGED relay_processing
      BY <1>7 DEF relay_answer
    <2>4. rc = 0 => RelaySlotNext(goal, server)
      BY <1>3, <1>7, <2>1, <2>2, <2>3 DEF RelaySlotNext, RelayInStep, Goal
    <2> QED BY <1>1, <1>3, <1>7, <2>1, <2>2, <2>4
  <1> QED BY <1>4, <1>5, <1>6, <1>7 DEF mobile_relay_proc

-----------------------------------------------------------------------------
(* A handler during a session.                                             *)
SessionPre ==
    /\ HandlerTypes
    /\ packet_parsed \in BOOLEAN
    /\ SocketContract /\ PendingOK /\ SessionSlots
    /\ session_started

HandlerStep(reply) ==
    /\ reply \in Replies
    /\ reply = "pending" => /\ packet_parsed' /\ command' = command /\ arg' = arg
                            /\ serial_state' = "RESPONSE_WAITING"
    /\ reply # "pending" => ~packet_parsed'

SessionPost == SocketContract' /\ PendingOK' /\ SessionSlots'

LEMMA Beginning ==
    ASSUME SessionPre, Processing = "BEGIN",
           command \in {"TEL", "TCP_CONNECT", "DNS_REQUEST"}
    PROVE  ~packet_parsed
  BY DEF SessionPre, Processing, PendingOK

LEMMA CalmSlots ==
    ASSUME SessionPre, packet_parsed => command = "DATA"
    PROVE  /\ state = "DISCONNECTED" => sock[p2p_conn] = Closed
           /\ state = "WAIT_RELAY" => /\ relay_state = "RECV_WAIT"
                                      /\ RelayInStep("wait")
                                      /\ sock[p2p_conn].phase = "connected"
           /\ state = "INTERNET" => \A c \in Conn :
                 sock[c] = Closed \/ sock[c].phase = "connected"
  BY DEF SessionPre, SessionSlots, Pending, RelaySlot

LEMMA LocalCall ==
    ASSUME SessionPre, state # "INTERNET"
    PROVE  \A c \in Conn : c # p2p_conn => sock[c] = Closed /\ ~connections[c]
  BY DEF SessionPre, SessionSlots

(* A reply that changed nothing.                                           *)
LEMMA NothingSlots ==
    ASSUME SessionPre, packet_parsed => command = "DATA",
           NEW reply, HandlerStep(reply), reply # "pending",
           UNCHANGED <<sock, state, connections, relay_state, relay_processing>>
    PROVE  SessionPost
  <1>1. ~packet_parsed'
    BY DEF HandlerStep
  <1>2. SocketContract' /\ PendingOK'
    BY <1>1 DEF SessionPre, SocketContract, PendingOK
  <1>3. SessionSlots'
    BY <1>1, CalmSlots DEF SessionPre, SessionSlots, RelaySlot, RelayInStep, Pending
  <1> QED BY <1>2, <1>3 DEF SessionPost

LEMMA RefuseSlots ==
    ASSUME SessionPre, packet_parsed => command = "DATA",
           NEW reply, HandlerStep(reply), Refuse(reply)
    PROVE  SessionPost
  BY NothingSlots DEF Refuse, NoTable, NoSocket, NoRelay, relayVars

(* The table and the slots change together in slot c, in a state that is   *)
(* not the internet.                                                       *)
LEMMA CallSlots ==
    ASSUME SessionPre, state # "INTERNET", state' # "INTERNET",
           HandlerTypes',
           \A c \in Conn : c # p2p_conn =>
               sock'[c] = sock[c] /\ connections'[c] = connections[c],
           sock'[p2p_conn] # Misused,
           connections'[p2p_conn] <=> sock'[p2p_conn] # Closed,
           PendingOK',
           state' \in {"WAIT_TIMEOUT", "CALL_ISP"} => sock'[p2p_conn] = Closed,
           state' = "DISCONNECTED" => sock'[p2p_conn] = Closed \/ Pending("TEL")',
           state' = "WAIT" => sock'[p2p_conn].phase = "listening",
           state' = "WAIT_RELAY" =>
              /\ RelaySlot("wait", processing_addr)'
              /\ relay_state' = "RECV_WAIT" \/ Pending("WAIT_CALL")',
           state' \in {"CALL", "CALL_RECV"} => sock'[p2p_conn].phase = "connected"
    PROVE  SessionPost
  <1>1. SocketContract'
    BY DEF SessionPre, SocketContract
  <1>2. SessionSlots'
    BY LocalCall DEF SessionPre, SessionSlots
  <1> QED BY <1>1, <1>2 DEF SessionPost

-----------------------------------------------------------------------------
(* TEL.                                                                    *)
LEMMA TelSockSlots ==
    ASSUME SessionPre
    PROVE  /\ TelSock \in [Conn -> Socket]
           /\ TelSock[p2p_conn] = Closed
           /\ \A c \in Conn : c # p2p_conn => TelSock[c] = sock[c]
           /\ Disconnected(p2p_conn)[p2p_conn] = FALSE
           /\ Connected(p2p_conn)[p2p_conn] = TRUE
           /\ \A c \in Conn : c # p2p_conn =>
                 /\ Disconnected(p2p_conn)[c] = connections[c]
                 /\ Connected(p2p_conn)[c] = connections[c]
  <1>1. /\ p2p_conn \in Conn /\ sock \in [Conn -> Socket]
        /\ connections \in [Conn -> BOOLEAN]
    BY ConnFacts DEF SessionPre, HandlerTypes
  <1>2. CASE connections[p2p_conn]
    <2>1. sock[p2p_conn] \notin {Closed, Misused}
      BY <1>1, <1>2 DEF SessionPre, SessionSlots, SocketContract
    <2>2. TelSock = [sock EXCEPT ![p2p_conn] = Closed]
      BY <1>1, <1>2, <2>1, CloseAt DEF TelSock
    <2>3. /\ TelSock \in [Conn -> Socket] /\ TelSock[p2p_conn] = Closed
          /\ \A c \in Conn : c # p2p_conn => TelSock[c] = sock[c]
      BY <1>1, <2>2, SlotFacts
    <2> QED BY <1>1, <2>3 DEF Disconnected, Connected
  <1>3. CASE ~connections[p2p_conn]
    <2>1. sock[p2p_conn] = Closed
      BY <1>1, <1>3 DEF SessionPre, SessionSlots
    <2> QED BY <1>1, <1>3, <2>1 DEF TelSock, Disconnected, Connected
  <1> QED BY <1>2, <1>3

LEMMA TelOpenSlots ==
    ASSUME SessionPre, HandlerTypes', state \in Waitable, command = "TEL",
           session_started',
           NEW reply, HandlerStep(reply),
           NEW addr \in HostType, NEW next \in {"IP", "RELAY"},
           next = "IP" => addr = "ipv4",
           next = "RELAY" => mobile_relay_init,
           TelOpen(addr, next, reply)
    PROVE  SessionPost
  <1>1. CASE reply = "error"
    <2>1. ~packet_parsed'
      BY <1>1 DEF HandlerStep
    <2>2. PendingOK'
      BY <2>1 DEF PendingOK
    <2>3. /\ state' = "DISCONNECTED" /\ sock' = TelSock
          /\ connections' = Disconnected(p2p_conn)
      BY <1>1 DEF TelOpen
    <2> QED BY <2>2, <2>3, TelSockSlots, CallSlots, SlotValues DEF Waitable
  <1>2. CASE reply = "pending"
    <2>1. /\ state' = "DISCONNECTED"
          /\ sock' = SockOpen(TelSock, p2p_conn, "tcp", addr)
          /\ connections' = Connected(p2p_conn)
          /\ processing' = next /\ processing_addr' = addr
      BY <1>2 DEF TelOpen, Proc
    <2>2. sock' = [TelSock EXCEPT ![p2p_conn] = Slot("tcp", addr)]
      <3>1. /\ TelSock \in [Conn -> Socket] /\ TelSock[p2p_conn] = Closed
            /\ p2p_conn \in Conn
        BY TelSockSlots, ConnFacts
      <3> QED BY <2>1, <3>1, OpenAt
    <2>3. /\ sock'[p2p_conn] = Slot("tcp", addr)
          /\ \A c \in Conn : c # p2p_conn => sock'[c] = sock[c]
      BY <2>2, TelSockSlots, ConnFacts
    <2>4. /\ packet_parsed' /\ command' = "TEL" /\ serial_state' = "RESPONSE_WAITING"
      BY <1>2 DEF HandlerStep
    <2>5. next = "RELAY" => RelaySlot("call", processing_addr)'
      BY <2>1, <2>3 DEF RelaySlot, RelayInStep, mobile_relay_init
    <2>6. PendingOK'
      BY <2>1, <2>3, <2>4, <2>5 DEF PendingOK
    <2>7. Pending("TEL")'
      BY <2>4 DEF Pending
    <2> QED BY <2>1, <2>3, <2>6, <2>7, TelSockSlots, CallSlots, SlotValues DEF Waitable
  <1> QED BY <1>1, <1>2 DEF TelOpen

LEMMA TelBeginSlots ==
    ASSUME SessionPre, HandlerTypes', config_relay \in AddrType, ~packet_parsed,
           command = "TEL", NEW reply, HandlerStep(reply),
           command_tel_begin(reply)
    PROVE  SessionPost
  <1>1. CASE Refuse(reply)
    BY <1>1, RefuseSlots
  <1>2. CASE ~Refuse(reply)
    <2>1. state \in Waitable /\ NoSession
      BY <1>2 DEF command_tel_begin
    <2>2. session_started'
      BY <2>1 DEF NoSession, sessionVars, SessionPre
    <2>3. CASE /\ reply \in {"ok", "error"}
               /\ sock' = TelSock
               /\ connections' = Disconnected(p2p_conn)
               /\ state' \in {"DISCONNECTED", "CALL_ISP"}
      <3>1. ~packet_parsed'
        BY <2>3 DEF HandlerStep
      <3>2. PendingOK'
        BY <3>1 DEF PendingOK
      <3> QED BY <2>1, <2>3, <3>2, TelSockSlots, CallSlots, SlotValues DEF Waitable
    <2>4. CASE /\ config_relay # "none"
               /\ mobile_relay_init
               /\ TelOpen(config_relay, "RELAY", reply)
      <3>1. config_relay \in HostType
        BY <2>4 DEF AddrType
      <3> QED BY <2>1, <2>2, <2>4, <3>1, TelOpenSlots
    <2>5. CASE TelOpen("ipv4", "IP", reply)
      <3>1. "ipv4" \in HostType
        BY DEF HostType
      <3> QED BY <2>1, <2>2, <2>5, <3>1, TelOpenSlots
    <2> QED BY <1>2, <2>3, <2>4, <2>5 DEF command_tel_begin
  <1> QED BY <1>1, <1>2

LEMMA TelPollSlots ==
    ASSUME SessionPre, HandlerTypes', packet_parsed, command = "TEL",
           NEW reply, HandlerStep(reply),
           \/ TelTimeout(reply)
           \/ processing = "IP" /\ command_tel_ip(reply)
           \/ processing = "RELAY" /\ command_tel_relay(reply)
    PROVE  SessionPost
  <1>1. /\ p2p_conn \in Conn /\ sock \in [Conn -> Socket]
        /\ connections \in [Conn -> BOOLEAN]
    BY ConnFacts DEF SessionPre, HandlerTypes
  <1>2. /\ state = "DISCONNECTED" /\ processing \in {"IP", "RELAY"}
        /\ processing = "IP" =>
              /\ processing_addr = "ipv4"
              /\ sock[p2p_conn] = Slot("tcp", "ipv4")
        /\ processing = "RELAY" => RelaySlot("call", processing_addr)
    BY DEF SessionPre, PendingOK
  <1>3. sock[p2p_conn] \notin {Closed, Misused}
    BY <1>2, SlotValues DEF RelaySlot
  <1>4. connections[p2p_conn]
    BY <1>1, <1>3 DEF SessionPre, SessionSlots
  <1>5. ASSUME reply # "pending"
        PROVE  PendingOK' /\ ~packet_parsed'
    BY <1>5 DEF HandlerStep, PendingOK
  <1>6. Processing = processing
    BY DEF Processing
  <1>7. ASSUME reply = "pending", NoProc(reply)
        PROVE  /\ processing' = processing /\ processing_addr' = processing_addr
               /\ command' = "TEL" /\ packet_parsed'
               /\ serial_state' = "RESPONSE_WAITING"
    BY <1>6, <1>7 DEF NoProc, Proc, HandlerStep
  <1>8. ASSUME NoSession
        PROVE  session_started'
    BY <1>8 DEF NoSession, sessionVars, SessionPre
  <1>9. CASE TelTimeout(reply)
    <2>1. /\ sock' = SockClose(sock, p2p_conn) /\ state' = "DISCONNECTED"
          /\ connections' = Disconnected(p2p_conn) /\ reply = "error"
      BY <1>2, <1>9 DEF TelTimeout
    <2>2. sock' = [sock EXCEPT ![p2p_conn] = Closed]
      BY <1>1, <1>3, <2>1, CloseAt
    <2> QED BY <1>1, <1>2, <1>5, <2>1, <2>2, TelSockSlots, CallSlots, SlotValues
  <1>10. CASE processing = "IP" /\ command_tel_ip(reply)
    <2>1. /\ NoSession /\ NoProc(reply)
          /\ \/ /\ reply = "pending" /\ sock' = sock
                /\ state' = state /\ connections' = connections
             \/ /\ reply = "error"
                /\ sock' = [sock EXCEPT ![p2p_conn] = Closed]
                /\ state' = state /\ connections' = Disconnected(p2p_conn)
             \/ /\ reply = "ok"
                /\ sock' = [sock EXCEPT ![p2p_conn] = Slot("connected", "ipv4")]
                /\ state' = "CALL" /\ connections' = connections
      <3>1. /\ SockConnect(sock, p2p_conn, processing_addr, 0) = sock
            /\ SockConnect(sock, p2p_conn, processing_addr, -1) = sock
            /\ SockConnect(sock, p2p_conn, processing_addr, 1) =
                 [sock EXCEPT ![p2p_conn] = Slot("connected", "ipv4")]
        BY <1>1, <1>2, <1>10, ConnectAt
      <3>2. SockClose(sock, p2p_conn) = [sock EXCEPT ![p2p_conn] = Closed]
        BY <1>1, <1>3, CloseAt
      <3> QED BY <1>10, <3>1, <3>2 DEF command_tel_ip, NoTable
    <2>2. CASE reply = "pending" /\ sock' = sock
               /\ state' = state /\ connections' = connections
      <3>1. PendingOK' /\ Pending("TEL")'
        BY <1>2, <1>7, <1>8, <1>10, <2>1, <2>2 DEF PendingOK, Pending
      <3> QED BY <1>1, <1>2, <1>3, <1>4, <2>2, <3>1, CallSlots
    <2>3. CASE reply = "error"
               /\ sock' = [sock EXCEPT ![p2p_conn] = Closed]
               /\ state' = state /\ connections' = Disconnected(p2p_conn)
      BY <1>1, <1>2, <1>5, <2>3, TelSockSlots, CallSlots, SlotValues
    <2>4. CASE reply = "ok"
               /\ sock' = [sock EXCEPT ![p2p_conn] = Slot("connected", "ipv4")]
               /\ state' = "CALL" /\ connections' = connections
      BY <1>1, <1>2, <1>4, <1>5, <2>4, CallSlots, SlotValues
    <2> QED BY <2>1, <2>2, <2>3, <2>4
  <1>11. CASE processing = "RELAY" /\ command_tel_relay(reply)
    <2>1. PICK rc \in {-1, 0, 1, 2} :
             /\ mobile_relay_proc(p2p_conn, processing_addr, "call", {0, 1}, rc)
             /\ reply = CASE rc = 0 -> "pending" [] rc = 1 -> "ok" [] OTHER -> "error"
             /\ state' = IF rc = 1 THEN "CALL" ELSE state
             /\ connections' = IF rc \in {0, 1} THEN connections
                               ELSE Disconnected(p2p_conn)
      BY <1>11 DEF command_tel_relay
    <2>2. NoSession /\ NoProc(reply)
      BY <1>11 DEF command_tel_relay
    <2>3. /\ rc = 0 => RelaySlotNext("call", processing_addr)
          /\ rc = 1 => sock'[p2p_conn].phase = "connected"
          /\ rc \notin {0, 1} => sock'[p2p_conn] = Closed
          /\ \A c \in Conn : c # p2p_conn => sock'[c] = sock[c]
      <3>1. /\ 0 \in {0, 1} /\ 1 \in {0, 1} /\ -1 \notin {0, 1} /\ 2 \notin {0, 1}
            /\ "call" \in Goal /\ RelayTypeOK
        BY DEF Goal, SessionPre, HandlerTypes
      <3> QED BY <1>1, <1>2, <1>11, <2>1, <3>1, RelayProcSlots
    <2>4. CASE rc = 0
      <3>1. sock'[p2p_conn] \notin {Closed, Misused}
        BY <2>3, <2>4, SlotValues DEF RelaySlotNext
      <3>2. RelaySlot("call", processing_addr)'
        BY <1>7, <2>1, <2>2, <2>3, <2>4 DEF RelaySlot, RelaySlotNext
      <3>3. PendingOK' /\ Pending("TEL")'
        BY <1>2, <1>7, <1>8, <1>11, <2>1, <2>2, <2>4, <3>2 DEF PendingOK, Pending
      <3> QED BY <1>1, <1>2, <1>4, <2>1, <2>3, <2>4, <3>1, <3>3, CallSlots
    <2>5. CASE rc = 1
      <3>1. sock'[p2p_conn] \notin {Closed, Misused}
        BY <2>3, <2>5, SlotValues
      <3>2. state' = "CALL" /\ reply = "ok" /\ connections' = connections
        BY <2>1, <2>5
      <3> QED BY <1>1, <1>2, <1>4, <1>5, <2>3, <2>5, <3>1, <3>2, CallSlots
    <2>6. CASE rc \in {-1, 2}
      <3>1. /\ state' = "DISCONNECTED" /\ reply = "error"
            /\ connections' = Disconnected(p2p_conn) /\ sock'[p2p_conn] = Closed
        BY <1>2, <2>1, <2>3, <2>6
      <3> QED BY <1>1, <1>2, <1>5, <2>3, <3>1, TelSockSlots, CallSlots, SlotValues
    <2> QED BY <2>4, <2>5, <2>6
  <1> QED BY <1>9, <1>10, <1>11

-----------------------------------------------------------------------------
(* WAIT_CALL.                                                              *)
LEMMA WaitBeginSlots ==
    ASSUME SessionPre, HandlerTypes', config_relay \in AddrType,
           state \in {"DISCONNECTED", "WAIT_TIMEOUT"}, command = "WAIT_CALL",
           session_started', NEW reply, HandlerStep(reply),
           command_wait_call_begin(reply)
    PROVE  SessionPost
  <1>1. /\ p2p_conn \in Conn /\ sock \in [Conn -> Socket]
        /\ connections \in [Conn -> BOOLEAN]
    BY ConnFacts DEF SessionPre, HandlerTypes
  <1>2. sock[p2p_conn] = Closed
    BY <1>1 DEF SessionPre, SessionSlots, Pending
  <1>3. ~connections[p2p_conn]
    BY <1>1, <1>2 DEF SessionPre, SessionSlots
  <1>4. ASSUME reply = "error"
        PROVE  PendingOK'
    BY <1>4 DEF HandlerStep, PendingOK
  <1>5. ASSUME NEW addr \in HostType
        PROVE  /\ SockOpen(sock, p2p_conn, "tcp", addr) =
                    [sock EXCEPT ![p2p_conn] = Slot("tcp", addr)]
               /\ [sock EXCEPT ![p2p_conn] = Slot("tcp", addr)] \in [Conn -> Socket]
               /\ [sock EXCEPT ![p2p_conn] = Slot("tcp", addr)][p2p_conn] = Slot("tcp", addr)
    <2>1. Slot("tcp", addr) \in Socket
      BY SlotFacts
    <2> QED BY <1>1, <1>2, <2>1, OpenAt
  <1>6. CASE /\ reply = "error" /\ state' = "WAIT_TIMEOUT"
             /\ connections' = connections /\ sock' = sock
    BY <1>1, <1>2, <1>3, <1>4, <1>6, CallSlots, SlotValues
  <1>7. CASE /\ config_relay # "none" /\ reply = "pending"
             /\ sock' = SockOpen(sock, p2p_conn, "tcp", config_relay)
             /\ connections' = Connected(p2p_conn)
             /\ state' = "WAIT_RELAY"
    <2>1. config_relay \in HostType
      BY <1>7 DEF AddrType
    <2>2. sock' = [sock EXCEPT ![p2p_conn] = Slot("tcp", config_relay)]
      BY <1>5, <1>7, <2>1
    <2>3. sock'[p2p_conn] = Slot("tcp", config_relay)
      BY <1>1, <2>2
    <2>4. /\ mobile_relay_init
          /\ processing' = "DONE" /\ processing_addr' = config_relay
      BY <1>7 DEF command_wait_call_begin, Proc
    <2>5. RelaySlot("wait", processing_addr)'
      BY <2>1, <2>3, <2>4 DEF RelaySlot, RelayInStep, mobile_relay_init
    <2>6. PendingOK' /\ Pending("WAIT_CALL")'
      BY <1>7, <2>4 DEF PendingOK, HandlerStep, Pending
    <2>7. \A c \in Conn : c # p2p_conn => sock'[c] = sock[c]
      BY <1>1, <2>2
    <2> QED BY <1>7, <2>3, <2>5, <2>6, <2>7, TelSockSlots, CallSlots, SlotValues
  <1>8. CASE /\ reply = "error"
             /\ sock' = SockClose(SockListen(SockOpen(sock, p2p_conn, "tcp", "ipv4"),
                                             p2p_conn, 0), p2p_conn)
             /\ state' = "WAIT_TIMEOUT"
             /\ connections' = connections
    <2> DEFINE t == [sock EXCEPT ![p2p_conn] = Slot("tcp", "ipv4")]
    <2>1. /\ SockOpen(sock, p2p_conn, "tcp", "ipv4") = t
          /\ t \in [Conn -> Socket] /\ t[p2p_conn] = Slot("tcp", "ipv4")
      BY <1>5 DEF HostType
    <2> HIDE DEF t
    <2>2. SockListen(t, p2p_conn, 0) = t
      BY <1>1, <2>1, ListenAt
    <2>3. sock' = [t EXCEPT ![p2p_conn] = Closed]
      BY <1>1, <1>8, <2>1, <2>2, CloseAt, SlotValues
    <2>4. /\ sock'[p2p_conn] = Closed
          /\ \A c \in Conn : c # p2p_conn => sock'[c] = sock[c]
      BY <1>1, <2>1, <2>3 DEF t
    <2> QED BY <1>3, <1>4, <1>8, <2>4, CallSlots, SlotValues
  <1>9. CASE /\ reply = "pending"
             /\ sock' = SockListen(SockOpen(sock, p2p_conn, "tcp", "ipv4"), p2p_conn, 1)
             /\ connections' = Connected(p2p_conn)
             /\ state' = "WAIT"
    <2> DEFINE t == [sock EXCEPT ![p2p_conn] = Slot("tcp", "ipv4")]
    <2>1. /\ SockOpen(sock, p2p_conn, "tcp", "ipv4") = t
          /\ t \in [Conn -> Socket] /\ t[p2p_conn] = Slot("tcp", "ipv4")
      BY <1>5 DEF HostType
    <2> HIDE DEF t
    <2>2. sock' = [t EXCEPT ![p2p_conn] = Slot("listening", "ipv4")]
      BY <1>1, <1>9, <2>1, ListenAt
    <2>3. /\ sock'[p2p_conn] = Slot("listening", "ipv4")
          /\ \A c \in Conn : c # p2p_conn => sock'[c] = sock[c]
      BY <1>1, <2>1, <2>2 DEF t
    <2>4. processing' = "DONE"
      BY <1>9 DEF command_wait_call_begin, Proc
    <2>5. PendingOK'
      BY <1>9, <2>4 DEF PendingOK, HandlerStep
    <2>6. sock'[p2p_conn] \notin {Closed, Misused}
          /\ sock'[p2p_conn].phase = "listening"
      BY <2>3, SlotValues
    <2>7. /\ connections'[p2p_conn] = TRUE
          /\ \A c \in Conn : c # p2p_conn => connections'[c] = connections[c]
      BY <1>9, TelSockSlots
    <2>8. state' = "WAIT"
      BY <1>9
    <2> QED BY <2>3, <2>5, <2>6, <2>7, <2>8, CallSlots
  <1> QED BY <1>6, <1>7, <1>8, <1>9 DEF command_wait_call_begin, NoSocket

LEMMA WaitIpSlots ==
    ASSUME SessionPre, HandlerTypes', state = "WAIT", command = "WAIT_CALL",
           session_started', NEW reply, HandlerStep(reply), NEW time,
           command_wait_call_ip(time, reply)
    PROVE  SessionPost
  <1>1. /\ p2p_conn \in Conn /\ sock \in [Conn -> Socket]
        /\ connections \in [Conn -> BOOLEAN]
    BY ConnFacts DEF SessionPre, HandlerTypes
  <1>2. sock[p2p_conn].phase = "listening" /\ sock[p2p_conn] \notin {Closed, Misused}
    BY <1>1, SlotValues DEF SessionPre, SessionSlots
  <1>3. connections[p2p_conn] /\ connections' = connections
    BY <1>1, <1>2 DEF SessionPre, SessionSlots, command_wait_call_ip
  <1>4. ASSUME reply # "pending"
        PROVE  PendingOK'
    BY <1>4 DEF HandlerStep, PendingOK
  <1>5. CASE reply = "error"
    <2>1. sock' = sock /\ state' = "WAIT"
      BY <1>5 DEF command_wait_call_ip, NoSocket
    <2> QED BY <1>1, <1>2, <1>3, <1>4, <1>5, <2>1, CallSlots
  <1>6. CASE reply = "pending"
    <2>1. /\ sock' = SockAccept(sock, p2p_conn, 0) /\ state' = "WAIT"
          /\ processing' = "DONE"
      BY <1>6 DEF command_wait_call_ip, Proc
    <2>2. sock' = sock
      BY <1>1, <1>2, <2>1, AcceptAt
    <2>3. PendingOK'
      BY <1>6, <2>1 DEF PendingOK, HandlerStep
    <2> QED BY <1>1, <1>2, <1>3, <2>1, <2>2, <2>3, CallSlots
  <1>7. CASE reply = "ok"
    <2>1. sock' = SockAccept(sock, p2p_conn, 1) /\ state' = "CALL_RECV"
      BY <1>7 DEF command_wait_call_ip
    <2>2. sock' = [sock EXCEPT ![p2p_conn] = Slot("connected", sock[p2p_conn].addr)]
      BY <1>1, <1>2, <2>1, AcceptAt
    <2>3. /\ sock'[p2p_conn].phase = "connected"
          /\ sock'[p2p_conn] \notin {Closed, Misused}
          /\ \A c \in Conn : c # p2p_conn => sock'[c] = sock[c]
      BY <1>1, <2>2, SlotValues
    <2> QED BY <1>3, <1>4, <1>7, <2>1, <2>3, CallSlots
  <1> QED BY <1>5, <1>6, <1>7 DEF HandlerStep, Replies

LEMMA WaitRelaySlots ==
    ASSUME SessionPre, HandlerTypes', state = "WAIT_RELAY", command = "WAIT_CALL",
           session_started', NEW reply, HandlerStep(reply), NEW time,
           command_wait_call_relay(time, reply)
    PROVE  SessionPost
  <1>1. /\ p2p_conn \in Conn /\ sock \in [Conn -> Socket]
        /\ connections \in [Conn -> BOOLEAN]
    BY ConnFacts DEF SessionPre, HandlerTypes
  <1>2. RelaySlot("wait", processing_addr)
    BY DEF SessionPre, SessionSlots
  <1>3. sock[p2p_conn] \notin {Closed, Misused}
    BY <1>2, SlotValues DEF RelaySlot
  <1>4. connections[p2p_conn]
    BY <1>1, <1>3 DEF SessionPre, SessionSlots
  <1>5. ASSUME reply # "pending"
        PROVE  PendingOK'
    BY <1>5 DEF HandlerStep, PendingOK
  <1>6. CASE /\ relay_state = "RECV_WAIT" /\ reply = "error"
             /\ NoRelay /\ NoSocket /\ NoTable
    <2>1. UNCHANGED <<sock, state, connections, relay_state, relay_processing>>
      BY <1>6 DEF NoRelay, NoSocket, NoTable, relayVars
    <2>2. RelaySlot("wait", processing_addr)'
      BY <1>2, <1>6, <2>1 DEF RelaySlot, RelayInStep
    <2> QED BY <1>1, <1>3, <1>4, <1>5, <1>6, <2>1, <2>2, CallSlots
  <1>7. CASE /\ reply = "error"
             /\ sock' = SockClose(sock, p2p_conn)
             /\ connections' = Disconnected(p2p_conn)
             /\ state' = "DISCONNECTED"
    <2>1. sock' = [sock EXCEPT ![p2p_conn] = Closed]
      BY <1>1, <1>3, <1>7, CloseAt
    <2> QED BY <1>1, <1>5, <1>7, <2>1, TelSockSlots, CallSlots, SlotValues
  <1>8. ASSUME NEW rc \in {-1, 0, 1, 2},
               mobile_relay_proc(p2p_conn, processing_addr, "wait", {0, 1}, rc),
               reply = CASE rc = 0 -> "pending" [] rc = 1 -> "ok" [] OTHER -> "error",
               state' = CASE rc = 0 -> state [] rc = 1 -> "CALL_RECV"
                          [] OTHER -> "WAIT_TIMEOUT",
               connections' = IF rc \in {0, 1} THEN connections
                              ELSE Disconnected(p2p_conn)
        PROVE  SessionPost
    <2>1. /\ rc = 0 => RelaySlotNext("wait", processing_addr)
          /\ rc = 1 => sock'[p2p_conn].phase = "connected"
          /\ rc \notin {0, 1} => sock'[p2p_conn] = Closed
          /\ \A c \in Conn : c # p2p_conn => sock'[c] = sock[c]
      <3>1. /\ 0 \in {0, 1} /\ 1 \in {0, 1} /\ -1 \notin {0, 1} /\ 2 \notin {0, 1}
            /\ "wait" \in Goal /\ RelayTypeOK
        BY DEF Goal, SessionPre, HandlerTypes
      <3> QED BY <1>1, <1>2, <1>8, <3>1, RelayProcSlots
    <2>2. CASE rc = 0
      <3>1. /\ sock'[p2p_conn] \notin {Closed, Misused}
            /\ reply = "pending" /\ state' = "WAIT_RELAY" /\ connections' = connections
        BY <1>8, <2>1, <2>2, SlotValues DEF RelaySlotNext
      <3>2. processing' = "DONE" /\ processing_addr' = processing_addr
        BY <3>1 DEF command_wait_call_relay, Proc
      <3>3. RelaySlot("wait", processing_addr)'
        BY <2>1, <2>2, <3>2 DEF RelaySlot, RelaySlotNext
      <3>4. PendingOK' /\ Pending("WAIT_CALL")'
        BY <3>1, <3>2 DEF PendingOK, HandlerStep, Pending
      <3> QED BY <1>1, <1>4, <2>1, <3>1, <3>3, <3>4, CallSlots
    <2>3. CASE rc = 1
      <3>1. /\ sock'[p2p_conn] \notin {Closed, Misused}
            /\ reply = "ok" /\ state' = "CALL_RECV" /\ connections' = connections
        BY <1>8, <2>1, <2>3, SlotValues
      <3> QED BY <1>1, <1>4, <1>5, <2>1, <2>3, <3>1, CallSlots
    <2>4. CASE rc \in {-1, 2}
      <3>1. /\ sock'[p2p_conn] = Closed
            /\ reply = "error" /\ state' = "WAIT_TIMEOUT"
            /\ connections' = Disconnected(p2p_conn)
        BY <1>8, <2>1, <2>4
      <3> QED BY <1>1, <1>5, <2>1, <3>1, TelSockSlots, CallSlots, SlotValues
    <2> QED BY <2>2, <2>3, <2>4
  <1> QED BY <1>6, <1>7, <1>8 DEF command_wait_call_relay

LEMMA WaitCallSlots ==
    ASSUME SessionPre, HandlerTypes', config_relay \in AddrType,
           command = "WAIT_CALL", NEW reply, HandlerStep(reply),
           command_wait_call(reply)
    PROVE  SessionPost
  <1>1. CASE state \notin Waitable
    <2>1. ~packet_parsed
      BY <1>1 DEF SessionPre, PendingOK, Waitable
    <2> QED BY <1>1, <2>1, RefuseSlots DEF command_wait_call, Waitable
  <1>2. CASE /\ Processing = "BEGIN" /\ state = "WAIT_TIMEOUT" /\ reply = "pending"
             /\ NoSocket /\ NoTable /\ NoSession /\ NoProc(reply)
    <2>1. sock[p2p_conn] = Closed /\ p2p_conn \in Conn
      BY <1>2, ConnFacts DEF SessionPre, SessionSlots
    <2>2. ~connections[p2p_conn]
      BY <2>1 DEF SessionPre, SessionSlots
    <2>3. UNCHANGED <<sock, state, connections, session_started>> /\ processing' = "BEGIN"
      BY <1>2 DEF NoSocket, NoTable, NoSession, sessionVars, NoProc, Proc
    <2>4. PendingOK'
      BY <1>2, <2>3 DEF PendingOK, HandlerStep, SessionPre
    <2> QED BY <1>2, <2>1, <2>2, <2>3, <2>4, CallSlots, SlotValues
  <1>3. CASE /\ state \in Waitable /\ NoSession
             /\ \/ state \in {"DISCONNECTED", "WAIT_TIMEOUT"} /\ command_wait_call_begin(reply)
                \/ state = "WAIT" /\ command_wait_call_ip(command_time', reply)
                \/ state = "WAIT_RELAY" /\ command_wait_call_relay(command_time', reply)
    <2>1. session_started'
      BY <1>3 DEF NoSession, sessionVars, SessionPre
    <2> QED BY <1>3, <2>1, WaitBeginSlots, WaitIpSlots, WaitRelaySlots
  <1> QED BY <1>1, <1>2, <1>3 DEF command_wait_call

-----------------------------------------------------------------------------
(* The ends of calls and sessions.                                         *)
AllClosed == [c \in Conn |-> Closed]

LEMMA HangUpAll ==
    ASSUME SessionPre, OffHook
    PROVE  /\ SockCloseAll(sock, HangUp) = AllClosed
           /\ \A c \in Conn : ~(connections[c] /\ c \notin HangUp)
  <1>1. /\ sock \in [Conn -> Socket] /\ SocketContract /\ SessionSlots
        /\ session_started
    BY DEF SessionPre, HandlerTypes
  <1>2. \A c \in Conn : c \in HangUp <=> connections[c]
    BY <1>1 DEF HangUp, OffHook, SessionSlots
  <1>3. \A c \in Conn : c \in HangUp <=> sock[c] # Closed
    BY <1>1, <1>2 DEF SessionSlots
  <1> QED BY <1>1, <1>2, <1>3, CloseAllAt DEF AllClosed, SocketContract

LEMMA EndedAll ==
    ASSUME SessionPre
    PROVE  EndedSock = AllClosed
  <1> DEFINE C == HangUp \cup {c \in {p2p_conn} : connections[c]}
  <1>1. /\ sock \in [Conn -> Socket] /\ SocketContract /\ SessionSlots
        /\ session_started
    BY DEF SessionPre, HandlerTypes
  <1>2. \A c \in Conn : c \in C <=> connections[c]
    BY <1>1 DEF HangUp, SessionSlots
  <1>3. \A c \in Conn : c \in C <=> sock[c] # Closed
    BY <1>1, <1>2 DEF SessionSlots
  <1> HIDE DEF C
  <1>4. SockCloseAll(sock, C) = AllClosed
    BY <1>1, <1>3, CloseAllAt DEF AllClosed, SocketContract
  <1> QED BY <1>4 DEF EndedSock, C

(* Afterwards everything is closed.                                        *)
LEMMA ClosedSlots ==
    ASSUME sock' = AllClosed, ~packet_parsed',
           \A c \in Conn : ~connections'[c],
           state' \in {"DISCONNECTED", "CALL_ISP"}
    PROVE  SessionPost
  <1>1. \A c \in Conn : sock'[c] = Closed
    BY DEF AllClosed
  <1>2. p2p_conn \in Conn
    BY ConnFacts
  <1> QED BY <1>1, <1>2, SlotValues
      DEF SessionPost, SocketContract, PendingOK, SessionSlots

LEMMA ReinitSlots ==
    ASSUME SessionPre, ~number_fetch_active, NEW reply, HandlerStep(reply),
           command_reinit(reply)
    PROVE  SessionPost
  <1>1. /\ sock' = EndedSock /\ state' = "DISCONNECTED"
        /\ connections' = [c \in Conn |-> FALSE] /\ reply = "ok"
    BY DEF command_reinit, do_start_session, FetchCancelled
  <1>2. ~packet_parsed'
    BY <1>1 DEF HandlerStep
  <1> QED BY <1>1, <1>2, EndedAll, ClosedSlots

LEMMA OfflineSlots ==
    ASSUME SessionPre, command = "OFFLINE", NEW reply, HandlerStep(reply),
           command_offline(reply)
    PROVE  SessionPost
  <1>1. ~packet_parsed
    BY DEF SessionPre, PendingOK
  <1>2. CASE ~OffHook
    BY <1>1, <1>2, RefuseSlots DEF command_offline
  <1>3. CASE OffHook
    <2>1. /\ sock' = SockCloseAll(sock, HangUp) /\ state' = "DISCONNECTED"
          /\ connections' = [c \in Conn |-> connections[c] /\ c \notin HangUp]
          /\ reply = "ok"
      BY <1>3 DEF command_offline, AfterOffline
    <2>2. ~packet_parsed'
      BY <2>1 DEF HandlerStep
    <2>3. \A c \in Conn : ~connections'[c]
      BY <1>3, <2>1, HangUpAll
    <2> QED BY <1>3, <2>1, <2>2, <2>3, HangUpAll, ClosedSlots
  <1> QED BY <1>2, <1>3

LEMMA PppDisconnectSlots ==
    ASSUME SessionPre, command = "PPP_DISCONNECT", NEW reply, HandlerStep(reply),
           command_ppp_disconnect(reply)
    PROVE  SessionPost
  <1>1. ~packet_parsed
    BY DEF SessionPre, PendingOK
  <1>2. CASE state # "INTERNET"
    BY <1>1, <1>2, RefuseSlots DEF command_ppp_disconnect
  <1>3. CASE state = "INTERNET"
    <2>1. /\ sock' = SockCloseAll(sock, HangUp) /\ state' = "CALL_ISP"
          /\ connections' = [c \in Conn |-> FALSE] /\ reply = "ok"
      BY <1>3 DEF command_ppp_disconnect
    <2>2. ~packet_parsed' /\ OffHook
      BY <1>3, <2>1 DEF HandlerStep, OffHook
    <2> QED BY <2>1, <2>2, HangUpAll, ClosedSlots
  <1> QED BY <1>2, <1>3

LEMMA PppConnectSlots ==
    ASSUME SessionPre, command = "PPP_CONNECT", NEW reply, HandlerStep(reply),
           command_ppp_connect(reply)
    PROVE  SessionPost
  <1>1. ~packet_parsed
    BY DEF SessionPre, PendingOK
  <1>2. CASE Refuse(reply)
    BY <1>1, <1>2, RefuseSlots
  <1>3. CASE ~Refuse(reply)
    <2>1. /\ state = "CALL_ISP" /\ state' = "INTERNET" /\ connections' = connections
          /\ sock' = sock /\ reply = "ok"
      BY <1>3 DEF command_ppp_connect, NoSocket
    <2>2. ~packet_parsed'
      BY <2>1 DEF HandlerStep
    <2>3. \A c \in Conn : sock'[c] = Closed /\ ~connections'[c]
      BY <2>1 DEF SessionPre, SessionSlots
    <2> QED BY <2>1, <2>2, <2>3, SlotValues
        DEF SessionPost, SocketContract, PendingOK, SessionSlots
  <1> QED BY <1>2, <1>3

LEMMA PlainSlots ==
    ASSUME SessionPre, command \in Stateless \cup {"START", "CHANGE_CLOCK"},
           NEW reply, HandlerStep(reply),
           \/ command = "START" /\ command_start(reply)
           \/ command_change_clock(reply)
           \/ command_stateless(reply)
    PROVE  SessionPost
  <1>1. ~packet_parsed
    BY DEF SessionPre, PendingOK, Stateless
  <1>2. reply # "pending"
    BY DEF command_start, command_change_clock, command_stateless, Refuse
  <1>3. NoRelay /\ NoSocket /\ NoTable
    BY DEF command_start, command_change_clock, command_stateless, Refuse, SessionPre
  <1> QED BY <1>1, <1>2, <1>3, NothingSlots DEF NoTable, NoSocket, NoRelay, relayVars

-----------------------------------------------------------------------------
(* Connections on the internet.                                            *)
LEMMA InternetSlots ==
    ASSUME SessionPre, state = "INTERNET", state' = "INTERNET", PendingOK',
           NEW c \in Conn,
           \A d \in Conn : d # c =>
               /\ sock'[d] = sock[d] /\ connections'[d] = connections[d]
               /\ sock[d] = Closed \/ sock[d].phase = "connected",
           sock'[c] # Misused,
           connections'[c] <=> sock'[c] # Closed,
           \/ sock'[c] = Closed
           \/ sock'[c].phase = "connected"
           \/ /\ Pending("TCP_CONNECT")' \/ Pending("DNS_REQUEST")'
              /\ c = processing_data'[0]
    PROVE  SessionPost
  <1>1. SocketContract'
    BY DEF SessionPre, SocketContract
  <1>2. SessionSlots'
    BY DEF SessionPre, SessionSlots
  <1> QED BY <1>1, <1>2 DEF SessionPost

LEMMA DataSlots ==
    ASSUME SessionPre, command = "DATA", arg \in Argument(command),
           NEW reply, HandlerStep(reply), command_data(reply)
    PROVE  SessionPost
  <1>1. CASE Refuse(reply)
    BY <1>1, RefuseSlots
  <1>2. CASE ~Refuse(reply)
    <2>1. /\ state \in {"CALL", "CALL_RECV", "INTERNET"} /\ state' = state
          /\ DataConn \in Conn /\ connections[DataConn]
          /\ NoRelay /\ NoSession
      BY <1>2 DEF command_data
    <2>2. sock \in [Conn -> Socket] /\ connections \in [Conn -> BOOLEAN]
      BY DEF SessionPre, HandlerTypes
    <2>3. sock[DataConn].phase = "connected"
      <3>1. sock[DataConn] # Closed
        BY <2>1 DEF SessionPre, SessionSlots
      <3>2. CASE state = "INTERNET"
        BY <2>1, <3>1, <3>2, CalmSlots
      <3>3. CASE state # "INTERNET"
        BY <2>1, <3>3 DEF SessionPre, SessionSlots, DataConn
      <3> QED BY <3>2, <3>3
    <2>4. SockStream(sock, DataConn) = sock
      BY <2>1, <2>2, <2>3, StreamAt
    <2>5. SockClose(sock, DataConn) = [sock EXCEPT ![DataConn] = Closed]
      BY <2>1, <2>2, <2>3, CloseAt, SlotValues
    <2>6. UNCHANGED <<relay_state, relay_processing, session_started>>
      BY <2>1 DEF NoRelay, relayVars, NoSession, sessionVars
    <2>7. CASE reply # "pending" /\ sock' = sock /\ connections' = connections
      BY <2>1, <2>6, <2>7, NothingSlots
    <2>8. CASE /\ reply # "pending" /\ state = "INTERNET"
               /\ sock' = [sock EXCEPT ![DataConn] = Closed]
               /\ connections' = Disconnected(DataConn)
      <3>1. PendingOK'
        BY <2>8 DEF PendingOK, HandlerStep
      <3>2. /\ sock'[DataConn] = Closed /\ connections'[DataConn] = FALSE
            /\ \A d \in Conn : d # DataConn =>
                  sock'[d] = sock[d] /\ connections'[d] = connections[d]
        BY <2>1, <2>2, <2>8 DEF Disconnected
      <3>3. \A d \in Conn : sock[d] = Closed \/ sock[d].phase = "connected"
        BY <2>8, CalmSlots
      <3> QED BY <2>1, <2>8, <3>1, <3>2, <3>3, InternetSlots, SlotValues
    <2>9. ASSUME NEW n \in 0 .. arg.size - DataSent,
                 Proc(reply, "DONE", [processing_data EXCEPT ![0] = DataSent + n],
                      processing_addr),
                 reply = "pending", sock' = sock, connections' = connections
          PROVE  SessionPost
      <3>1. processing' = "DONE" /\ processing_data'[0] = DataSent + n
        BY <2>9 DEF Proc, SessionPre, HandlerTypes
      <3>2. arg.size \in Nat /\ DataSent \in Nat
        BY DEF Argument, DataSent, SessionPre, HandlerTypes
      <3>3. processing_data'[0] <= arg.size
        BY <3>1, <3>2
      <3>4. PendingOK'
        BY <2>1, <2>6, <2>9, <3>1, <3>3 DEF PendingOK, HandlerStep, SessionPre
      <3>5. SocketContract'
        BY <2>9 DEF SessionPre, SocketContract
      <3>6. SessionSlots'
        BY <2>1, <2>6, <2>9, CalmSlots DEF SessionPre, SessionSlots
      <3> QED BY <3>4, <3>5, <3>6 DEF SessionPost
    <2>10. CASE /\ reply = "error" /\ sock' = SockStream(sock, DataConn)
                /\ connections' = connections
      BY <2>4, <2>7, <2>10
    <2>11. ASSUME NEW n \in 0 .. arg.size - DataSent,
                  Proc(reply, "DONE", [processing_data EXCEPT ![0] = DataSent + n],
                       processing_addr),
                  \/ /\ sock' = SockStream(sock, DataConn)
                     /\ connections' = connections
                  \/ DataReceive(reply)
           PROVE  SessionPost
      <3>1. \/ sock' = sock /\ connections' = connections
            \/ /\ reply = "ok" /\ state = "INTERNET"
               /\ sock' = [sock EXCEPT ![DataConn] = Closed]
               /\ connections' = Disconnected(DataConn)
        BY <2>4, <2>5, <2>11 DEF DataReceive
      <3> QED BY <2>7, <2>8, <2>9, <2>11, <3>1
    <2>12. \/ /\ reply = "error" /\ sock' = SockStream(sock, DataConn)
              /\ connections' = connections
           \/ \E n \in 0 .. arg.size - DataSent :
                 /\ Proc(reply, "DONE", [processing_data EXCEPT ![0] = DataSent + n],
                         processing_addr)
                 /\ \/ /\ sock' = SockStream(sock, DataConn)
                       /\ connections' = connections
                    \/ DataReceive(reply)
      <3>1. ~(Refuse(reply) /\ UNCHANGED command_time)
        BY <1>2
      <3>2. \/ /\ DataSent < arg.size
               /\ reply = "error"
               /\ sock' = SockStream(sock, DataConn)
               /\ UNCHANGED connections
               /\ NoProc(reply)
            \/ \E n \in 0 .. arg.size - DataSent :
                  /\ Proc(reply, "DONE",
                          [processing_data EXCEPT ![0] = DataSent + n],
                          processing_addr)
                  /\ \/ /\ DataSent + n < arg.size
                        /\ reply = IF DataTime >= 10000 THEN "error" ELSE "pending"
                        /\ sock' = SockStream(sock, DataConn)
                        /\ UNCHANGED connections
                     \/ /\ DataSent + n = arg.size
                        /\ DataReceive(reply)
        BY <3>1 DEF command_data
      <3> QED BY <3>2
    <2> QED BY <2>10, <2>11, <2>12
  <1> QED BY <1>1, <1>2

LEMMA NewConnSlot ==
    ASSUME SessionPre, ~packet_parsed, state = "INTERNET",
           NEW c \in Conn, IsNewConn(c)
    PROVE  /\ sock[c] = Closed /\ ~connections[c]
           /\ \A d \in Conn : sock[d] = Closed \/ sock[d].phase = "connected"
  <1>1. ~connections[c]
    BY DEF IsNewConn, FreeConn
  <1> QED BY <1>1, CalmSlots DEF SessionPre, SessionSlots

LEMMA TcpConnectSlots ==
    ASSUME SessionPre, command = "TCP_CONNECT", NEW reply, HandlerStep(reply),
           command_tcp_connect(reply)
    PROVE  SessionPost
  <1>1. sock \in [Conn -> Socket] /\ connections \in [Conn -> BOOLEAN]
        /\ processing_data \in [{0, 1} -> Nat]
    BY DEF SessionPre, HandlerTypes
  <1>2. CASE Processing = "BEGIN" /\ Refuse(reply)
    BY <1>2, Beginning, RefuseSlots
  <1>3. ASSUME Processing = "BEGIN", state = "INTERNET", state' = state,
               reply = "pending", NoSession, NEW c \in Conn, IsNewConn(c),
               sock' = SockOpen(sock, c, "tcp", "ipv4"),
               connections' = Connected(c),
               Proc(reply, "CONNECTING", [processing_data EXCEPT ![0] = c],
                    processing_addr)
        PROVE  SessionPost
    <2>1. /\ sock[c] = Closed /\ ~connections[c]
          /\ \A d \in Conn : sock[d] = Closed \/ sock[d].phase = "connected"
      BY <1>3, Beginning, NewConnSlot
    <2>2. sock' = [sock EXCEPT ![c] = Slot("tcp", "ipv4")]
      BY <1>1, <1>3, <2>1, OpenAt DEF HostType
    <2>3. /\ sock'[c] = Slot("tcp", "ipv4") /\ connections'[c] = TRUE
          /\ \A d \in Conn : d # c => sock'[d] = sock[d] /\ connections'[d] = connections[d]
      BY <1>1, <1>3, <2>2 DEF Connected
    <2>4. processing' = "CONNECTING" /\ processing_data'[0] = c
      BY <1>1, <1>3 DEF Proc
    <2>5. session_started'
      BY <1>3 DEF NoSession, sessionVars, SessionPre
    <2>6. PendingOK' /\ Pending("TCP_CONNECT")'
      BY <1>3, <2>3, <2>4, <2>5 DEF PendingOK, Pending, HandlerStep
    <2> QED BY <1>3, <2>1, <2>3, <2>4, <2>6, InternetSlots, SlotValues
  <1>4. CASE Processing = "CONNECTING" /\ command_tcp_connect_connecting(reply)
    <2> DEFINE c == processing_data[0]
    <2>1. /\ packet_parsed /\ processing = "CONNECTING" /\ state = "INTERNET"
          /\ c \in Conn /\ sock[c] = Slot("tcp", "ipv4")
      BY <1>4 DEF Processing, SessionPre, PendingOK
    <2>2. /\ connections[c]
          /\ \A d \in Conn : d # c => sock[d] = Closed \/ sock[d].phase = "connected"
      BY <2>1, SlotValues DEF SessionPre, SessionSlots
    <2>3. state' = "INTERNET" /\ NoSession /\ NoProc(reply)
      BY <1>4, <2>1 DEF command_tcp_connect_connecting
    <2>4. /\ SockClose(sock, c) = [sock EXCEPT ![c] = Closed]
          /\ SockConnect(sock, c, "ipv4", 0) = sock
          /\ SockConnect(sock, c, "ipv4", -1) = sock
          /\ SockConnect(sock, c, "ipv4", 1) = [sock EXCEPT ![c] = Slot("connected", "ipv4")]
      BY <1>1, <2>1, CloseAt, ConnectAt, SlotValues
    <2>5. \/ /\ reply = "error" /\ sock' = [sock EXCEPT ![c] = Closed]
             /\ connections' = Disconnected(c)
          \/ /\ reply = "pending" /\ sock' = sock /\ connections' = connections
          \/ /\ reply = "ok" /\ sock' = [sock EXCEPT ![c] = Slot("connected", "ipv4")]
             /\ connections' = connections
      <3>1. \/ /\ reply = "error" /\ sock' = SockClose(sock, c)
               /\ connections' = Disconnected(c)
            \/ /\ reply \in {"pending", "ok"} /\ connections' = connections
               /\ sock' = SockConnect(sock, c, "ipv4", IF reply = "ok" THEN 1 ELSE 0)
            \/ /\ reply = "error" /\ connections' = Disconnected(c)
               /\ sock' = SockClose(SockConnect(sock, c, "ipv4", -1), c)
        BY <1>4 DEF command_tcp_connect_connecting
      <3> QED BY <2>4, <3>1
    <2>6. session_started'
      BY <2>3 DEF NoSession, sessionVars, SessionPre
    <2>7. reply # "pending" => PendingOK'
      BY DEF PendingOK, HandlerStep
    <2>8. CASE /\ reply = "error" /\ sock' = [sock EXCEPT ![c] = Closed]
               /\ connections' = Disconnected(c)
      <3>1. /\ sock'[c] = Closed /\ connections'[c] = FALSE
            /\ \A d \in Conn : d # c => sock'[d] = sock[d] /\ connections'[d] = connections[d]
        BY <1>1, <2>1, <2>8 DEF Disconnected
      <3> QED BY <2>1, <2>2, <2>3, <2>7, <2>8, <3>1, InternetSlots, SlotValues
    <2>9. CASE reply = "pending" /\ sock' = sock /\ connections' = connections
      <3>1. processing' = processing /\ processing_data' = processing_data
        BY <2>1, <2>3, <2>9 DEF NoProc, Proc, Processing
      <3>2. PendingOK' /\ Pending("TCP_CONNECT")'
        BY <2>1, <2>3, <2>6, <2>9, <3>1 DEF PendingOK, Pending, HandlerStep
      <3> QED BY <2>1, <2>2, <2>3, <2>9, <3>1, <3>2, InternetSlots, SlotValues
    <2>10. CASE /\ reply = "ok" /\ sock' = [sock EXCEPT ![c] = Slot("connected", "ipv4")]
                /\ connections' = connections
      <3>1. /\ sock'[c] = Slot("connected", "ipv4") /\ connections'[c]
            /\ \A d \in Conn : d # c => sock'[d] = sock[d] /\ connections'[d] = connections[d]
        BY <1>1, <2>1, <2>2, <2>10
      <3> QED BY <2>1, <2>2, <2>3, <2>7, <2>10, <3>1, InternetSlots, SlotValues
    <2> QED BY <2>5, <2>8, <2>9, <2>10
  <1> QED BY <1>2, <1>3, <1>4 DEF command_tcp_connect, command_tcp_connect_begin

LEMMA TcpDisconnectSlots ==
    ASSUME SessionPre, command = "TCP_DISCONNECT", NEW reply, HandlerStep(reply),
           command_tcp_disconnect(reply)
    PROVE  SessionPost
  <1>1. ~packet_parsed
    BY DEF SessionPre, PendingOK
  <1>2. CASE Refuse(reply)
    BY <1>1, <1>2, RefuseSlots
  <1>3. CASE ~Refuse(reply)
    <2>1. /\ state = "INTERNET" /\ state' = "INTERNET"
          /\ arg.conn \in Conn /\ connections[arg.conn] /\ reply = "ok"
          /\ sock' = SockClose(sock, arg.conn) /\ connections' = Disconnected(arg.conn)
      BY <1>3 DEF command_tcp_disconnect
    <2>2. sock \in [Conn -> Socket] /\ connections \in [Conn -> BOOLEAN]
      BY DEF SessionPre, HandlerTypes
    <2>3. sock[arg.conn] \notin {Closed, Misused}
      BY <2>1 DEF SessionPre, SessionSlots, SocketContract
    <2>4. sock' = [sock EXCEPT ![arg.conn] = Closed]
      BY <2>1, <2>2, <2>3, CloseAt
    <2>5. /\ sock'[arg.conn] = Closed /\ connections'[arg.conn] = FALSE
          /\ \A d \in Conn : d # arg.conn =>
                sock'[d] = sock[d] /\ connections'[d] = connections[d]
      BY <2>1, <2>2, <2>4 DEF Disconnected
    <2>6. \A d \in Conn : sock[d] = Closed \/ sock[d].phase = "connected"
      BY <1>1, <2>1, CalmSlots
    <2>7. PendingOK'
      BY <2>1 DEF PendingOK, HandlerStep
    <2> QED BY <2>1, <2>5, <2>6, <2>7, InternetSlots, SlotValues
  <1> QED BY <1>2, <1>3

-----------------------------------------------------------------------------
(* DNS_REQUEST.                                                            *)
LEMMA DnsStartSlots ==
    ASSUME SessionPre, config_dns \in [{1, 2} -> AddrType],
           state = "INTERNET", state' = "INTERNET", session_started',
           command = "DNS_REQUEST", NEW reply, HandlerStep(reply),
           NEW s \in [Conn -> Socket], NEW table \in [Conn -> BOOLEAN],
           NEW c \in Conn, NEW from \in {0, 2},
           s[c] = Closed, table[c] = FALSE,
           \A d \in Conn : d # c =>
               /\ s[d] = sock[d] /\ table[d] = connections[d]
               /\ sock[d] = Closed \/ sock[d].phase = "connected",
           dns_request_start(s, table, c, from, reply)
    PROVE  SessionPost
  <1>1. CASE /\ reply # "pending" /\ sock' = s /\ connections' = table
    <2>1. PendingOK'
      BY <1>1 DEF PendingOK, HandlerStep
    <2> QED BY <1>1, <2>1, InternetSlots, SlotValues
  <1>2. ASSUME NEW id \in Usable(from),
               LET opened == SockDatagram(SockOpen(s, c, "udp", dns_get_addr(id)),
                                          c, dns_get_addr(id)) IN
               /\ Proc(reply, "CHECK",
                       [processing_data EXCEPT ![0] = c, ![1] = id],
                       dns_get_addr(id))
               /\ \/ /\ reply = "error"
                     /\ sock' = s \/ sock' = SockClose(opened, c)
                     /\ connections' = table
                  \/ /\ reply = "pending"
                     /\ sock' = opened
                     /\ connections' = [table EXCEPT ![c] = TRUE]
        PROVE  SessionPost
    <2> DEFINE addr == dns_get_addr(id)
               t == [s EXCEPT ![c] = Slot("udp", addr)]
    <2>1. id \in 0 .. 3 /\ addr # "none"
      BY DEF Usable
    <2>2. addr \in HostType
      BY <2>1, DnsAddrType DEF AddrType, SessionPre
    <2>3. SockOpen(s, c, "udp", addr) = t
      BY <2>2, OpenAt
    <2>4. t \in [Conn -> Socket] /\ t[c] = Slot("udp", addr)
      BY <2>2, SlotFacts
    <2>5. \A d \in Conn : d # c => t[d] = s[d]
      OBVIOUS
    <2> HIDE DEF t
    <2>6. SockDatagram(t, c, addr) = t
      BY <2>4, DatagramAt
    <2>7. SockClose(t, c) = [t EXCEPT ![c] = Closed]
      BY <2>4, CloseAt, SlotValues
    <2>8. SockClose(t, c) = s
      BY <2>7 DEF t
    <2>9. CASE reply = "error"
      BY <1>1, <1>2, <2>3, <2>6, <2>8, <2>9
    <2>10. CASE reply = "pending"
      <3>1. /\ sock' = t /\ connections' = [table EXCEPT ![c] = TRUE]
        BY <1>2, <2>3, <2>6, <2>10
      <3>2. /\ processing' = "CHECK" /\ processing_addr' = addr
            /\ processing_data' = [processing_data EXCEPT ![0] = c, ![1] = id]
        BY <1>2, <2>10 DEF Proc
      <3>3. processing_data'[0] = c /\ processing_data'[1] = id
        BY <3>2 DEF SessionPre, HandlerTypes
      <3>4. /\ sock'[c] = Slot("udp", addr) /\ connections'[c] = TRUE
            /\ \A d \in Conn : d # c =>
                  sock'[d] = sock[d] /\ connections'[d] = connections[d]
        BY <2>4, <2>5, <3>1
      <3> HIDE DEF addr
      <3>5. PendingOK' /\ Pending("DNS_REQUEST")'
        BY <2>1, <2>2, <2>10, <3>2, <3>3, <3>4 DEF PendingOK, Pending, HandlerStep
      <3> QED BY <3>3, <3>4, <3>5, InternetSlots, SlotValues
    <2> QED BY <1>2, <2>9, <2>10
  <1>3. CASE Usable(from) = {}
    <2>1. reply # "pending" /\ sock' = s /\ connections' = table
      BY <1>3 DEF dns_request_start
    <2> QED BY <1>1, <2>1
  <1>4. CASE Usable(from) # {}
    BY <1>2, <1>4 DEF dns_request_start
  <1> QED BY <1>3, <1>4

LEMMA DnsRequestSlots ==
    ASSUME SessionPre, config_dns \in [{1, 2} -> AddrType],
           command = "DNS_REQUEST", NEW reply, HandlerStep(reply),
           command_dns_request(reply)
    PROVE  SessionPost
  <1>1. sock \in [Conn -> Socket] /\ connections \in [Conn -> BOOLEAN]
        /\ processing_data \in [{0, 1} -> Nat]
    BY DEF SessionPre, HandlerTypes
  <1>2. ASSUME NoSession
        PROVE  session_started'
    BY <1>2 DEF NoSession, sessionVars, SessionPre
  <1>3. CASE Processing = "BEGIN" /\ command_dns_request_begin(reply)
    <2>1. ~packet_parsed
      BY <1>3, Beginning
    <2>2. CASE Refuse(reply)
      BY <2>1, <2>2, RefuseSlots
    <2>3. CASE /\ reply = "ok" /\ NoRelay /\ NoSocket /\ NoTable
      BY <2>1, <2>3, NothingSlots DEF NoRelay, NoSocket, NoTable, relayVars
    <2>4. ASSUME state = "INTERNET", state' = state, NoSession,
                 NEW c \in Conn, IsNewConn(c),
                 dns_request_start(sock, connections, c, 0, reply)
          PROVE  SessionPost
      <3>1. /\ sock[c] = Closed /\ connections[c] = FALSE
            /\ \A d \in Conn : sock[d] = Closed \/ sock[d].phase = "connected"
        BY <1>1, <2>1, <2>4, NewConnSlot
      <3>2. 0 \in {0, 2}
        OBVIOUS
      <3> QED BY <1>1, <1>2, <2>4, <3>1, <3>2, DnsStartSlots
    <2> QED BY <1>3, <2>2, <2>3, <2>4 DEF command_dns_request_begin
  <1>4. CASE Processing = "CHECK" /\ command_dns_request_check(reply)
    <2> DEFINE c == processing_data[0]
               id == processing_data[1]
               closed == [sock EXCEPT ![c] = Closed]
    <2>1. /\ packet_parsed /\ processing = "CHECK" /\ state = "INTERNET"
          /\ c \in Conn /\ id \in 0 .. 3 /\ processing_addr \in HostType
          /\ sock[c] = Slot("udp", processing_addr)
      BY <1>4 DEF Processing, SessionPre, PendingOK
    <2>2. /\ connections[c]
          /\ \A d \in Conn : d # c => sock[d] = Closed \/ sock[d].phase = "connected"
      BY <2>1, SlotValues DEF SessionPre, SessionSlots
    <2>3. /\ SockDatagram(sock, c, processing_addr) = sock
          /\ SockClose(sock, c) = closed
      BY <1>1, <2>1, DatagramAt, CloseAt, SlotValues
    <2>4. /\ closed \in [Conn -> Socket] /\ closed[c] = Closed
          /\ Disconnected(c) \in [Conn -> BOOLEAN] /\ Disconnected(c)[c] = FALSE
          /\ \A d \in Conn : d # c =>
                closed[d] = sock[d] /\ Disconnected(c)[d] = connections[d]
      <3>1. closed \in [Conn -> Socket] /\ closed[c] = Closed
            /\ \A d \in Conn : d # c => closed[d] = sock[d]
        BY <1>1, <2>1, SlotFacts
      <3> QED BY <1>1, <2>1, <3>1 DEF Disconnected
    <2> HIDE DEF closed
    <2>5. state' = "INTERNET" /\ NoSession
      BY <1>4, <2>1 DEF command_dns_request_check
    <2>6. \/ /\ reply = "pending" /\ sock' = sock /\ connections' = connections
             /\ NoProc(reply)
          \/ dns_request_start(closed, Disconnected(c), c, 2, reply)
          \/ /\ reply \in {"ok", "error"} /\ sock' = closed
             /\ connections' = Disconnected(c)
      BY <1>4, <2>3 DEF command_dns_request_check
    <2>7. CASE /\ reply = "pending" /\ sock' = sock /\ connections' = connections
               /\ NoProc(reply)
      <3>1. /\ processing' = processing /\ processing_data' = processing_data
            /\ processing_addr' = processing_addr
        BY <2>1, <2>7 DEF NoProc, Proc, Processing
      <3>2. PendingOK' /\ Pending("DNS_REQUEST")'
        BY <1>2, <2>1, <2>5, <2>7, <3>1 DEF PendingOK, Pending, HandlerStep
      <3> QED BY <2>1, <2>2, <2>5, <2>7, <3>1, <3>2, InternetSlots, SlotValues
    <2>8. CASE dns_request_start(closed, Disconnected(c), c, 2, reply)
      <3> DEFINE table == Disconnected(c)
      <3>1. 2 \in {0, 2}
        OBVIOUS
      <3>2. /\ c \in Conn /\ closed \in [Conn -> Socket] /\ closed[c] = Closed
            /\ table \in [Conn -> BOOLEAN] /\ table[c] = FALSE
            /\ \A d \in Conn : d # c =>
                  /\ closed[d] = sock[d] /\ table[d] = connections[d]
                  /\ sock[d] = Closed \/ sock[d].phase = "connected"
            /\ state = "INTERNET" /\ state' = "INTERNET" /\ session_started'
            /\ dns_request_start(closed, table, c, 2, reply)
        BY <1>2, <2>1, <2>2, <2>4, <2>5, <2>8
      <3> HIDE DEF c, table
      <3> QED BY <3>1, <3>2, DnsStartSlots
    <2>9. CASE /\ reply \in {"ok", "error"} /\ sock' = closed
               /\ connections' = Disconnected(c)
      <3>1. PendingOK'
        BY <2>9 DEF PendingOK, HandlerStep
      <3> QED BY <2>1, <2>2, <2>4, <2>5, <2>9, <3>1, InternetSlots, SlotValues
    <2> QED BY <2>6, <2>7, <2>8, <2>9
  <1> QED BY <1>3, <1>4 DEF command_dns_request

-----------------------------------------------------------------------------
(* All the handlers of a session together.                                 *)
LEMMA TelSlots ==
    ASSUME SessionPre, HandlerTypes', config_relay \in AddrType, command = "TEL",
           NEW reply, HandlerStep(reply), command_tel(reply)
    PROVE  SessionPost
  <1>1. CASE Processing = "BEGIN" /\ command_tel_begin(reply)
    <2>1. ~packet_parsed
      BY <1>1, Beginning
    <2> QED BY <1>1, <2>1, TelBeginSlots
  <1>2. CASE /\ Processing \in {"IP", "RELAY"}
             /\ \/ TelTimeout(reply)
                \/ Processing = "IP" /\ command_tel_ip(reply)
                \/ Processing = "RELAY" /\ command_tel_relay(reply)
    <2>1. packet_parsed /\ Processing = processing
      BY <1>2 DEF Processing
    <2> QED BY <1>2, <2>1, TelPollSlots
  <1> QED BY <1>1, <1>2 DEF command_tel

LEMMA HandlersKeepSession ==
    ASSUME session_started, ~number_fetch_active, command # "END", NEW reply,
           mobile_commands_process(reply)
    PROVE  session_started' /\ ~number_fetch_active'
  <1>1. CASE NoSession
    BY <1>1 DEF NoSession, sessionVars
  <1>2. CASE command_reinit(reply)
    BY <1>2 DEF command_reinit, do_start_session
  <1>3. CASE command_change_clock(reply)
    <2>1. CASE Refuse(reply)
      BY <1>1, <2>1 DEF Refuse
    <2>2. CASE UNCHANGED <<session_started, number_fetch_active>>
      BY <2>2
    <2> QED BY <1>3, <2>1, <2>2 DEF command_change_clock
  <1>4. CASE command_start(reply)
    BY <1>1, <1>4 DEF command_start, Refuse
  <1>5. CASE command_tel(reply)
    BY <1>1, <1>5 DEF command_tel, command_tel_begin, Refuse, TelTimeout,
       command_tel_ip, command_tel_relay
  <1>6. CASE command_offline(reply) \/ command_ppp_disconnect(reply)
    BY <1>1, <1>6 DEF command_offline, command_ppp_disconnect, Refuse
  <1>7. CASE command_wait_call(reply)
    BY <1>1, <1>7 DEF command_wait_call, Refuse
  <1>8. CASE command_data(reply)
    BY <1>1, <1>8 DEF command_data, Refuse
  <1>9. CASE \/ command_ppp_connect(reply) \/ command_tcp_disconnect(reply)
             \/ command_stateless(reply)
    BY <1>1, <1>9 DEF command_ppp_connect, command_tcp_disconnect,
       command_stateless, Refuse
  <1>10. CASE command_tcp_connect(reply)
    BY <1>1, <1>10 DEF command_tcp_connect, command_tcp_connect_begin,
       command_tcp_connect_connecting, Refuse
  <1>11. CASE command_dns_request(reply)
    BY <1>1, <1>11 DEF command_dns_request, command_dns_request_begin,
       command_dns_request_check, Refuse
  <1> QED BY <1>2, <1>3, <1>4, <1>5, <1>6, <1>7, <1>8, <1>9, <1>10, <1>11
      DEF mobile_commands_process

LEMMA HandleSlots ==
    ASSUME SessionPre, HandlerTypes', ~number_fetch_active,
           config_relay \in AddrType, config_dns \in [{1, 2} -> AddrType],
           arg \in Argument(command), command # "END",
           NEW reply, HandlerStep(reply), mobile_commands_process(reply)
    PROVE  SessionPost
  BY TelSlots, OfflineSlots, WaitCallSlots, DataSlots, ReinitSlots, PlainSlots,
     PppConnectSlots, PppDisconnectSlots, TcpConnectSlots, TcpDisconnectSlots,
     DnsRequestSlots
  DEF mobile_commands_process

(* The session ends: END, a drop or a stop.                                *)
LEMMA EndSlots ==
    ASSUME SessionPre, do_end_session, ~packet_parsed', ~number_fetch_active'
    PROVE  SessionPost /\ FetchSlots'
  <1>1. ~session_started' /\ sock' = AllClosed
    BY EndedAll DEF do_end_session
  <1>2. \A c \in Conn : sock'[c] = Closed
    BY <1>1 DEF AllClosed
  <1>3. SocketContract' /\ PendingOK' /\ SessionSlots'
    BY <1>1, <1>2, SlotValues DEF SocketContract, PendingOK, SessionSlots
  <1> QED BY <1>1, <1>2, <1>3 DEF SessionPost, FetchSlots

(* mobile_number_fetch_cancel, outside of a session or within one.         *)
LEMMA CancelSlots ==
    ASSUME HandlerTypes, SocketContract, FetchSlots
    PROVE  /\ session_started => FetchCancelled(sock) = sock
           /\ ~session_started => \A c \in Conn : FetchCancelled(sock)[c] = Closed
  <1>1. sock \in [Conn -> Socket] /\ p2p_conn \in Conn
    BY ConnFacts DEF HandlerTypes
  <1>2. CASE ~number_fetch_active
    BY <1>2 DEF FetchCancelled, FetchSlots
  <1>3. CASE number_fetch_active
    <2>1. ~session_started /\ RelaySlot("number", config_relay)
      BY <1>3 DEF FetchSlots
    <2>2. sock[p2p_conn] \notin {Closed, Misused}
      BY <2>1, SlotValues DEF RelaySlot
    <2>3. FetchCancelled(sock) = [sock EXCEPT ![p2p_conn] = Closed]
      BY <1>1, <1>3, <2>2, CloseAt DEF FetchCancelled
    <2>4. \A c \in Conn : c # p2p_conn => sock[c] = Closed
      BY <2>1 DEF FetchSlots
    <2> QED BY <1>1, <2>1, <2>3, <2>4
  <1> QED BY <1>2, <1>3

(* START outside of a session.                                             *)
LEMMA StartSlots ==
    ASSUME HandlerTypes, SocketContract, FetchSlots, ~session_started,
           NEW reply, HandlerStep(reply), command_start(reply),
           config_relay' = config_relay
    PROVE  SessionPost /\ FetchSlots'
  <1>1. reply # "pending"
    BY DEF command_start, Refuse
  <1>2. ~packet_parsed'
    BY <1>1 DEF HandlerStep
  <1>3. CASE Refuse(reply)
    <2>1. UNCHANGED <<sock, session_started, number_fetch_active, relay_state,
                      relay_processing>>
      BY <1>3 DEF Refuse, NoSocket, NoSession, NoRelay, sessionVars, relayVars
    <2>2. SessionPost
      BY <1>2, <2>1 DEF SessionPost, SocketContract, PendingOK, SessionSlots
    <2>3. FetchSlots'
      BY <2>1 DEF FetchSlots, RelaySlot, RelayInStep
    <2> QED BY <2>2, <2>3
  <1>4. CASE do_start_session(sock)
    <2>1. /\ session_started' /\ ~number_fetch_active'
          /\ sock' = FetchCancelled(sock) /\ state' = "DISCONNECTED"
          /\ connections' = [c \in Conn |-> FALSE]
      BY <1>4 DEF do_start_session
    <2>2. sock' = AllClosed
      <3>1. sock \in [Conn -> Socket]
        BY DEF HandlerTypes
      <3>2. \A c \in Conn : sock'[c] = Closed
        BY <2>1, CancelSlots
      <3>3. DOMAIN sock' = Conn /\ sock' = [c \in Conn |-> sock'[c]]
        BY <2>1, <3>1, ConnFacts DEF FetchCancelled, SockClose
      <3> QED BY <3>2, <3>3 DEF AllClosed
    <2>3. FetchSlots'
      BY <2>1 DEF FetchSlots
    <2> QED BY <1>2, <2>1, <2>2, <2>3, ClosedSlots
  <1> QED BY <1>3, <1>4 DEF command_start

-----------------------------------------------------------------------------
(* The steps of Adapter.                                                   *)
LEMMA SlotInit == Init => SlotDiscipline
  <1> SUFFICES ASSUME Init PROVE SlotDiscipline
    OBVIOUS
  <1>1. /\ ~session_started /\ ~packet_parsed /\ ~number_fetch_active
        /\ serial_state = "INIT" /\ pc = "idle"
        /\ \A c \in Conn : sock[c] = Closed
    BY DEF Init
  <1>2. SocketContract /\ PendingOK /\ SessionSlots /\ FetchSlots
    BY <1>1, SlotValues DEF SocketContract, PendingOK, SessionSlots, FetchSlots
  <1>3. ActivityNoticed
    BY <1>1 DEF ActivityNoticed
  <1> QED BY <1>2, <1>3 DEF SlotDiscipline

(* A step that changes neither slots nor what explains them.               *)
LEMMA QuietSlots ==
    ASSUME SlotDiscipline, ActivityNoticed',
           UNCHANGED <<sock, relay_state, relay_processing, session_started,
                       state, connections, command, arg, packet_parsed,
                       processing, processing_data, processing_addr,
                       number_fetch_active, config_relay>>,
           packet_parsed => serial_state' = serial_state
    PROVE  SlotDiscipline'
  <1>1. SocketContract'
    BY DEF SlotDiscipline, SocketContract
  <1>2. PendingOK'
    <2>1. CASE ~packet_parsed
      BY <2>1 DEF PendingOK
    <2>2. CASE packet_parsed
      BY <2>2 DEF SlotDiscipline, PendingOK, RelaySlot, RelayInStep
    <2> QED BY <2>1, <2>2
  <1>3. SessionSlots'
    BY DEF SlotDiscipline, SessionSlots, Pending, RelaySlot, RelayInStep
  <1>4. FetchSlots'
    BY DEF SlotDiscipline, FetchSlots, RelaySlot, RelayInStep
  <1> QED BY <1>1, <1>2, <1>3, <1>4 DEF SlotDiscipline

(* The same, for the frames Adapter is written with.                       *)
LEMMA FrameSlots ==
    ASSUME SlotDiscipline, ActivityNoticed', UNCHANGED <<commandVars, configVars>>,
           packet_parsed => serial_state' = serial_state
    PROVE  SlotDiscipline'
  BY QuietSlots DEF commandVars, configVars, relayVars, sessionVars, packetVars

LEMMA InterruptSlots ==
    ASSUME OrderlyUse, SlotDiscipline, Interrupt
    PROVE  SlotDiscipline'
  <1>1. Transfer
    BY DEF Interrupt, TransferByte, TransferStart, TransferDrop, TransferPacket,
           TransferResponse, TransferAcknowledge
  <1>2. /\ serial_active' = TRUE
        /\ UNCHANGED <<configVars, config_relay, pc, actions, global_active, serial_time>>
    BY <1>1 DEF Transfer, configVars, loopVars, timeVars
  <1>3. /\ PendingOK /\ ActivityNoticed
        /\ packet_parsed => serial_state = "RESPONSE_WAITING"
    BY DEF SlotDiscipline, PendingOK
  <1>4. CASE TransferStart
    <2>1. /\ ~packet_parsed /\ serial_state' = "RECEIVING"
          /\ UNCHANGED <<sock, relay_state, relay_processing, session_started,
                         state, connections, packet_parsed, number_fetch_active>>
      BY <1>3, <1>4 DEF TransferStart, relayVars, sessionVars
    <2>2. SocketContract' /\ PendingOK'
      BY <2>1 DEF SlotDiscipline, SocketContract, PendingOK
    <2>3. SessionSlots'
      <3>1. SessionSlots
        BY DEF SlotDiscipline
      <3>2. state = "WAIT_RELAY" /\ session_started =>
              /\ relay_state = "RECV_WAIT" /\ RelayInStep("wait")
              /\ sock[p2p_conn].phase = "connected"
        BY <2>1, <3>1 DEF SessionSlots, Pending, RelaySlot
      <3> QED BY <2>1, <3>1, <3>2 DEF SessionSlots, Pending, RelaySlot, RelayInStep
    <2>4. FetchSlots'
      BY <1>2, <2>1 DEF SlotDiscipline, FetchSlots, RelaySlot, RelayInStep
    <2>5. ActivityNoticed'
      BY <1>2, <1>3, <2>1 DEF ActivityNoticed
    <2> QED BY <2>2, <2>3, <2>4, <2>5 DEF SlotDiscipline
  <1>5. CASE TransferPacket
    <2>1. /\ ~packet_parsed
          /\ UNCHANGED <<sock, relay_state, relay_processing, session_started,
                         state, connections, packet_parsed, processing_addr,
                         number_fetch_active>>
      BY <1>3, <1>5 DEF TransferPacket, relayVars, sessionVars
    <2>2. SocketContract' /\ PendingOK'
      BY <2>1 DEF SlotDiscipline, SocketContract, PendingOK
    <2>3. SessionSlots'
      BY <2>1 DEF SlotDiscipline, SessionSlots, Pending, RelaySlot, RelayInStep
    <2>4. FetchSlots'
      BY <1>2, <2>1 DEF SlotDiscipline, FetchSlots, RelaySlot, RelayInStep
    <2>5. ~session_started => command' = "START"
      BY <1>5 DEF TransferPacket, OrderlyUse
    <2>6. ActivityNoticed'
      BY <1>2, <1>3, <2>1, <2>5 DEF ActivityNoticed
    <2> QED BY <2>2, <2>3, <2>4, <2>6 DEF SlotDiscipline
  <1>6. CASE /\ UNCHANGED commandVars
             /\ \/ UNCHANGED serial_state
                \/ serial_state # "RESPONSE_WAITING" /\ serial_state' # "RESPONSE_WAITING"
    <2>1. UNCHANGED <<session_started, command>>
      BY <1>6 DEF commandVars, sessionVars, packetVars
    <2>2. ActivityNoticed'
      BY <1>2, <1>3, <1>6, <2>1 DEF ActivityNoticed
    <2>3. packet_parsed => serial_state' = serial_state
      BY <1>3, <1>6
    <2> QED BY <1>2, <1>6, <2>2, <2>3, FrameSlots
  <1>7. CASE TransferByte \/ TransferDrop \/ TransferResponse \/ TransferAcknowledge
    BY <1>6, <1>7 DEF TransferByte, TransferDrop, TransferResponse, TransferAcknowledge
  <1> QED BY <1>4, <1>5, <1>7 DEF Interrupt

(* A packet that waits is processed before the less urgent actions.        *)
LEMMA LaterTurn ==
    ASSUME NEW a \in {"RESET_SERIAL", "CHANGE_32BIT_MODE", "WRITE_CONFIG",
                      "INIT_NUMBER"}, Turn(a)
    PROVE  "PROCESS_COMMAND" \notin actions
  <1>1. SUFFICES ASSUME "PROCESS_COMMAND" \in actions PROVE FALSE
    OBVIOUS
  <1>2. "PROCESS_COMMAND" \in Ready
    BY <1>1 DEF Ready
  <1>3. PICK i \in 4 .. 7 : ActionOrder[i] = a
    <2>1. /\ ActionOrder[4] = "RESET_SERIAL" /\ ActionOrder[5] = "CHANGE_32BIT_MODE"
          /\ ActionOrder[6] = "WRITE_CONFIG" /\ ActionOrder[7] = "INIT_NUMBER"
      BY DEF ActionOrder
    <2> QED BY <2>1
  <1>4. ActionOrder[3] = "PROCESS_COMMAND"
    BY DEF ActionOrder
  <1>5. i <= 3
    BY <1>2, <1>3, <1>4 DEF Turn
  <1> QED BY <1>5

(* The end of an iteration of the loop that leaves packet and session be.  *)
LEMMA TurnNoticed ==
    ASSUME ActivityNoticed, pc = "process", pc' = "idle", actions' = {},
           UNCHANGED <<session_started, serial_state, serial_active, command>>,
           session_started => global_active' = global_active,
           "PROCESS_COMMAND" \notin actions \/ "RESET" \in actions
    PROVE  ActivityNoticed'
  BY DEF ActivityNoticed

LEMMA ProcessCommandSlots ==
    ASSUME TypeOK, TypeOK', SlotDiscipline, ProcessCommand
    PROVE  SlotDiscipline'
  <1>0. /\ SocketContract /\ PendingOK /\ SessionSlots /\ FetchSlots /\ ActivityNoticed
        /\ HandlerTypes /\ HandlerTypes' /\ OtherTypes /\ ArgTypes
    BY TypeParts DEF SlotDiscipline, TypeOK, CommandsTypeOK, HandlerTypes
  <1>1. /\ pc = "process" /\ pc' = "idle" /\ actions' = {}
        /\ UNCHANGED <<global_active, serial_active>>
    BY DEF ProcessCommand, Turn
  <1>2. CASE /\ serial_state # "RESPONSE_WAITING"
             /\ UNCHANGED <<commandVars, configVars, serial_state>>
    <2>1. ActivityNoticed'
      BY <1>0, <1>1, <1>2 DEF ActivityNoticed, commandVars, sessionVars
    <2> QED BY <1>2, <2>1, FrameSlots
  <1>3. ASSUME NEW reply \in Replies, serial_state = "RESPONSE_WAITING",
               command_handle(reply),
               serial_state' = IF reply = "pending" THEN serial_state
                               ELSE "RESPONSE_INIT"
        PROVE  SlotDiscipline'
    <2>1. /\ HandlerStep(reply) /\ mobile_commands_process(reply)
          /\ config_relay' = config_relay
      BY <1>3 DEF command_handle, HandlerStep, configVars
    <2>2. /\ arg \in Argument(command) /\ packet_parsed \in BOOLEAN
          /\ config_relay \in AddrType /\ config_dns \in [{1, 2} -> AddrType]
      BY <1>0, <1>3 DEF ArgTypes, OtherTypes
    <2>3. CASE session_started
      <3>1. SessionPre /\ ~number_fetch_active
        BY <1>0, <2>2, <2>3 DEF SessionPre, FetchSlots
      <3>2. CASE command = "END"
        <4>1. command_end(reply)
          BY <2>1, <3>2 DEF mobile_commands_process, Stateless
        <4>2. /\ do_end_session /\ reply = "ok" /\ ~number_fetch_active'
          BY <3>1, <4>1 DEF command_end
        <4>3. ~packet_parsed' /\ ~session_started' /\ serial_state' = "RESPONSE_INIT"
          BY <1>3, <2>1, <4>2 DEF HandlerStep, do_end_session
        <4>4. SessionPost /\ FetchSlots'
          BY <3>1, <4>2, <4>3, EndSlots
        <4>5. ActivityNoticed'
          BY <1>1, <4>3 DEF ActivityNoticed
        <4> QED BY <4>4, <4>5 DEF SessionPost, SlotDiscipline
      <3>3. CASE command # "END"
        <4>1. session_started' /\ ~number_fetch_active'
          BY <2>1, <2>3, <3>1, <3>3, HandlersKeepSession
        <4>2. SessionPost
          BY <1>0, <2>1, <2>2, <3>1, <3>3, HandleSlots
        <4>3. FetchSlots'
          BY <4>1 DEF FetchSlots
        <4>4. global_active
          BY <1>0, <1>1, <2>3 DEF ActivityNoticed
        <4>5. ActivityNoticed'
          BY <1>1, <4>1, <4>4 DEF ActivityNoticed
        <4> QED BY <4>2, <4>3, <4>5 DEF SessionPost, SlotDiscipline
      <3> QED BY <3>2, <3>3
    <2>4. CASE ~session_started
      <3>1. command = "START" /\ (serial_active \/ global_active)
        BY <1>0, <1>1, <1>3, <2>4 DEF ActivityNoticed
      <3>2. command_start(reply)
        BY <2>1, <3>1 DEF mobile_commands_process, Stateless
      <3>3. SessionPost /\ FetchSlots'
        BY <1>0, <2>1, <2>4, <3>2, StartSlots
      <3>4. serial_state' = "RESPONSE_INIT"
        BY <1>3, <3>2 DEF command_start, Refuse
      <3>5. ActivityNoticed'
        BY <1>1, <3>1, <3>4 DEF ActivityNoticed
      <3> QED BY <3>3, <3>5 DEF SessionPost, SlotDiscipline
    <2> QED BY <2>3, <2>4
  <1> QED BY <1>2, <1>3 DEF ProcessCommand

(* mobile_reset ends the session; a number fetch keeps its slot.           *)
LEMMA MobileResetSlots ==
    ASSUME TypeOK, SlotDiscipline, mobile_reset, pc' = "idle"
    PROVE  SlotDiscipline'
  <1>0. /\ SocketContract /\ PendingOK /\ SessionSlots /\ FetchSlots /\ ActivityNoticed
        /\ HandlerTypes /\ OtherTypes
    BY TypeParts DEF SlotDiscipline
  <1>1. /\ ~packet_parsed' /\ serial_state' = "INIT"
        /\ config_relay' = config_relay /\ mobile_commands_reset
    BY DEF mobile_reset, configVars
  <1>2. CASE session_started
    <2>1. SessionPre /\ ~number_fetch_active
      BY <1>0, <1>2 DEF SessionPre, FetchSlots, OtherTypes
    <2>2. do_end_session /\ ~number_fetch_active' /\ ~session_started'
      BY <1>1, <1>2, <2>1 DEF mobile_commands_reset, do_end_session
    <2>3. SessionPost /\ FetchSlots'
      BY <1>1, <2>1, <2>2, EndSlots
    <2>4. ActivityNoticed'
      BY <1>1, <2>2 DEF ActivityNoticed
    <2> QED BY <2>3, <2>4 DEF SessionPost, SlotDiscipline
  <1>3. CASE ~session_started
    <2>1. /\ ~session_started'
          /\ UNCHANGED <<sock, number_fetch_active, relay_state, relay_processing>>
      BY <1>1, <1>3 DEF mobile_commands_reset, sessionVars
    <2>2. SocketContract' /\ PendingOK' /\ SessionSlots'
      BY <1>0, <1>1, <2>1 DEF SocketContract, PendingOK, SessionSlots
    <2>3. FetchSlots'
      BY <1>0, <1>1, <1>3, <2>1 DEF FetchSlots, RelaySlot, RelayInStep
    <2>4. ActivityNoticed'
      BY <1>1, <2>1 DEF ActivityNoticed
    <2> QED BY <2>2, <2>3, <2>4 DEF SlotDiscipline
  <1> QED BY <1>2, <1>3

(* The number fetch: all slots are closed before it, and slot 0 is its own *)
(* while it is polled.                                                     *)
LEMMA FetchStepSlots ==
    ASSUME OrderlyUse, HandlerTypes, config_relay \in HostType, SocketContract,
           FetchSlots, ~session_started, config_relay' = config_relay,
           ~session_started', ~packet_parsed',
           FetchBegin \/ FetchPoll \/ FetchTimeout
    PROVE  SessionPost /\ FetchSlots'
  <1>0. p2p_conn \in Conn /\ sock \in [Conn -> Socket] /\ RelayTypeOK
    BY ConnFacts DEF HandlerTypes
  <1>1. config_relay # "none"
    BY DEF HostType
  <1>2. \A c \in Conn : c # p2p_conn => sock[c] = Closed
    BY DEF FetchSlots
  <1>3. ASSUME \A c \in Conn : c # p2p_conn => sock'[c] = Closed,
               \/ ~number_fetch_active' /\ sock'[p2p_conn] = Closed
               \/ number_fetch_active' /\ RelaySlotNext("number", config_relay)
        PROVE  SessionPost /\ FetchSlots'
    <2>1. sock'[p2p_conn] # Misused
      BY <1>3, SlotValues DEF RelaySlotNext
    <2>2. SocketContract' /\ PendingOK' /\ SessionSlots'
      BY <1>3, <2>1, SlotValues DEF SocketContract, PendingOK, SessionSlots
    <2>3. number_fetch_active' => RelaySlot("number", config_relay)'
      BY <1>3 DEF RelaySlotNext, RelaySlot
    <2> QED BY <1>1, <1>3, <2>2, <2>3 DEF SessionPost, FetchSlots
  <1>4. CASE FetchBegin
    <2> DEFINE s == [sock EXCEPT ![p2p_conn] = Slot("tcp", config_relay)]
    <2>1. sock[p2p_conn] = Closed
      BY <1>0, <1>4 DEF FetchBegin, FetchSlots
    <2>2. SockOpen(sock, p2p_conn, "tcp", config_relay) = s
      BY <1>0, <2>1, OpenAt
    <2>3. /\ s \in [Conn -> Socket] /\ s[p2p_conn] = Slot("tcp", config_relay)
          /\ \A c \in Conn : c # p2p_conn => s[c] = Closed
      BY <1>0, <1>2, SlotFacts
    <2> HIDE DEF s
    <2>4. PICK rc \in {-1, 0} :
            /\ number_fetch_active' = (rc = 0)
            /\ relay_connect(s, p2p_conn, config_relay, {0}, rc)
      BY <1>4, <2>2 DEF FetchBegin, OrderlyUse
    <2>5. /\ rc = 0 => \/ /\ relay_state' = "RECV_CONNECT" /\ sock' = s
                       \/ /\ relay_state' = "RECV_HANDSHAKE"
                          /\ sock' = [s EXCEPT ![p2p_conn] =
                                         Slot("connected", config_relay)]
          /\ rc = -1 => sock' = [s EXCEPT ![p2p_conn] = Closed]
      <3>1. 0 \in {0} /\ -1 \notin {0}
        OBVIOUS
      <3> QED BY <2>3, <2>4, <3>1, RelayConnectSlots
    <2>6. relay_processing' = "BEGIN"
      BY <1>4 DEF FetchBegin
    <2>7. CASE rc # 0
      <3>1. ~number_fetch_active'
        BY <2>4, <2>7
      <3>2. /\ sock'[p2p_conn] = Closed
            /\ \A c \in Conn : c # p2p_conn => sock'[c] = Closed
        BY <1>0, <2>3, <2>5, <2>7
      <3> QED BY <1>3, <3>1, <3>2
    <2>8. CASE rc = 0
      <3>1. number_fetch_active'
        BY <2>4, <2>8
      <3>2. CASE relay_state' = "RECV_CONNECT" /\ sock' = s
        <4>1. RelaySlotNext("number", config_relay)
          BY <2>3, <2>6, <3>2 DEF RelaySlotNext, RelayInStep
        <4> QED BY <1>3, <2>3, <3>1, <3>2, <4>1
      <3>3. CASE /\ relay_state' = "RECV_HANDSHAKE"
                 /\ sock' = [s EXCEPT ![p2p_conn] = Slot("connected", config_relay)]
        <4>1. sock'[p2p_conn].phase = "connected"
          BY <1>0, <2>3, <3>3, SlotValues
        <4>2. RelaySlotNext("number", config_relay)
          BY <2>6, <3>3, <4>1 DEF RelaySlotNext, RelayInStep
        <4> QED BY <1>3, <2>3, <3>1, <3>3, <4>2
      <3> QED BY <2>5, <2>8, <3>2, <3>3
    <2> QED BY <2>4, <2>7, <2>8
  <1>5. CASE FetchPoll
    <2>1. RelaySlot("number", config_relay)
      BY <1>5 DEF FetchPoll, FetchSlots
    <2>2. PICK rc \in {-1, 0, 1} :
            /\ mobile_relay_proc(p2p_conn, config_relay, "number", {0}, rc)
            /\ number_fetch_active' = (rc = 0)
      BY <1>5 DEF FetchPoll
    <2>3. /\ rc = 0 => RelaySlotNext("number", config_relay)
          /\ rc # 0 => sock'[p2p_conn] = Closed
          /\ \A c \in Conn : c # p2p_conn => sock'[c] = sock[c]
      <3>1. /\ "number" \in Goal /\ rc \in {-1, 0, 1, 2}
            /\ 0 \in {0} /\ -1 \notin {0} /\ 2 \notin {0}
        BY DEF Goal
      <3>2. rc # 0 => rc \notin {0}
        OBVIOUS
      <3> QED BY <1>0, <2>1, <2>2, <3>1, <3>2, RelayProcSlots
    <2>4. CASE rc = 0
      <3>1. number_fetch_active'
        BY <2>2, <2>4
      <3> QED BY <1>2, <1>3, <2>3, <2>4, <3>1
    <2>5. CASE rc # 0
      <3>1. ~number_fetch_active'
        BY <2>2, <2>5
      <3> QED BY <1>2, <1>3, <2>3, <2>5, <3>1
    <2> QED BY <2>4, <2>5
  <1>6. CASE FetchTimeout
    <2>1. number_fetch_active /\ sock' = FetchCancelled(sock) /\ ~number_fetch_active'
      BY <1>6 DEF FetchTimeout, FetchCancelled
    <2>2. \A c \in Conn : sock'[c] = Closed
      BY <2>1, CancelSlots
    <2> QED BY <1>0, <1>3, <2>1, <2>2
  <1> QED BY <1>4, <1>5, <1>6

LEMMA InitNumberSlots ==
    ASSUME OrderlyUse, TypeOK, SlotDiscipline, InitNumber
    PROVE  SlotDiscipline'
  <1>0. /\ SocketContract /\ PendingOK /\ FetchSlots /\ ActivityNoticed
        /\ HandlerTypes /\ OtherTypes
    BY TypeParts DEF SlotDiscipline
  <1>1. /\ pc = "process" /\ pc' = "idle" /\ actions' = {}
        /\ "INIT_NUMBER" \in actions /\ "PROCESS_COMMAND" \notin actions
        /\ UNCHANGED <<session_started, packet_parsed, command, serial_state,
                       serial_active, global_active, config_relay>>
    BY LaterTurn DEF InitNumber, Turn, Ready, sessionVars, packetVars, configVars,
                     serialVars
  <1>2. ~session_started /\ config_relay \in HostType
    BY <1>0, <1>1 DEF ActivityNoticed, OtherTypes, AddrType
  <1>3. ~packet_parsed
    BY <1>0, <1>2 DEF PendingOK
  <1>4. SessionPost /\ FetchSlots'
    BY <1>0, <1>1, <1>2, <1>3, FetchStepSlots DEF InitNumber
  <1>5. ActivityNoticed'
    BY <1>0, <1>1, TurnNoticed
  <1> QED BY <1>4, <1>5 DEF SessionPost, SlotDiscipline

LEMMA MainLoopSlots ==
    ASSUME OrderlyUse, TypeOK, TypeOK', SlotDiscipline, MainLoop
    PROVE  SlotDiscipline'
  <1>0. ActivityNoticed /\ FetchSlots /\ HandlerTypes /\ LoopTypes
    BY TypeParts DEF SlotDiscipline
  <1>1. CASE ActionsLatch
    <2>1. UNCHANGED <<session_started, serial_state, command>>
      BY <1>1 DEF ActionsLatch, commandVars, sessionVars, packetVars
    <2>2. /\ pc = "idle" /\ pc' = "get"
          /\ global_active' = (global_active \/ serial_active)
          /\ serial_active => serial_time' = 0
      BY <1>1 DEF ActionsLatch
    <2>3. session_started => global_active'
      BY <1>0, <2>2 DEF ActivityNoticed
    <2>4. ~session_started /\ serial_state = "RESPONSE_WAITING" =>
            command = "START" /\ global_active' /\ serial_time' = 0
      BY <1>0, <2>2 DEF ActivityNoticed
    <2>5. ActivityNoticed'
      BY <2>1, <2>2, <2>3, <2>4 DEF ActivityNoticed
    <2> QED BY <1>1, <2>1, <2>5, FrameSlots DEF ActionsLatch
  <1>2. CASE ActionsCollect
    <2>1. UNCHANGED <<session_started, serial_state, command, serial_active,
                      global_active, serial_time, config_relay>>
      BY <1>2 DEF ActionsCollect, commandVars, sessionVars, packetVars, configVars,
                  serialVars, timeVars
    <2>2. /\ pc = "get" /\ pc' = "process" /\ actions' = {a \in Action : Due(a)}
      BY <1>2 DEF ActionsCollect, OrderlyUse
    <2>3. session_started => global_active
      BY <1>0, <2>2 DEF ActivityNoticed
    <2>4. "INIT_NUMBER" \in actions' => ~session_started /\ config_relay # "none"
      BY <1>0, <2>2, <2>3 DEF Due, FetchSlots
    <2>5. ASSUME serial_active
          PROVE  ActivityNoticed'
      BY <1>0, <2>1, <2>2, <2>3, <2>4, <2>5 DEF ActivityNoticed
    <2>6. ASSUME ~serial_active, ~session_started, serial_state = "RESPONSE_WAITING"
          PROVE  ActivityNoticed'
      <3>1. command = "START" /\ global_active /\ serial_time = 0
        BY <1>0, <2>2, <2>6 DEF ActivityNoticed
      <3>2. ~Due("RESET") /\ Due("PROCESS_COMMAND")
        BY <2>6, <3>1 DEF Due
      <3>3. "PROCESS_COMMAND" \in Action
        <4>1. ActionOrder[3] = "PROCESS_COMMAND"
          BY DEF ActionOrder
        <4> QED BY <4>1 DEF Action
      <3>4. "RESET" \notin actions' /\ "PROCESS_COMMAND" \in actions'
        BY <2>2, <3>2, <3>3
      <3> QED BY <2>1, <2>2, <2>3, <2>4, <3>1, <3>4 DEF ActivityNoticed
    <2>7. ASSUME session_started \/ serial_state # "RESPONSE_WAITING"
          PROVE  ActivityNoticed'
      BY <2>1, <2>2, <2>3, <2>4, <2>7 DEF ActivityNoticed
    <2>8. ActivityNoticed'
      BY <2>5, <2>6, <2>7
    <2> QED BY <1>2, <2>1, <2>8, FrameSlots DEF ActionsCollect
  <1>3. CASE NothingToDo
    <2>1. "PROCESS_COMMAND" \notin actions
      BY <1>3 DEF NothingToDo, Ready
    <2>2. ActivityNoticed'
      BY <1>0, <1>3, <2>1, TurnNoticed DEF NothingToDo, commandVars, sessionVars,
         packetVars, serialVars
    <2> QED BY <1>3, <2>2, FrameSlots DEF NothingToDo, serialVars
  <1>4. CASE DropConnection
    BY <1>4, MobileResetSlots DEF DropConnection, Turn
  <1>5. CASE Reset
    <2>1. ~session_started /\ "RESET" \in actions /\ pc = "process" /\ pc' = "idle"
          /\ actions' = {}
      BY <1>5 DEF Reset, Turn, Ready
    <2>2. ActivityNoticed'
      BY <1>0, <1>5, <2>1, TurnNoticed DEF Reset, commandVars, sessionVars, packetVars
    <2> QED BY <1>5, <2>2, FrameSlots DEF Reset
  <1>6. CASE ProcessCommand
    BY <1>6, ProcessCommandSlots
  <1>7. CASE ResetSerial \/ Change32BitMode
    <2>1. /\ "PROCESS_COMMAND" \notin actions /\ pc = "process" /\ pc' = "idle"
          /\ actions' = {}
      BY <1>7, LaterTurn DEF ResetSerial, Change32BitMode, Turn
    <2>2. UNCHANGED <<commandVars, configVars, global_active, serial_state, serial_active>>
      BY <1>7 DEF ResetSerial, Change32BitMode
    <2>3. ActivityNoticed'
      BY <1>0, <2>1, <2>2, TurnNoticed DEF commandVars, sessionVars, packetVars
    <2> QED BY <2>2, <2>3, FrameSlots
  <1>8. CASE WriteConfig
    <2>1. /\ "PROCESS_COMMAND" \notin actions /\ pc = "process" /\ pc' = "idle"
          /\ actions' = {}
      BY <1>8, LaterTurn DEF WriteConfig, Turn
    <2>2. UNCHANGED <<sock, relay_state, relay_processing, session_started,
                      state, connections, command, arg, packet_parsed,
                      processing, processing_data, processing_addr,
                      number_fetch_active, config_relay, global_active,
                      serial_state, serial_active>>
      BY <1>8 DEF WriteConfig, sessionVars, packetVars, configVars, serialVars
    <2>3. ActivityNoticed'
      BY <1>0, <2>1, <2>2, TurnNoticed
    <2> QED BY <2>2, <2>3, QuietSlots
  <1>9. CASE InitNumber
    BY <1>9, InitNumberSlots
  <1> QED BY <1>1, <1>2, <1>3, <1>4, <1>5, <1>6, <1>7, <1>8, <1>9 DEF MainLoop

LEMMA UserSlots ==
    ASSUME OrderlyUse, TypeOK, SlotDiscipline, User
    PROVE  SlotDiscipline'
  <1>0. /\ SocketContract /\ PendingOK /\ SessionSlots /\ FetchSlots
        /\ ActivityNoticed /\ HandlerTypes
    BY TypeParts DEF SlotDiscipline
  <1>1. CASE mobile_start
    <2>1. /\ pc = "idle" /\ pc' = "idle"
          /\ UNCHANGED <<commandVars, configVars, session_started, command,
                         serial_state, serial_active, global_active>>
      BY <1>1 DEF mobile_start, commandVars, sessionVars, packetVars
    <2>2. ActivityNoticed'
      BY <1>0, <2>1 DEF ActivityNoticed
    <2> QED BY <2>1, <2>2, FrameSlots
  <1>2. CASE mobile_stop
    BY <1>2, MobileResetSlots DEF mobile_stop
  <1>3. CASE Configure
    <2>1. /\ pc = "idle" /\ pc' = "idle"
          /\ UNCHANGED <<relay_state, relay_processing, session_started, state,
                         connections, command, arg, packet_parsed, processing,
                         processing_data, processing_addr, serial_state,
                         serial_active, global_active>>
      BY <1>3 DEF Configure, OrderlyUse, sessionVars, packetVars, serialVars,
         loopVars
    <2>2. ActivityNoticed'
      BY <1>0, <2>1 DEF ActivityNoticed
    <2>3. CASE mobile_config_set_dns
      <3>1. UNCHANGED <<sock, number_fetch_active, config_relay>>
        BY <2>3 DEF mobile_config_set_dns
      <3> QED BY <2>1, <2>2, <3>1, QuietSlots
    <2>4. CASE NumberFetchReset
      <3>1. sock' = FetchCancelled(sock) /\ ~number_fetch_active'
        BY <2>4 DEF NumberFetchReset
      <3>2. CASE session_started
        <4>1. sock' = sock
          BY <1>0, <3>1, <3>2, CancelSlots
        <4>2. SocketContract'
          BY <1>0, <4>1 DEF SocketContract
        <4>3. PendingOK'
          BY <1>0, <2>1, <4>1 DEF PendingOK, RelaySlot, RelayInStep
        <4>4. SessionSlots'
          BY <1>0, <2>1, <4>1 DEF SessionSlots, Pending, RelaySlot, RelayInStep
        <4>5. FetchSlots'
          BY <2>1, <3>1, <3>2 DEF FetchSlots
        <4> QED BY <2>2, <4>2, <4>3, <4>4, <4>5 DEF SlotDiscipline
      <3>3. CASE ~session_started
        <4>1. \A c \in Conn : sock'[c] = Closed
          BY <1>0, <3>1, <3>3, CancelSlots
        <4>2. ~packet_parsed'
          BY <1>0, <2>1, <3>3 DEF PendingOK
        <4>3. SocketContract' /\ PendingOK' /\ SessionSlots' /\ FetchSlots'
          BY <2>1, <3>1, <3>3, <4>1, <4>2, SlotValues
             DEF SocketContract, PendingOK, SessionSlots, FetchSlots
        <4> QED BY <2>2, <4>3 DEF SlotDiscipline
      <3> QED BY <3>2, <3>3
    <2>5. CASE mobile_config_set_relay \/ mobile_config_set_relay_token
      BY <2>4, <2>5 DEF mobile_config_set_relay, mobile_config_set_relay_token
    <2>6. CASE mobile_start \/ mobile_stop
      BY <1>1, <1>2, <2>6
    <2>7. ~mobile_init
      BY DEF mobile_init, OrderlyUse
    <2> QED BY <2>3, <2>5, <2>6, <2>7 DEF User
  <1>4. ~mobile_init
    BY DEF mobile_init, OrderlyUse
  <1>5. CASE \/ mobile_config_set_relay \/ mobile_config_set_relay_token
             \/ mobile_config_set_dns
    <2>1. Configure
      BY <1>5 DEF mobile_config_set_relay, mobile_config_set_relay_token,
                  mobile_config_set_dns
    <2> QED BY <1>3, <2>1
  <1> QED BY <1>1, <1>2, <1>4, <1>5 DEF User

LEMMA TickSlots ==
    ASSUME SlotDiscipline, TickSerial \/ TickCommand
    PROVE  SlotDiscipline'
  <1>1. /\ pc = "idle" /\ pc' = "idle"
        /\ UNCHANGED <<commandVars, configVars, session_started, command,
                       serial_state, serial_active, global_active>>
    BY DEF TickSerial, TickCommand, commandVars, sessionVars, packetVars,
           serialVars, loopVars
  <1>2. ActivityNoticed'
    BY <1>1 DEF SlotDiscipline, ActivityNoticed
  <1> QED BY <1>1, <1>2, FrameSlots

LEMMA StutterSlots ==
    ASSUME SlotDiscipline, UNCHANGED vars
    PROVE  SlotDiscipline'
  <1>1. UNCHANGED <<commandVars, configVars, session_started, command, config_relay,
                    serial_state, serial_active, global_active, pc, actions,
                    serial_time>>
    BY DEF vars, commandVars, sessionVars, packetVars, configVars, serialVars,
           loopVars, timeVars
  <1>2. ActivityNoticed'
    BY <1>1 DEF SlotDiscipline, ActivityNoticed
  <1> QED BY <1>1, <1>2, FrameSlots

-----------------------------------------------------------------------------
(* Adapter, SlotDiscipline: if the console sends nothing but START outside *)
(* of a session, the user neither withholds actions nor initialises the    *)
(* library again and sock_open does not fail for the number fetch, then    *)
(* through every interleaving of packets, polls, drops, stops and fetches  *)
(* a slot is open exactly while the progress of its user says so.          *)
THEOREM SlotsDisciplined == OrderlyUse => (Spec => []SlotDiscipline)
  <1> SUFFICES ASSUME OrderlyUse PROVE Spec => []SlotDiscipline
    OBVIOUS
  <1>1. TypeOK /\ TypeOK' /\ SlotDiscipline /\ [Next]_vars => SlotDiscipline'
    BY InterruptSlots, MainLoopSlots, UserSlots, TickSlots, StutterSlots DEF Next
  <1> QED BY <1>1, SlotInit, TypeCorrect, PTL DEF Spec

(* Sockets, SocketContract: under the same assumptions no handler, drop,   *)
(* stop, number fetch or setting ever opens a slot twice, closes it twice  *)
(* or uses it in a phase mobile.h forbids, whatever the network does.      *)
THEOREM ContractKept == OrderlyUse => (Spec => []SocketContract)
  <1>1. SlotDiscipline => SocketContract
    BY DEF SlotDiscipline
  <1> QED BY <1>1, SlotsDisciplined, PTL

(* Adapter, FetchOutsideSession: under the same assumptions number_fetch_  *)
(* handle is never called during a session, with which it shares slot 0.   *)
THEOREM FetchAndSessionApart == OrderlyUse => (Spec => []FetchOutsideSession)
  <1>1. SlotDiscipline => FetchOutsideSession
    BY DEF SlotDiscipline, FetchSlots, FetchOutsideSession
  <1> QED BY <1>1, SlotsDisciplined, PTL

(* Adapter, RelayConsistent: under the same assumptions no poll of relay.c *)
(* finds a progress that belongs to another procedure.                     *)
THEOREM RelayStaysInStep == OrderlyUse => (Spec => []RelayConsistent)
  <1>1. SlotDiscipline => RelayConsistent
    <2> SUFFICES ASSUME SlotDiscipline, NEW goal \in Goal, RelayLive(goal)
                 PROVE  RelayInStep(goal)
      BY DEF RelayConsistent
    <2>1. CASE goal = "number"
      BY <2>1 DEF RelayLive, SlotDiscipline, FetchSlots, RelaySlot
    <2>2. CASE goal = "wait"
      BY <2>2 DEF RelayLive, SlotDiscipline, SessionSlots, RelaySlot
    <2>3. CASE goal = "call"
      BY <2>3 DEF RelayLive, SlotDiscipline, PendingOK, RelaySlot
    <2> QED BY <2>1, <2>2, <2>3 DEF Goal
  <1> QED BY <1>1, SlotsDisciplined, PTL

-----------------------------------------------------------------------------
(***************************************************************************)
(* The numbers the user is shown, the buffer that the relay and the DNS    *)
(* client share, and the DNS server that is tried first.                   *)
(***************************************************************************)

(* Every step that a handler is not part of, as far as packets are         *)
(* concerned.                                                              *)
LEMMA HandlerOrNot ==
    ASSUME ProcessCommand
    PROVE  \/ UNCHANGED commandVars
           \/ /\ serial_state = "RESPONSE_WAITING"
              /\ \E reply \in Replies :
                    command_handle(reply) /\ mobile_commands_process(reply)
  BY DEF ProcessCommand, command_handle

-----------------------------------------------------------------------------
(* The user's own number.                                                  *)

(* A step leaves the number alone, or shows it and ends the attempts.      *)
NumberStep ==
    \/ UNCHANGED <<user_number, number_fetch_retries>>
    \/ number_fetch_retries' = 0 /\ user_number'

LEMMA RelayNumber ==
    ASSUME NEW c, NEW server, NEW goal, NEW keep, NEW rc,
           mobile_relay_proc(c, server, goal, keep, rc)
    PROVE  NumberStep
  BY DEF mobile_relay_proc, relay_handshake, relay_get_number, relay_answer,
         NumberStep

LEMMA HandlerNumber ==
    ASSUME NEW reply, mobile_commands_process(reply)
    PROVE  NumberStep
  <1>1. CASE NoRelay \/ UNCHANGED <<user_number, number_fetch_retries>>
    BY <1>1 DEF NumberStep, NoRelay, relayVars
  <1>2. CASE Refuse(reply)
    BY <1>1, <1>2 DEF Refuse
  <1>3. CASE command_start(reply) \/ command_end(reply) \/ command_reinit(reply)
    BY <1>1, <1>2, <1>3 DEF command_start, command_end, command_reinit
  <1>4. CASE command_tel(reply)
    <2>1. CASE command_tel_begin(reply)
      BY <1>1, <1>2, <2>1 DEF command_tel_begin
    <2>2. CASE TelTimeout(reply) \/ command_tel_ip(reply)
      BY <1>1, <2>2 DEF TelTimeout, command_tel_ip
    <2>3. CASE command_tel_relay(reply)
      BY <2>3, RelayNumber DEF command_tel_relay
    <2> QED BY <1>4, <2>1, <2>2, <2>3 DEF command_tel
  <1>5. CASE command_offline(reply) \/ command_ppp_disconnect(reply)
    BY <1>1, <1>2, <1>5 DEF command_offline, command_ppp_disconnect
  <1>6. CASE command_wait_call(reply)
    <2>1. CASE command_wait_call_begin(reply)
      BY <1>1, <2>1 DEF command_wait_call_begin
    <2>2. CASE command_wait_call_ip(command_time', reply)
      BY <1>1, <2>2 DEF command_wait_call_ip
    <2>3. CASE command_wait_call_relay(command_time', reply)
      BY <1>1, <2>3, RelayNumber DEF command_wait_call_relay
    <2> QED BY <1>1, <1>2, <1>6, <2>1, <2>2, <2>3 DEF command_wait_call
  <1>7. CASE \/ command_data(reply) \/ command_change_clock(reply)
             \/ command_ppp_connect(reply) \/ command_tcp_disconnect(reply)
             \/ command_stateless(reply)
    BY <1>1, <1>2, <1>7 DEF command_data, command_change_clock,
       command_ppp_connect, command_tcp_disconnect, command_stateless
  <1>8. CASE command_tcp_connect(reply)
    BY <1>1, <1>2, <1>8 DEF command_tcp_connect, command_tcp_connect_begin,
       command_tcp_connect_connecting
  <1>9. CASE command_dns_request(reply)
    BY <1>1, <1>2, <1>9 DEF command_dns_request, command_dns_request_begin,
       command_dns_request_check
  <1> QED BY <1>3, <1>4, <1>5, <1>6, <1>7, <1>8, <1>9 DEF mobile_commands_process

(* A number that is shown stays, and goes with no retries left.            *)
NumberKept ==
    /\ user_number => user_number'
    /\ UserNumberSettled => UserNumberSettled'

LEMMA OtherSteps ==
    ASSUME ~UserMayReinit, [Next]_vars, ~SettingsOfNumber
    PROVE  NumberKept
  <1> USE DEF NumberKept, UserNumberSettled
  <1>1. CASE NumberStep
    BY <1>1 DEF NumberStep
  <1>2. CASE UNCHANGED <<user_number, number_fetch_retries>>
    BY <1>2
  <1>3. CASE Interrupt
    BY <1>2, <1>3 DEF Interrupt, TransferByte, TransferStart, TransferDrop,
       TransferPacket, TransferResponse, TransferAcknowledge, commandVars,
       relayVars
  <1>4. CASE mobile_reset
    BY <1>2, <1>4 DEF mobile_reset, mobile_commands_reset
  <1>5. CASE ProcessCommand
    BY <1>1, <1>2, <1>5, HandlerOrNot, HandlerNumber DEF commandVars, relayVars
  <1>6. CASE InitNumber
    <2>1. CASE FetchBegin
      BY <2>1 DEF FetchBegin
    <2>2. CASE FetchPoll
      BY <1>1, <2>2, RelayNumber DEF FetchPoll
    <2>3. CASE FetchTimeout
      BY <1>2, <2>3 DEF FetchTimeout, relayVars
    <2> QED BY <1>6, <2>1, <2>2, <2>3 DEF InitNumber
  <1>7. CASE MainLoop
    <2>1. CASE DropConnection \/ ProcessCommand \/ InitNumber
      BY <1>4, <1>5, <1>6, <2>1 DEF DropConnection
    <2>2. CASE ~(DropConnection \/ ProcessCommand \/ InitNumber)
      BY <1>2, <1>7, <2>2 DEF MainLoop, ActionsLatch, ActionsCollect, NothingToDo,
         Reset, ResetSerial, Change32BitMode, WriteConfig, commandVars, relayVars
    <2> QED BY <2>1, <2>2
  <1>8. CASE User
    <2>1. CASE mobile_stop
      BY <1>4, <2>1 DEF mobile_stop
    <2>2. CASE mobile_start \/ mobile_config_set_dns
      BY <1>2, <2>2 DEF mobile_start, mobile_config_set_dns, commandVars, relayVars
    <2>3. ~mobile_init
      BY DEF mobile_init
    <2> QED BY <1>8, <2>1, <2>2, <2>3 DEF User, SettingsOfNumber
  <1>9. CASE TickSerial \/ TickCommand \/ UNCHANGED vars
    BY <1>2, <1>9 DEF TickSerial, TickCommand, vars, commandVars, relayVars
  <1> QED BY <1>3, <1>7, <1>8, <1>9 DEF Next

LEMMA SettingsStep ==
    ASSUME UserNumberSettled, SettingsOfNumber
    PROVE  ~user_number' /\ UserNumberSettled'
  BY DEF UserNumberSettled, SettingsOfNumber, mobile_config_set_relay,
     mobile_config_set_relay_token, NumberFetchReset

(* Adapter, NumberFollowsSettings: mobile_number_fetch_reset withdraws the *)
(* number that the user was shown whenever the relay or the token changes, *)
(* because a number that is shown goes with no retries left, whoever       *)
(* fetched it; no other step withdraws it.  The library is initialised     *)
(* once.                                                                   *)
THEOREM NumberFollows == ~UserMayReinit => (Spec => NumberFollowsSettings)
  <1> SUFFICES ASSUME ~UserMayReinit PROVE Spec => NumberFollowsSettings
    OBVIOUS
  <1>1. Init => UserNumberSettled
    BY DEF Init, UserNumberSettled
  <1>2. UserNumberSettled /\ [Next]_vars => UserNumberSettled'
    BY OtherSteps, SettingsStep DEF NumberKept
  <1>3. UserNumberSettled /\ [Next]_vars =>
           [/\ SettingsOfNumber => ~user_number'
            /\ user_number /\ ~user_number' => SettingsOfNumber]_vars
    BY OtherSteps, SettingsStep DEF NumberKept
  <1> QED BY <1>1, <1>2, <1>3, PTL DEF Spec, NumberFollowsSettings

-----------------------------------------------------------------------------
(* The number of the peer.                                                 *)
LEMMA RelayPeer ==
    ASSUME NEW c, NEW server, NEW goal, NEW keep, NEW rc,
           mobile_relay_proc(c, server, goal, keep, rc)
    PROVE  peer_number' => peer_number \/ (goal # "number" /\ rc = 1)
  BY DEF mobile_relay_proc, relay_handshake, relay_get_number, relay_answer

(* A call that ends, however it does.                                      *)
LEMMA OfflinePeer ==
    ASSUME PeerNumberInCall
    PROVE  ~(peer_number /\ ~OffHook)
  BY DEF PeerNumberInCall, OffHook

LEMMA TelPeer ==
    ASSUME PeerNumberInCall, session_started, NEW reply, command_tel(reply)
    PROVE  PeerNumberInCall'
  <1> USE DEF PeerNumberInCall
  <1>1. CASE command_tel_begin(reply)
    <2>1. CASE Refuse(reply)
      BY <2>1 DEF Refuse, NoRelay, relayVars, NoSession, sessionVars, NoTable
    <2>2. CASE state \in Waitable /\ NoSession
      <3>1. ~peer_number /\ session_started'
        BY <2>2 DEF Waitable, InCall, NoSession, sessionVars
      <3>2. peer_number' => state' = "CALL_ISP"
        BY <1>1, <2>2, <3>1 DEF command_tel_begin, Refuse, NoRelay, relayVars
      <3> QED BY <3>1, <3>2 DEF InCall
    <2> QED BY <1>1, <2>1, <2>2 DEF command_tel_begin
  <1>2. CASE TelTimeout(reply)
    BY <1>2 DEF TelTimeout, NoRelay, relayVars, NoSession, sessionVars
  <1>3. CASE command_tel_ip(reply)
    <2>1. session_started'
      BY <1>3 DEF command_tel_ip, NoSession, sessionVars
    <2>2. \/ UNCHANGED <<peer_number, state>>
          \/ state' = "CALL"
      BY <1>3 DEF command_tel_ip, NoTable
    <2> QED BY <2>1, <2>2 DEF InCall
  <1>4. CASE command_tel_relay(reply)
    <2>1. session_started'
      BY <1>4 DEF command_tel_relay, NoSession, sessionVars
    <2>2. PICK rc \in {-1, 0, 1, 2} :
             /\ mobile_relay_proc(p2p_conn, processing_addr, "call", {0, 1}, rc)
             /\ state' = IF rc = 1 THEN "CALL" ELSE state
      BY <1>4 DEF command_tel_relay
    <2>3. peer_number' => peer_number \/ rc = 1
      BY <2>2, RelayPeer
    <2> QED BY <2>1, <2>2, <2>3 DEF InCall
  <1> QED BY <1>1, <1>2, <1>3, <1>4 DEF command_tel

LEMMA WaitPeer ==
    ASSUME PeerNumberInCall, session_started, NEW reply, command_wait_call(reply)
    PROVE  PeerNumberInCall'
  <1> USE DEF PeerNumberInCall
  <1>1. CASE \/ Refuse(reply)
             \/ NoRelay /\ NoTable /\ NoSession
    BY <1>1 DEF Refuse, NoRelay, relayVars, NoSession, sessionVars, NoTable
  <1>2. CASE state \in Waitable /\ NoSession
    <2>1. ~peer_number /\ session_started'
      BY <1>2 DEF Waitable, InCall, NoSession, sessionVars
    <2>2. CASE command_wait_call_begin(reply)
      BY <2>1, <2>2 DEF command_wait_call_begin, NoRelay, relayVars
    <2>3. CASE command_wait_call_ip(command_time', reply)
      BY <2>1, <2>3 DEF command_wait_call_ip, NoRelay, relayVars
    <2>4. CASE command_wait_call_relay(command_time', reply)
      <3>1. CASE NoRelay
        BY <2>1, <3>1 DEF NoRelay, relayVars
      <3>2. ASSUME NEW rc \in {-1, 0, 1, 2},
                   mobile_relay_proc(p2p_conn, processing_addr, "wait", {0, 1}, rc),
                   state' = CASE rc = 0 -> state [] rc = 1 -> "CALL_RECV"
                              [] OTHER -> "WAIT_TIMEOUT"
            PROVE  PeerNumberInCall'
        <4>1. peer_number' => rc = 1
          BY <2>1, <3>2, RelayPeer
        <4>2. rc = 1 => state' = "CALL_RECV"
          BY <3>2
        <4> QED BY <2>1, <4>1, <4>2 DEF InCall
      <3> QED BY <2>4, <3>1, <3>2 DEF command_wait_call_relay
    <2>5. CASE Refuse(reply) \/ (NoRelay /\ NoTable /\ NoSession)
      BY <1>1, <2>5
    <2> QED BY <1>2, <2>2, <2>3, <2>4, <2>5 DEF command_wait_call
  <1> QED BY <1>1, <1>2 DEF command_wait_call

LEMMA HandlerPeer ==
    ASSUME PeerNumberInCall, session_started \/ command = "START",
           NEW reply, mobile_commands_process(reply)
    PROVE  PeerNumberInCall'
  <1> USE DEF PeerNumberInCall
  <1>1. CASE UNCHANGED <<peer_number, session_started, state>>
    BY <1>1
  <1>2. CASE Refuse(reply)
    BY <1>1, <1>2 DEF Refuse, NoRelay, relayVars, NoSession, sessionVars, NoTable
  <1>3. CASE command_start(reply)
    <2>1. CASE ~session_started /\ NoRelay
      BY <2>1 DEF NoRelay, relayVars
    <2> QED BY <1>2, <1>3, <2>1 DEF command_start
  <1>4. CASE command_end(reply) \/ command_reinit(reply)
    <2>1. peer_number' = (peer_number /\ ~OffHook)
      BY <1>4 DEF command_end, command_reinit, do_end_session, AfterOffline
    <2> QED BY <2>1, OfflinePeer
  <1>5. CASE command = "TEL" /\ command_tel(reply)
    BY <1>5, TelPeer
  <1>6. CASE command_offline(reply)
    <2>1. CASE AfterOffline
      <3>1. peer_number' = (peer_number /\ ~OffHook)
        BY <2>1 DEF AfterOffline
      <3> QED BY <3>1, OfflinePeer
    <2> QED BY <1>2, <1>6, <2>1 DEF command_offline
  <1>7. CASE command = "WAIT_CALL" /\ command_wait_call(reply)
    BY <1>7, WaitPeer
  <1>0. CASE NoRelay /\ NoSession /\ UNCHANGED state
    BY <1>0, <1>1 DEF NoRelay, relayVars, NoSession, sessionVars
  <1>8. CASE command_data(reply)
    <2>1. Refuse(reply) \/ (NoRelay /\ NoSession /\ UNCHANGED state)
      BY <1>8 DEF command_data
    <2> QED BY <1>0, <1>2, <2>1
  <1>9. CASE command_ppp_connect(reply) \/ command_ppp_disconnect(reply)
    <2>1. CASE NoRelay /\ NoSession /\ state' \in {"INTERNET", "CALL_ISP"}
      BY <2>1 DEF NoRelay, relayVars, NoSession, sessionVars, InCall
    <2> QED BY <1>2, <1>9, <2>1 DEF command_ppp_connect, command_ppp_disconnect
  <1>10. CASE \/ command_change_clock(reply) \/ command_tcp_disconnect(reply)
              \/ command_stateless(reply)
    <2>1. CASE command_change_clock(reply)
      <3>1. \/ Refuse(reply)
            \/ NoRelay /\ NoTable /\ UNCHANGED session_started
        BY <2>1 DEF command_change_clock
      <3> QED BY <1>1, <1>2, <3>1 DEF NoRelay, relayVars, NoTable
    <2>2. CASE command_tcp_disconnect(reply)
      BY <1>0, <1>2, <2>2 DEF command_tcp_disconnect, NoTable
    <2>3. CASE command_stateless(reply)
      BY <1>0, <1>2, <2>3 DEF command_stateless, NoTable
    <2> QED BY <1>10, <2>1, <2>2, <2>3
  <1>11. CASE command_tcp_connect(reply)
    <2>1. CASE command_tcp_connect_begin(reply)
      <3>1. Refuse(reply) \/ (NoRelay /\ NoSession /\ UNCHANGED state)
        BY <2>1 DEF command_tcp_connect_begin
      <3> QED BY <1>0, <1>2, <3>1
    <2>2. CASE command_tcp_connect_connecting(reply)
      <3>1. NoRelay /\ NoSession /\ UNCHANGED state
        BY <2>2 DEF command_tcp_connect_connecting
      <3> QED BY <1>0, <3>1
    <2> QED BY <1>11, <2>1, <2>2 DEF command_tcp_connect
  <1>12. CASE command_dns_request(reply)
    <2>1. CASE command_dns_request_begin(reply)
      <3>1. \/ Refuse(reply)
            \/ NoRelay /\ NoTable /\ NoSession
            \/ UNCHANGED <<state, peer_number>> /\ NoSession
        BY <2>1 DEF command_dns_request_begin
      <3> QED BY <1>1, <1>2, <3>1
            DEF NoRelay, relayVars, NoTable, NoSession, sessionVars
    <2>2. CASE command_dns_request_check(reply)
      <3>1. UNCHANGED <<state, peer_number>> /\ NoSession
        BY <2>2 DEF command_dns_request_check
      <3> QED BY <1>1, <3>1 DEF NoSession, sessionVars
    <2> QED BY <1>12, <2>1, <2>2 DEF command_dns_request
  <1> QED BY <1>3, <1>4, <1>5, <1>6, <1>7, <1>8, <1>9, <1>10, <1>11, <1>12
      DEF mobile_commands_process

LEMMA ResetPeer ==
    ASSUME PeerNumberInCall, mobile_reset
    PROVE  PeerNumberInCall'
  <1> USE DEF PeerNumberInCall
  <1>1. CASE do_end_session
    <2>1. peer_number' = (peer_number /\ ~OffHook)
      BY <1>1 DEF do_end_session, AfterOffline
    <2> QED BY <2>1, OfflinePeer
  <1>2. CASE UNCHANGED <<state, peer_number, sessionVars>>
    BY <1>2 DEF sessionVars
  <1> QED BY <1>1, <1>2 DEF mobile_reset, mobile_commands_reset

LEMMA PeerNumberStep ==
    ASSUME OrderlyUse, SlotDiscipline, PeerNumberInCall, [Next]_vars
    PROVE  PeerNumberInCall'
  <1> USE DEF PeerNumberInCall
  <1>1. CASE UNCHANGED <<peer_number, session_started, state>>
    BY <1>1
  <1>2. CASE UNCHANGED commandVars
    BY <1>1, <1>2 DEF commandVars, relayVars, sessionVars
  <1>3. CASE Interrupt
    BY <1>1, <1>3 DEF Interrupt, TransferByte, TransferStart, TransferDrop,
       TransferPacket, TransferResponse, TransferAcknowledge, commandVars,
       relayVars, sessionVars
  <1>4. CASE ProcessCommand
    <2>1. ASSUME serial_state = "RESPONSE_WAITING", NEW reply \in Replies,
                 mobile_commands_process(reply)
          PROVE  PeerNumberInCall'
      <3>1. session_started \/ command = "START"
        BY <2>1 DEF SlotDiscipline, ActivityNoticed
      <3> QED BY <2>1, <3>1, HandlerPeer
    <2> QED BY <1>2, <1>4, <2>1, HandlerOrNot
  <1>5. CASE InitNumber
    <2>1. UNCHANGED <<session_started, state>>
      BY <1>5 DEF InitNumber, sessionVars
    <2>2. CASE FetchBegin
      BY <2>1, <2>2 DEF FetchBegin
    <2>3. CASE FetchPoll
      BY <2>1, <2>3, RelayPeer DEF FetchPoll
    <2>4. CASE FetchTimeout
      BY <2>1, <2>4 DEF FetchTimeout, relayVars
    <2> QED BY <1>5, <2>2, <2>3, <2>4 DEF InitNumber
  <1>6. CASE MainLoop
    <2>1. CASE DropConnection
      BY <2>1, ResetPeer DEF DropConnection
    <2>2. CASE ~(DropConnection \/ ProcessCommand \/ InitNumber)
      BY <1>1, <1>6, <2>2 DEF MainLoop, ActionsLatch, ActionsCollect, NothingToDo,
         Reset, ResetSerial, Change32BitMode, WriteConfig, commandVars, relayVars,
         sessionVars
    <2> QED BY <1>4, <1>5, <2>1, <2>2
  <1>7. CASE User
    <2>1. CASE mobile_stop
      BY <2>1, ResetPeer DEF mobile_stop
    <2>2. CASE \/ mobile_config_set_relay \/ mobile_config_set_relay_token
               \/ mobile_config_set_dns
      BY <1>1, <2>2 DEF mobile_config_set_relay, mobile_config_set_relay_token,
         mobile_config_set_dns, Configure, sessionVars
    <2>3. CASE mobile_start
      BY <1>2, <2>3 DEF mobile_start
    <2>4. ~mobile_init
      BY DEF mobile_init, OrderlyUse
    <2> QED BY <1>7, <2>1, <2>2, <2>3, <2>4 DEF User
  <1>8. CASE TickSerial \/ TickCommand \/ UNCHANGED vars
    BY <1>2, <1>8 DEF TickSerial, TickCommand, vars
  <1> QED BY <1>3, <1>6, <1>7, <1>8 DEF Next

(* Adapter, PeerNumberInCall: under the same assumptions the number of a   *)
(* peer is withdrawn however its call ends: by the console, by a drop, a   *)
(* stop or a new session.                                                  *)
THEOREM PeerNumberWithdrawn == OrderlyUse => (Spec => []PeerNumberInCall)
  <1> SUFFICES ASSUME OrderlyUse PROVE Spec => []PeerNumberInCall
    OBVIOUS
  <1>1. Init => PeerNumberInCall
    BY DEF Init, PeerNumberInCall
  <1>2. SlotDiscipline /\ PeerNumberInCall /\ [Next]_vars => PeerNumberInCall'
    BY PeerNumberStep
  <1> QED BY <1>1, <1>2, SlotsDisciplined, PTL DEF Spec

-----------------------------------------------------------------------------
(* The buffer that the relay and the DNS client share.                     *)

(* What the relay needs of it, whichever procedure is polled.              *)
RelayOwns == relay_state \in Receiving => net_buffer = "relay"

(* Who will look at it again.                                              *)
RelayWaits == session_started /\ state = "WAIT_RELAY"
RelayCalls == packet_parsed /\ command = "TEL" /\ processing = "RELAY"
DnsChecks  == packet_parsed /\ command = "DNS_REQUEST" /\ processing = "CHECK"

LEMMA BufferUsers ==
    SharedBuffer <=> /\ (number_fetch_active \/ RelayWaits \/ RelayCalls)
                           => RelayOwns
                     /\ DnsChecks => net_buffer = "dns"
  BY DEF SharedBuffer, RelayLive, Goal, RelayOwns, RelayWaits, RelayCalls, DnsChecks

LEMMA BufferUsersNext ==
    SharedBuffer' <=> /\ (number_fetch_active' \/ RelayWaits' \/ RelayCalls')
                            => RelayOwns'
                      /\ DnsChecks' => net_buffer' = "dns"
  BY DEF SharedBuffer, RelayLive, Goal, RelayOwns, RelayWaits, RelayCalls, DnsChecks

(* A step that leaves the buffer alone and adds no user to it.             *)
LEMMA CalmBuffer ==
    ASSUME SharedBuffer, UNCHANGED <<relay_state, net_buffer>>,
           number_fetch_active' => number_fetch_active,
           RelayWaits' => RelayWaits, RelayCalls' => RelayCalls,
           DnsChecks' => DnsChecks
    PROVE  SharedBuffer'
  BY BufferUsers, BufferUsersNext DEF RelayOwns

(* Bytes of the server are only waited for after the handshake was written *)
(* to the buffer.                                                          *)
LEMMA ConnectBuffer ==
    ASSUME NEW s, NEW c, NEW server, NEW keep, NEW rc,
           relay_connect(s, c, server, keep, rc)
    PROVE  RelayOwns'
  BY DEF relay_connect, RelayOwns, Receiving

LEMMA ProcBuffer ==
    ASSUME RelayOwns, NEW c, NEW server, NEW goal, NEW keep, NEW rc,
           mobile_relay_proc(c, server, goal, keep, rc)
    PROVE  RelayOwns'
  <1>1. CASE relay_connect(sock, c, server, keep, rc)
    BY <1>1, ConnectBuffer
  <1>2. CASE relay_state \in Receiving /\ net_buffer' = net_buffer
    BY <1>2 DEF RelayOwns
  <1>3. CASE relay_handshake(c, goal, keep, rc)
    BY <1>2, <1>3 DEF relay_handshake, Receiving
  <1>4. CASE relay_get_number(c, goal, keep, rc)
    BY <1>2, <1>4 DEF relay_get_number, Receiving
  <1>5. CASE relay_answer(c, goal, keep, rc)
    BY <1>2, <1>5 DEF relay_answer, Receiving
  <1> QED BY <1>1, <1>3, <1>4, <1>5 DEF mobile_relay_proc

(* A handler that answers, or goes on with a packet that is no user of the *)
(* buffer.                                                                 *)
LEMMA OtherBuffer ==
    ASSUME SharedBuffer, UNCHANGED <<relay_state, net_buffer>>,
           number_fetch_active' => number_fetch_active, RelayWaits' => RelayWaits,
           NEW reply, HandlerStep(reply),
           \/ reply # "pending"
           \/ command \notin {"TEL", "DNS_REQUEST"}
    PROVE  SharedBuffer'
  <1>1. ~RelayCalls' /\ ~DnsChecks'
    BY DEF HandlerStep, RelayCalls, DnsChecks
  <1> QED BY <1>1, CalmBuffer

LEMMA RefuseBuffer ==
    ASSUME SharedBuffer, NEW reply, HandlerStep(reply), Refuse(reply)
    PROVE  SharedBuffer'
  <1>1. /\ reply # "pending"
        /\ UNCHANGED <<relay_state, net_buffer, number_fetch_active,
                       session_started, state>>
    BY DEF Refuse, NoRelay, relayVars, NoSession, sessionVars, NoTable
  <1> QED BY <1>1, OtherBuffer DEF RelayWaits

LEMMA TelBuffer ==
    ASSUME SharedBuffer, command = "TEL", ~number_fetch_active,
           NEW reply, HandlerStep(reply), command_tel(reply)
    PROVE  SharedBuffer'
  <1>1. ~DnsChecks'
    BY DEF HandlerStep, DnsChecks
  <1>2. CASE RelayOwns'
    BY <1>1, <1>2, BufferUsersNext
  <1>3. CASE Refuse(reply)
    BY <1>3, RefuseBuffer
  <1>4. CASE state \in Waitable /\ NoSession /\ command_tel_begin(reply)
    <2>1. CASE mobile_relay_init
      BY <1>2, <2>1 DEF mobile_relay_init, RelayOwns, Receiving
    <2>2. CASE /\ state' \in {"DISCONNECTED", "CALL_ISP"}
               /\ reply # "pending" \/ processing' = "IP"
      <3>1. ~RelayWaits' /\ ~RelayCalls'
        BY <2>2 DEF RelayWaits, RelayCalls, HandlerStep
      <3>2. ~number_fetch_active'
        BY <1>4 DEF NoSession
      <3> QED BY <1>1, <3>1, <3>2, BufferUsersNext
    <2> QED BY <1>3, <1>4, <2>1, <2>2 DEF command_tel_begin, TelOpen, Proc
  <1>5. CASE TelTimeout(reply)
    <2>1. /\ reply # "pending"
          /\ UNCHANGED <<relay_state, net_buffer, number_fetch_active,
                         session_started, state>>
      BY <1>5 DEF TelTimeout, NoRelay, relayVars, NoSession, sessionVars
    <2> QED BY <2>1, OtherBuffer DEF RelayWaits
  <1>6. CASE Processing = "IP" /\ command_tel_ip(reply)
    <2>1. /\ UNCHANGED <<relay_state, net_buffer, number_fetch_active,
                         session_started>>
          /\ state' \in {state, "CALL"}
      BY <1>6 DEF command_tel_ip, NoSession, sessionVars, NoTable
    <2>2. processing' \in {"IP", "clobbered"}
      BY <1>6 DEF command_tel_ip, NoProc, Proc
    <2>3. ~RelayCalls' /\ (RelayWaits' => RelayWaits)
      BY <2>1, <2>2 DEF RelayCalls, RelayWaits
    <2> QED BY <1>1, <2>1, <2>3, CalmBuffer
  <1>7. CASE Processing = "RELAY" /\ command_tel_relay(reply)
    <2>1. RelayCalls
      BY <1>7 DEF Processing, RelayCalls
    <2>2. RelayOwns
      BY <2>1, BufferUsers
    <2>3. RelayOwns'
      BY <1>7, <2>2, ProcBuffer DEF command_tel_relay
    <2> QED BY <1>2, <2>3
  <1>8. command_tel_begin(reply) => \/ Refuse(reply)
                                    \/ state \in Waitable /\ NoSession
    BY DEF command_tel_begin
  <1> QED BY <1>3, <1>4, <1>5, <1>6, <1>7, <1>8 DEF command_tel

LEMMA WaitBuffer ==
    ASSUME SharedBuffer, session_started, command = "WAIT_CALL",
           ~number_fetch_active, NEW reply, HandlerStep(reply),
           command_wait_call(reply)
    PROVE  SharedBuffer'
  <1>1. ~DnsChecks' /\ ~RelayCalls'
    BY DEF HandlerStep, DnsChecks, RelayCalls
  <1>2. CASE RelayOwns'
    BY <1>1, <1>2, BufferUsersNext
  <1>3. CASE Refuse(reply)
    BY <1>3, RefuseBuffer
  <1>4. ASSUME NoRelay, NoSession, RelayWaits' => RelayWaits
        PROVE  SharedBuffer'
    BY <1>1, <1>4, CalmBuffer DEF NoRelay, relayVars, NoSession
  <1>5. CASE NoRelay /\ NoSession /\ NoTable
    BY <1>4, <1>5 DEF NoSession, sessionVars, NoTable, RelayWaits
  <1>6. CASE NoSession /\ command_wait_call_begin(reply)
    <2>1. CASE mobile_relay_init
      BY <1>2, <2>1 DEF mobile_relay_init, RelayOwns, Receiving
    <2>2. CASE NoRelay /\ state' \in {"WAIT_TIMEOUT", "WAIT"}
      BY <1>4, <1>6, <2>2 DEF RelayWaits
    <2> QED BY <1>6, <2>1, <2>2 DEF command_wait_call_begin
  <1>7. CASE NoSession /\ command_wait_call_ip(command_time', reply)
    <2>1. NoRelay /\ state' \in {state, "CALL_RECV"}
      BY <1>7 DEF command_wait_call_ip
    <2> QED BY <1>4, <1>7, <2>1 DEF NoSession, sessionVars, RelayWaits
  <1>8. CASE /\ NoSession /\ state = "WAIT_RELAY"
             /\ command_wait_call_relay(command_time', reply)
    <2>1. RelayOwns
      BY <1>8, BufferUsers DEF RelayWaits
    <2>2. CASE NoRelay
      BY <1>2, <2>1, <2>2 DEF RelayOwns, NoRelay, relayVars
    <2>3. ASSUME NEW rc,
                 mobile_relay_proc(p2p_conn, processing_addr, "wait", {0, 1}, rc)
          PROVE  SharedBuffer'
      BY <1>2, <2>1, <2>3, ProcBuffer
    <2> QED BY <1>8, <2>2, <2>3 DEF command_wait_call_relay
  <1> QED BY <1>3, <1>5, <1>6, <1>7, <1>8 DEF command_wait_call

LEMMA StartBuffer ==
    ASSUME NEW s, NEW table, NEW c, NEW from, NEW reply,
           dns_request_start(s, table, c, from, reply)
    PROVE  reply = "pending" => net_buffer' = "dns"
  BY DEF dns_request_start

LEMMA DnsBuffer ==
    ASSUME SharedBuffer, session_started, command = "DNS_REQUEST",
           ~number_fetch_active, state = "INTERNET" \/ Processing = "BEGIN",
           NEW reply, HandlerStep(reply), command_dns_request(reply)
    PROVE  SharedBuffer'
  <1>1. ~RelayCalls'
    BY DEF HandlerStep, RelayCalls
  <1>2. ASSUME state = "INTERNET", state' = state, NoSession,
               reply = "pending" => net_buffer' = "dns"
        PROVE  SharedBuffer'
    <2>1. ~RelayWaits' /\ ~number_fetch_active'
      BY <1>2 DEF RelayWaits, NoSession
    <2>2. DnsChecks' => net_buffer' = "dns"
      BY <1>2 DEF DnsChecks, HandlerStep
    <2> QED BY <1>1, <2>1, <2>2, BufferUsersNext
  <1>3. CASE command_dns_request_begin(reply)
    <2>1. CASE Refuse(reply)
      BY <2>1, RefuseBuffer
    <2>2. CASE state = "INTERNET" /\ reply = "ok" /\ NoTable /\ NoSession
      BY <1>2, <2>2 DEF NoTable
    <2>3. ASSUME state = "INTERNET", state' = state, NoSession, NEW c \in Conn,
                 dns_request_start(sock, connections, c, 0, reply)
          PROVE  SharedBuffer'
      BY <1>2, <2>3, StartBuffer
    <2> QED BY <1>3, <2>1, <2>2, <2>3 DEF command_dns_request_begin
  <1>4. CASE Processing = "CHECK" /\ command_dns_request_check(reply)
    <2>1. DnsChecks
      BY <1>4 DEF Processing, DnsChecks
    <2>2. net_buffer = "dns" /\ state = "INTERNET"
      BY <1>4, <2>1, BufferUsers
    <2>3. state' = state /\ NoSession
      BY <1>4 DEF command_dns_request_check
    <2>4. reply = "pending" => net_buffer' = "dns"
      BY <1>4, <2>2, StartBuffer DEF command_dns_request_check
    <2> QED BY <1>2, <2>2, <2>3, <2>4
  <1> QED BY <1>3, <1>4 DEF command_dns_request

(* The other handlers: a wait that goes on went on before.                 *)
LEMMA PlainBuffer ==
    ASSUME NEW reply,
           \/ command_start(reply) \/ command_end(reply) \/ command_reinit(reply)
           \/ command_offline(reply) \/ command_data(reply)
           \/ command_change_clock(reply) \/ command_ppp_connect(reply)
           \/ command_ppp_disconnect(reply) \/ command_tcp_connect(reply)
           \/ command_tcp_disconnect(reply) \/ command_stateless(reply)
    PROVE  /\ UNCHANGED <<relay_state, net_buffer>>
           /\ number_fetch_active' => number_fetch_active
           /\ RelayWaits' => RelayWaits
  <1> USE DEF RelayWaits
  <1>1. CASE /\ NoRelay /\ NoSession
             /\ state' \in {state, "CALL_ISP", "INTERNET"}
    BY <1>1 DEF NoRelay, relayVars, NoSession, sessionVars
  <1>2. CASE Refuse(reply)
    BY <1>1, <1>2 DEF Refuse, NoTable
  <1>3. CASE command_start(reply)
    BY <1>2, <1>3 DEF command_start, do_start_session, NoRelay, relayVars
  <1>4. CASE command_end(reply)
    BY <1>4 DEF command_end, do_end_session
  <1>5. CASE command_reinit(reply)
    BY <1>5 DEF command_reinit, do_start_session
  <1>6. CASE command_offline(reply)
    <2>1. CASE /\ UNCHANGED <<relay_state, net_buffer>> /\ NoSession
               /\ AfterOffline
      BY <2>1 DEF AfterOffline, NoSession, sessionVars
    <2> QED BY <1>2, <1>6, <2>1 DEF command_offline
  <1>7. CASE command_data(reply)
    BY <1>1, <1>2, <1>7 DEF command_data
  <1>8. CASE command_change_clock(reply)
    BY <1>2, <1>8 DEF command_change_clock, NoRelay, relayVars, NoTable
  <1>9. CASE command_ppp_connect(reply) \/ command_ppp_disconnect(reply)
    BY <1>1, <1>2, <1>9 DEF command_ppp_connect, command_ppp_disconnect
  <1>10. CASE command_tcp_connect(reply)
    <2>1. CASE command_tcp_connect_begin(reply)
      BY <1>1, <1>2, <2>1 DEF command_tcp_connect_begin
    <2>2. CASE command_tcp_connect_connecting(reply)
      <3>1. state' = state /\ NoRelay /\ NoSession
        BY <2>2 DEF command_tcp_connect_connecting
      <3> QED BY <1>1, <3>1
    <2> QED BY <1>10, <2>1, <2>2 DEF command_tcp_connect
  <1>11. CASE command_tcp_disconnect(reply) \/ command_stateless(reply)
    BY <1>1, <1>2, <1>11 DEF command_tcp_disconnect, command_stateless, NoTable
  <1> QED BY <1>3, <1>4, <1>5, <1>6, <1>7, <1>8, <1>9, <1>10, <1>11

LEMMA HandlerBuffer ==
    ASSUME SharedBuffer, SlotDiscipline, serial_state = "RESPONSE_WAITING",
           NEW reply, HandlerStep(reply), mobile_commands_process(reply)
    PROVE  SharedBuffer'
  <1>1. session_started \/ command = "START"
    BY DEF SlotDiscipline, ActivityNoticed
  <1>2. CASE \/ command = "TEL" /\ command_tel(reply)
             \/ command = "WAIT_CALL" /\ command_wait_call(reply)
             \/ command = "DNS_REQUEST" /\ command_dns_request(reply)
    <2>1. session_started /\ ~number_fetch_active
      BY <1>1, <1>2 DEF SlotDiscipline, FetchSlots
    <2>2. command = "DNS_REQUEST" => state = "INTERNET" \/ Processing = "BEGIN"
      BY DEF SlotDiscipline, PendingOK, Processing
    <2> QED BY <1>2, <2>1, <2>2, TelBuffer, WaitBuffer, DnsBuffer
  <1>3. CASE /\ command \notin {"TEL", "WAIT_CALL", "DNS_REQUEST"}
             /\ UNCHANGED <<relay_state, net_buffer>>
             /\ number_fetch_active' => number_fetch_active
             /\ RelayWaits' => RelayWaits
    BY <1>3, OtherBuffer
  <1> QED BY <1>2, <1>3, PlainBuffer DEF mobile_commands_process, Stateless

LEMMA ResetBuffer ==
    ASSUME SharedBuffer, mobile_reset
    PROVE  SharedBuffer'
  <1>1. /\ UNCHANGED <<relay_state, net_buffer, number_fetch_active>>
        /\ ~packet_parsed'
    BY DEF mobile_reset, mobile_commands_reset
  <1>2. RelayWaits' => RelayWaits
    BY DEF mobile_reset, mobile_commands_reset, do_end_session, RelayWaits, sessionVars
  <1> QED BY <1>1, <1>2, CalmBuffer DEF RelayCalls, DnsChecks

LEMMA FetchBuffer ==
    ASSUME SharedBuffer, SlotDiscipline, InitNumber
    PROVE  SharedBuffer'
  <1>1. ~session_started /\ ~packet_parsed
    BY DEF InitNumber, Turn, Ready, SlotDiscipline, ActivityNoticed, PendingOK
  <1>2. ~RelayWaits' /\ ~RelayCalls' /\ ~DnsChecks'
    BY <1>1 DEF InitNumber, sessionVars, RelayWaits, RelayCalls, DnsChecks
  <1>3. CASE RelayOwns'
    BY <1>2, <1>3, BufferUsersNext
  <1>4. CASE FetchBegin
    BY <1>3, <1>4, ConnectBuffer DEF FetchBegin
  <1>5. CASE FetchPoll
    <2>1. RelayOwns
      BY <1>5, BufferUsers DEF FetchPoll
    <2> QED BY <1>3, <1>5, <2>1, ProcBuffer DEF FetchPoll
  <1>6. CASE FetchTimeout
    BY <1>2, <1>6, BufferUsersNext DEF FetchTimeout
  <1> QED BY <1>4, <1>5, <1>6 DEF InitNumber

LEMMA SharedBufferStep ==
    ASSUME OrderlyUse, SlotDiscipline, SharedBuffer, [Next]_vars
    PROVE  SharedBuffer'
  <1>1. CASE UNCHANGED commandVars
    BY <1>1, CalmBuffer DEF commandVars, relayVars, sessionVars, packetVars,
       RelayWaits, RelayCalls, DnsChecks
  <1>2. CASE TransferStart \/ TransferPacket
    <2>1. ~packet_parsed /\ ~packet_parsed'
      BY <1>2 DEF TransferStart, TransferPacket, SlotDiscipline, PendingOK
    <2>2. UNCHANGED <<relay_state, net_buffer, number_fetch_active,
                      session_started, state>>
      BY <1>2 DEF TransferStart, TransferPacket, relayVars, sessionVars
    <2> QED BY <2>1, <2>2, CalmBuffer DEF RelayWaits, RelayCalls, DnsChecks
  <1>3. CASE Interrupt
    BY <1>1, <1>2, <1>3 DEF Interrupt, TransferByte, TransferDrop,
       TransferResponse, TransferAcknowledge
  <1>4. CASE ProcessCommand
    <2>1. ASSUME serial_state = "RESPONSE_WAITING", NEW reply \in Replies,
                 command_handle(reply),
                 serial_state' = IF reply = "pending" THEN serial_state
                                 ELSE "RESPONSE_INIT"
          PROVE  SharedBuffer'
      <3>1. HandlerStep(reply) /\ mobile_commands_process(reply)
        BY <2>1 DEF command_handle, HandlerStep
      <3> QED BY <2>1, <3>1, HandlerBuffer
    <2> QED BY <1>1, <1>4, <2>1 DEF ProcessCommand
  <1>5. CASE MainLoop
    <2>1. CASE DropConnection
      BY <2>1, ResetBuffer DEF DropConnection
    <2>2. CASE WriteConfig
      <3>1. UNCHANGED <<relay_state, net_buffer, number_fetch_active,
                        session_started, state, packet_parsed, command, processing>>
        BY <2>2 DEF WriteConfig, sessionVars, packetVars, relayVars
      <3> QED BY <3>1, CalmBuffer DEF RelayWaits, RelayCalls, DnsChecks
    <2>3. CASE ~(DropConnection \/ ProcessCommand \/ InitNumber \/ WriteConfig)
      BY <1>1, <1>5, <2>3 DEF MainLoop, ActionsLatch, ActionsCollect, NothingToDo,
         Reset, ResetSerial, Change32BitMode
    <2> QED BY <1>4, <2>1, <2>2, <2>3, FetchBuffer
  <1>6. CASE User
    <2>1. CASE mobile_stop
      BY <2>1, ResetBuffer DEF mobile_stop
    <2>2. CASE \/ mobile_config_set_relay \/ mobile_config_set_relay_token
               \/ mobile_config_set_dns
      <3>1. UNCHANGED <<relay_state, net_buffer, session_started, state,
                        packet_parsed, command, processing>>
        BY <2>2 DEF mobile_config_set_relay, mobile_config_set_relay_token,
           mobile_config_set_dns, Configure, sessionVars, packetVars
      <3>2. number_fetch_active' => number_fetch_active
        BY <2>2 DEF mobile_config_set_relay, mobile_config_set_relay_token,
           mobile_config_set_dns, NumberFetchReset
      <3> QED BY <3>1, <3>2, CalmBuffer DEF RelayWaits, RelayCalls, DnsChecks
    <2>3. CASE mobile_start
      BY <1>1, <2>3 DEF mobile_start
    <2>4. ~mobile_init
      BY DEF mobile_init, OrderlyUse
    <2> QED BY <1>6, <2>1, <2>2, <2>3, <2>4 DEF User
  <1>7. CASE TickSerial \/ TickCommand \/ UNCHANGED vars
    BY <1>1, <1>7 DEF TickSerial, TickCommand, vars
  <1> QED BY <1>3, <1>5, <1>6, <1>7 DEF Next

(* Adapter, SharedBuffer: under the same assumptions neither the relay nor *)
(* the DNS client ever finds what the other one wrote to the buffer they   *)
(* share, not even when a wait for a call spans several commands.          *)
THEOREM BufferNotMixed == OrderlyUse => (Spec => []SharedBuffer)
  <1> SUFFICES ASSUME OrderlyUse PROVE Spec => []SharedBuffer
    OBVIOUS
  <1>1. Init => SharedBuffer
    <2> SUFFICES ASSUME Init PROVE SharedBuffer
      OBVIOUS
    <2>1. ~number_fetch_active /\ ~session_started /\ ~packet_parsed
      BY DEF Init
    <2> QED BY <2>1, BufferUsers DEF RelayWaits, RelayCalls, DnsChecks
  <1>2. SlotDiscipline /\ SharedBuffer /\ [Next]_vars => SharedBuffer'
    BY SharedBufferStep
  <1> QED BY <1>1, <1>2, SlotsDisciplined, PTL DEF Spec

-----------------------------------------------------------------------------
(* The DNS server that is tried first.                                     *)

(* An answer of server id leaves it, or makes it, the first of the two.    *)
LEMMA CheckSticky ==
    ASSUME dns2_use \in BOOLEAN, processing_data[1] \in 0 .. 3,
           command_dns_request_check("ok")
    PROVE  DnsServer(processing_data[1]) \in {DnsServer(0)', DnsServer(1)'}
  <1>1. dns2_use' = IF processing_data[1] >= 2 THEN ~dns2_use ELSE dns2_use
    BY DEF command_dns_request_check, dns_request_start
  <1> DEFINE id == processing_data[1]
  <1>2. id \in {0, 1, 2, 3}
    OBVIOUS
  <1> HIDE DEF id
  <1>3. dns2_use' = IF id >= 2 THEN ~dns2_use ELSE dns2_use
    BY <1>1 DEF id
  <1>4. dns2_use' <=> ~(id >= 2 <=> dns2_use)
    BY <1>3
  <1> DEFINE asked == DnsServer(id)
             first == DnsServer(0)'
             second == DnsServer(1)'
             prefers == dns2_use'
  <1>5. asked = first \/ asked = second
    <2>1. /\ dns2_use => asked = (id + 2) % 4
          /\ ~dns2_use => asked = id
          /\ prefers => first = 2 /\ second = 3
          /\ ~prefers => first = 0 /\ second = 1
          /\ prefers <=> ~(id >= 2 <=> dns2_use)
      BY <1>4 DEF DnsServer
    <2> HIDE DEF asked, first, second, prefers
    <2>2. CASE dns2_use
      <3>1. asked = (id + 2) % 4 /\ (prefers <=> ~(id >= 2))
        BY <2>1, <2>2
      <3>2. id \in {0, 1} => asked = id + 2 /\ prefers
        BY <3>1
      <3>3. id \in {2, 3} => asked = id - 2 /\ ~prefers
        BY <3>1
      <3> QED BY <1>2, <2>1, <3>2, <3>3
    <2>3. CASE ~dns2_use
      <3>1. asked = id /\ (prefers <=> id >= 2)
        BY <2>1, <2>3
      <3> QED BY <1>2, <2>1, <3>1
    <2> QED BY <2>2, <2>3
  <1>6. DnsServer(id) \in {DnsServer(0)', DnsServer(1)'}
    BY <1>5 DEF asked, first, second
  <1> QED BY <1>6 DEF id

LEMMA StickyStep ==
    ASSUME OrderlyUse, TypeOK, SlotDiscipline, [Next]_vars, DnsAnswered
    PROVE  DnsServer(processing_data[1]) \in {DnsServer(0)', DnsServer(1)'}
  <1> USE DEF DnsAnswered
  <1>1. /\ processing_data[1] \in 0 .. 3 /\ dns2_use \in BOOLEAN
        /\ serial_state = "RESPONSE_WAITING"
    BY DEF SlotDiscipline, PendingOK, TypeOK, CommandsTypeOK
  <1>2. ASSUME NEW reply \in Replies, command_handle(reply)
        PROVE  DnsServer(processing_data[1]) \in {DnsServer(0)', DnsServer(1)'}
    <2>1. reply = "ok"
      BY <1>2 DEF command_handle, Replies
    <2>2. command_dns_request_check(reply)
      BY <1>2 DEF command_handle, mobile_commands_process, command_dns_request,
         Processing, Stateless
    <2> QED BY <1>1, <2>1, <2>2, CheckSticky
  <1>3. command' # command
    OBVIOUS
  <1>4. CASE ProcessCommand
    BY <1>1, <1>2, <1>4 DEF ProcessCommand
  <1>5. CASE Interrupt
    BY <1>1, <1>3, <1>5 DEF Interrupt, TransferByte, TransferStart, TransferDrop,
       TransferPacket, TransferResponse, TransferAcknowledge, commandVars, packetVars
  <1>6. CASE MainLoop
    BY <1>3, <1>4, <1>6 DEF MainLoop, ActionsLatch, ActionsCollect, NothingToDo,
       DropConnection, mobile_reset, Reset, ResetSerial, Change32BitMode,
       WriteConfig, InitNumber, commandVars, packetVars
  <1>7. CASE User
    BY <1>3, <1>7 DEF User, mobile_start, mobile_stop, mobile_reset, Configure,
       mobile_config_set_relay, mobile_config_set_relay_token,
       mobile_config_set_dns, mobile_init, commandVars, packetVars
  <1>8. CASE TickSerial \/ TickCommand \/ UNCHANGED vars
    BY <1>3, <1>8 DEF TickSerial, TickCommand, vars, commandVars, packetVars
  <1> QED BY <1>4, <1>5, <1>6, <1>7, <1>8 DEF Next

(* What else may change the order: nothing but a login.                    *)
LEMMA HandlerOrder ==
    ASSUME NEW reply \in Replies, command_handle(reply)
    PROVE  dns2_use' = dns2_use \/ DnsAnswered \/ LoggedIn
  <1>1. CASE NoDns
    BY <1>1 DEF NoDns, dnsVars
  <1>2. CASE Refuse(reply)
    BY <1>1, <1>2 DEF Refuse
  <1>3. CASE command_start(reply) \/ command_end(reply) \/ command_reinit(reply)
    BY <1>1, <1>2, <1>3 DEF command_start, command_end, command_reinit
  <1>4. CASE command_tel(reply)
    BY <1>1, <1>2, <1>4 DEF command_tel, command_tel_begin, TelTimeout,
       command_tel_ip, command_tel_relay
  <1>5. CASE command_offline(reply) \/ command_ppp_disconnect(reply)
    BY <1>1, <1>2, <1>5 DEF command_offline, command_ppp_disconnect
  <1>6. CASE command_wait_call(reply)
    BY <1>1, <1>2, <1>6 DEF command_wait_call, command_wait_call_begin,
       command_wait_call_ip, command_wait_call_relay
  <1>7. CASE \/ command_data(reply) \/ command_change_clock(reply)
             \/ command_tcp_disconnect(reply) \/ command_stateless(reply)
    BY <1>1, <1>2, <1>7 DEF command_data, command_change_clock,
       command_tcp_disconnect, command_stateless
  <1>8. CASE command_tcp_connect(reply)
    BY <1>1, <1>2, <1>8 DEF command_tcp_connect, command_tcp_connect_begin,
       command_tcp_connect_connecting
  <1>9. CASE command_ppp_connect(reply)
    BY <1>1, <1>2, <1>9 DEF command_ppp_connect, LoggedIn
  <1>10. CASE command = "DNS_REQUEST" /\ command_dns_request(reply)
    <2>1. CASE Processing = "BEGIN" /\ command_dns_request_begin(reply)
      BY <1>1, <1>2, <2>1 DEF command_dns_request_begin
    <2>2. CASE Processing = "CHECK" /\ command_dns_request_check(reply)
      <3>1. packet_parsed /\ processing = "CHECK"
        BY <2>2 DEF Processing
      <3>2. dns2_use' = dns2_use \/ reply = "ok"
        BY <2>2 DEF command_dns_request_check
      <3>3. reply = "ok" => command' = "RESPONSE"
        BY DEF command_handle
      <3> QED BY <1>10, <3>1, <3>2, <3>3 DEF DnsAnswered
    <2> QED BY <1>10, <2>1, <2>2 DEF command_dns_request
  <1> QED BY <1>3, <1>4, <1>5, <1>6, <1>7, <1>8, <1>9, <1>10
          DEF command_handle, mobile_commands_process

LEMMA OrderStep ==
    ASSUME [Next]_vars
    PROVE  dns2_use' = dns2_use \/ DnsAnswered \/ LoggedIn
  <1>1. CASE ProcessCommand
    BY <1>1, HandlerOrder DEF ProcessCommand, commandVars, dnsVars
  <1>2. CASE Interrupt
    BY <1>2 DEF Interrupt, TransferByte, TransferStart, TransferDrop,
       TransferPacket, TransferResponse, TransferAcknowledge, commandVars, dnsVars
  <1>3. CASE MainLoop
    BY <1>1, <1>3 DEF MainLoop, ActionsLatch, ActionsCollect, NothingToDo,
       DropConnection, mobile_reset, Reset, ResetSerial, Change32BitMode,
       WriteConfig, InitNumber, FetchBegin, FetchPoll, FetchTimeout,
       commandVars, dnsVars
  <1>4. CASE User
    BY <1>4 DEF User, mobile_start, mobile_stop, mobile_reset, Configure,
       mobile_config_set_relay, mobile_config_set_relay_token,
       mobile_config_set_dns, mobile_init, commandVars, dnsVars
  <1>5. CASE TickSerial \/ TickCommand \/ UNCHANGED vars
    BY <1>5 DEF TickSerial, TickCommand, vars, commandVars, dnsVars
  <1> QED BY <1>1, <1>2, <1>3, <1>4, <1>5 DEF Next

(* Adapter, DnsSticky: under the same assumptions the DNS server that      *)
(* answers is the first of the two that the next request asks, whichever   *)
(* of the two was first before, and the order stays until another one      *)
(* answers or the console logs in again.                                   *)
THEOREM AnsweringServerFirst == OrderlyUse => (Spec => DnsSticky)
  <1> SUFFICES ASSUME OrderlyUse PROVE Spec => DnsSticky
    OBVIOUS
  <1>1. TypeOK /\ SlotDiscipline /\ [Next]_vars =>
           [/\ DnsAnswered => DnsServer(processing_data[1])
                                  \in {DnsServer(0)', DnsServer(1)'}
            /\ dns2_use' # dns2_use => DnsAnswered \/ LoggedIn]_vars
    BY StickyStep, OrderStep
  <1> QED BY <1>1, TypeCorrect, SlotsDisciplined, PTL DEF Spec, DnsSticky

=============================================================================
