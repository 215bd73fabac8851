----------------------------- MODULE RelayStream -----------------------------
(***************************************************************************)
(* relay.c byte by byte: the requests of the relay client, the answers of  *)
(* the server, read in pieces of any size by relay_recv, and the bytes of  *)
(* the peer, which follow the last answer on the same stream and belong to *)
(* the game (command_data, commands.c).                                    *)
(*                                                                         *)
(* One procedure (goal) runs at a time, on a socket of its own.  The server*)
(* answers a request that reached it whole; its answers, well formed or    *)
(* not, come from Answers.  Relay is the view the rest of the library has  *)
(* of this module (ImplementsRelay).                                       *)
(***************************************************************************)
EXTENDS Sockets, Sequences, SequencesExt

CONSTANTS
    Magic,          \* handshake_magic (relay.c:38-41)
    TokenSize,      \* MOBILE_RELAY_TOKEN_SIZE: 16
    MaxNumber,      \* MOBILE_RELAY_MAX_NUMBER_SIZE: 16
    PacketSize,     \* MOBILE_RELAY_PACKET_SIZE: 0x20
    Answers,        \* [kind of request -> byte sequences the server may send]
    CallNumbers,    \* numbers the console may call
    Packets,        \* contents of the game's DATA packets
    PeerBytes,      \* the bytes of the peer, in order
    MaxProcedures,  \* bound on the procedures of a behaviour
    MaxPackets,     \* bound on the DATA packets of a call
    PartialSends    \* whether sock_send may fail, or send a part of a request

(* relay.c:27-36, the static_asserts and the sizes in the comment.         *)
ASSUME PacketSizeAssumption ==
    /\ Len(Magic) + 1 + TokenSize <= PacketSize
    /\ 4 + MaxNumber <= PacketSize

(* What the server can be asked.                                           *)
Kinds == {"handshake", "number", "call", "wait"}

ASSUME BytesAssumption ==
    /\ TokenSize \in Nat \ {0} /\ MaxNumber \in Nat /\ PacketSize \in Nat
    /\ Magic \in Seq(Nat) /\ PeerBytes \in Seq(Nat)
    /\ CallNumbers \subseteq Seq(Nat) /\ Packets \subseteq Seq(Nat)
    /\ \A kind \in Kinds : Answers[kind] \subseteq Seq(Nat)

VARIABLES
    goal,               \* "call", "wait", "number", or "none" at the end
    relay_state,        \* adapter->relay.state
    relay_processing,   \* adapter->relay.processing
    buffer,             \* adapter->buffer.relay: data[0 .. size - 1]
    token,              \* adapter->config.relay_token, <<>> if there is none
    user_number,        \* the last number told by update_number, <<>> if none
    peer_number,
    calling,            \* the number the console calls
    packet,             \* the DATA packet of the game; <<>> and FALSE if none
    sent_size,          \* processing_data[PROCDATA_DATA_SENT_SIZE]
    data_pending,
    wire,               \* bytes on their way to the library
    asked,              \* the request the server has to answer
    answer,             \* its last answer
    procedures, packets,            \* what the bounds count
    sent, meant,        \* bytes given to sock_send's peer; bytes to be sent
    peer_sent, game_got,            \* bytes of the peer; bytes the game got
    result              \* the last answer settled: what it was and what came

clientVars == <<relay_state, relay_processing, buffer, token, user_number,
                peer_number>>
gameVars == <<packet, sent_size, data_pending, packets, game_got>>
serverVars == <<asked, answer, peer_sent>>
vars == <<sock, goal, clientVars, calling, gameVars, serverVars, wire,
          procedures, sent, meant, result>>

Version == 0
conn == 0
NoResult == [kind |-> "none", rc |-> 0, of |-> <<>>]

Init ==
    /\ sock = [c \in Conn |-> Closed]
    /\ goal = "none"
    /\ relay_state = "DISCONNECTED"
    /\ relay_processing = "BEGIN"
    /\ buffer = <<>> /\ token = <<>>
    /\ user_number = <<>> /\ peer_number = <<>> /\ calling = <<>>
    /\ packet = <<>> /\ sent_size = 0 /\ data_pending = FALSE
    /\ wire = <<>> /\ asked = "none" /\ answer = <<>>
    /\ procedures = 0 /\ packets = 0
    /\ sent = <<>> /\ meant = <<>> /\ peer_sent = <<>> /\ game_got = <<>>
    /\ result = NoResult

-----------------------------------------------------------------------------
(* The receiving functions map what was received and what is on the wire   *)
(* to the same after a call of sock_recv, with the result rc of the call.  *)
(* The callback returns k bytes, or fewer if it was asked for fewer or has *)
(* fewer, and -1 when k is -1.                                             *)
Received(buf, w, rc) == [buffer |-> buf, wire |-> w, rc |-> rc]
With(r, rc) == [r EXCEPT !.rc = rc]

(* Mutant: asks for as much as the buffer holds.                           *)
RecvGreedy(r, size, k) ==
    LET n == Min({k, PacketSize - Len(r.buffer), Len(r.wire)})
        more == r.buffer \o SubSeq(r.wire, 1, n)
    IN  CASE Len(r.buffer) >= size -> With(r, size)
          [] Len(r.buffer) < size /\ k < 0 -> With(r, -1)
          [] OTHER -> Received(more, SubSeq(r.wire, n + 1, Len(r.wire)),
                               IF Len(more) < size THEN 0 ELSE size)

relay_recv(r, size, k) ==
    LET room == size - Len(r.buffer)
        n == Min({k, room, Len(r.wire)})
        more == r.buffer \o SubSeq(r.wire, 1, n)
    IN  CASE size > PacketSize -> With(r, -1)
          [] size <= PacketSize /\ room <= 0 -> With(r, size)
          [] size <= PacketSize /\ room > 0 /\ k < 0 -> With(r, -1)
          [] OTHER -> Received(more, SubSeq(r.wire, n + 1, Len(r.wire)),
                               IF Len(more) < size THEN 0 ELSE size)

relay_handshake_recv(r, k1, k2) ==
    LET size == Len(Magic) + 1
        head == relay_recv(r, size, k1)
        auth == head.buffer[size]
        rest == relay_recv(head, size + TokenSize, k2)
    IN  IF head.rc <= 0 THEN head
        ELSE IF SubSeq(head.buffer, 1, Len(Magic)) # Magic THEN With(head, -1)
        ELSE CASE auth = 0 -> With(head, 1)
               [] auth = 1 -> IF rest.rc <= 0 THEN rest ELSE With(rest, 2)
               [] OTHER -> With(head, -1)

(* Mutant: a number of the greatest length is refused.                     *)
NumberShort(head, size, k, rc) ==
    LET rest == relay_recv(head, size + head.buffer[size], k)
    IN  IF head.buffer[size] \notin 1 .. MaxNumber - 1 THEN With(head, -1)
        ELSE IF rest.rc <= 0 THEN rest ELSE With(rest, rc)

(* Mutant: the length counts its own byte.                                 *)
NumberLong(head, size, k, rc) ==
    LET rest == relay_recv(head, size + head.buffer[size] + 1, k)
    IN  IF head.buffer[size] \notin 1 .. MaxNumber THEN With(head, -1)
        ELSE IF rest.rc <= 0 THEN rest ELSE With(rest, rc)

(* The number at the end of an answer whose head gives its length.         *)
NumberRecv(head, size, k, rc) ==
    LET rest == relay_recv(head, size + head.buffer[size], k)
    IN  IF head.buffer[size] \notin 1 .. MaxNumber THEN With(head, -1)
        ELSE IF rest.rc <= 0 THEN rest ELSE With(rest, rc)

relay_get_number_recv(r, k1, k2) ==
    LET head == relay_recv(r, 3, k1)
    IN  IF head.rc <= 0 THEN head
        ELSE IF SubSeq(head.buffer, 1, 2) # <<Version, 2>> THEN With(head, -1)
        ELSE NumberRecv(head, 3, k2, 1)

relay_call_recv(r, k1) ==
    LET head == relay_recv(r, 3, k1)
        res == head.buffer[3] + 1
    IN  IF head.rc <= 0 THEN head
        ELSE IF SubSeq(head.buffer, 1, 2) # <<Version, 0>> \/ res >= 5
             THEN With(head, -1)
        ELSE With(head, res)

relay_wait_recv(r, k1, k2) ==
    LET head == relay_recv(r, 4, k1)
        res == head.buffer[3] + 1
    IN  IF head.rc <= 0 THEN head
        ELSE IF SubSeq(head.buffer, 1, 2) # <<Version, 1>> \/ res >= 3
             THEN With(head, -1)
        ELSE NumberRecv(head, 4, k2, res)

-----------------------------------------------------------------------------
(* The callers: command_tel, command_wait_call and number_fetch_handle.    *)
Keep == IF goal = "number" THEN {0} ELSE {0, 1}

Ended(s, rc) ==
    /\ sock' = IF rc \in Keep THEN s ELSE SockClose(s, conn)
    /\ goal' = IF rc \in Keep THEN goal ELSE "none"

(* A request goes out: sock_send's result is used as a bool, so that only  *)
(* 0 counts as a failure.                                                  *)
SendResults(request) ==
    IF PartialSends THEN -1 .. Len(request) ELSE {0, Len(request)}

(* Mutant: the state says that the answer is awaited before it is asked.   *)
AskFirst(s, kind, request, waiting, failed) ==
    \E n \in SendResults(request) :
        /\ sent' = sent \o SubSeq(request, 1, n)
        /\ meant' = meant \o request
        /\ asked' = IF n = Len(request) THEN kind ELSE "none"
        /\ relay_state' = waiting
        /\ buffer' = <<>>
        /\ Ended(SockStream(s, conn), IF n = 0 THEN -1 ELSE 0)

Ask(s, kind, request, waiting, failed) ==
    \E n \in SendResults(request) :
        /\ sent' = sent \o SubSeq(request, 1, n)
        /\ meant' = meant \o request
        /\ asked' = IF n = Len(request) THEN kind ELSE "none"
        /\ relay_state' = IF n = 0 THEN failed ELSE waiting
        /\ buffer' = IF n = 0 THEN buffer ELSE <<>>
        /\ Ended(SockStream(s, conn), IF n = 0 THEN -1 ELSE 0)

HandshakeRequest ==
    IF token = <<>> THEN Append(Magic, 0) ELSE Append(Magic, 1) \o token

(* What a poll received: nothing is judged when the callback failed.       *)
Settled(kind, r, k1, k2) ==
    /\ wire' = r.wire
    /\ result' = IF -1 \in {k1, k2} \/ r.rc = 0 THEN NoResult
                 ELSE [kind |-> kind, rc |-> r.rc, of |-> answer]

NothingAsked == UNCHANGED <<sent, meant, asked>>

Connecting == {"DISCONNECTED", "RECV_CONNECT"}

ConnectPoll ==
    /\ relay_state \in Connecting
    /\ \/ \E rc \in {0, -1} :
             /\ relay_state' = IF rc = 0 THEN "RECV_CONNECT" ELSE "DISCONNECTED"
             /\ Ended(SockConnect(sock, conn, "ipv4", rc), rc)
             /\ UNCHANGED buffer /\ NothingAsked
       \/ Ask(SockConnect(sock, conn, "ipv4", 1), "handshake", HandshakeRequest,
              "RECV_HANDSHAKE", "RECV_CONNECT")
    /\ UNCHANGED <<relay_processing, token, user_number, peer_number, wire, result>>

Unsettled(r, failed) ==
    /\ r.rc <= 0
    /\ relay_state' = IF r.rc = 0 THEN relay_state ELSE failed
    /\ buffer' = r.buffer
    /\ Ended(SockStream(sock, conn), r.rc)
    /\ NothingAsked
    /\ UNCHANGED <<relay_processing, token, user_number, peer_number>>

HandshakePoll(k1, k2) ==
    LET r == relay_handshake_recv(Received(buffer, wire, 0), k1, k2)
    IN  /\ relay_state = "RECV_HANDSHAKE"
        /\ Settled("handshake", r, k1, k2)
        /\ \/ Unsettled(r, "DISCONNECTED")
           \/ /\ r.rc > 0
              /\ token' = IF r.rc = 2
                          THEN SubSeq(r.buffer, Len(Magic) + 2, Len(r.buffer))
                          ELSE token
              /\ relay_processing' = IF goal = "number" THEN relay_processing
                                     ELSE "GET_NUMBER"
              /\ Ask(sock, "number", <<Version, 2>>, "RECV_GET_NUMBER", "CONNECTED")
              /\ UNCHANGED <<user_number, peer_number>>

(* CALL or WAIT; a number that is too long is not sent.                    *)
AskCallOrWait ==
    \/ /\ goal = "call" /\ Len(calling) <= MaxNumber
       /\ Ask(sock, "call", <<Version, 0, Len(calling)>> \o calling,
              "RECV_CALL", "CONNECTED")
    \/ /\ goal = "call" /\ Len(calling) > MaxNumber
       /\ relay_state' = "CONNECTED"
       /\ Ended(SockStream(sock, conn), -1)
       /\ UNCHANGED buffer /\ NothingAsked
    \/ /\ goal = "wait"
       /\ Ask(sock, "wait", <<Version, 1>>, "RECV_WAIT", "CONNECTED")

NumberPoll(k1, k2) ==
    LET r == relay_get_number_recv(Received(buffer, wire, 0), k1, k2)
    IN  /\ relay_state = "RECV_GET_NUMBER"
        /\ Settled("number", r, k1, k2)
        /\ \/ Unsettled(r, "CONNECTED")
           \/ /\ r.rc > 0
              /\ user_number' = SubSeq(r.buffer, 4, Len(r.buffer))
              /\ \/ /\ goal = "number"
                    /\ relay_state' = "CONNECTED"
                    /\ Ended(SockStream(sock, conn), 1)
                    /\ UNCHANGED <<buffer, relay_processing>> /\ NothingAsked
                 \/ /\ AskCallOrWait
                    /\ relay_processing' = "FINAL"
              /\ UNCHANGED <<token, peer_number>>

AnswerPoll(k1, k2) ==
    LET in == Received(buffer, wire, 0)
        r == IF relay_state = "RECV_CALL" THEN relay_call_recv(in, k1)
             ELSE relay_wait_recv(in, k1, k2)
    IN  /\ relay_state \in {"RECV_CALL", "RECV_WAIT"}
        /\ Settled(IF goal = "call" THEN "call" ELSE "wait", r, k1, k2)
        /\ \/ Unsettled(r, "CONNECTED")
           \/ /\ r.rc > 0
              /\ relay_state' = IF r.rc = 1 THEN "LINKED" ELSE "CONNECTED"
              /\ peer_number' = IF r.rc # 1 THEN peer_number
                                ELSE IF goal = "call" THEN calling
                                ELSE SubSeq(r.buffer, 5, Len(r.buffer))
              /\ buffer' = r.buffer
              /\ Ended(SockStream(sock, conn), r.rc)
              /\ NothingAsked
              /\ UNCHANGED <<relay_processing, token, user_number>>

(* One call of mobile_relay_proc_call, _wait or _init_number.              *)
Poll ==
    /\ goal # "none" /\ relay_state # "LINKED"
    /\ \/ ConnectPoll
       \/ \E k1, k2 \in -1 .. Len(wire) :
             HandshakePoll(k1, k2) \/ NumberPoll(k1, k2) \/ AnswerPoll(k1, k2)
    /\ UNCHANGED <<calling, gameVars, answer, peer_sent, procedures>>

(* The caller opens a socket and starts over (mobile_relay_init).          *)
Begin(g) ==
    /\ goal = "none" /\ procedures < MaxProcedures
    /\ goal' = g
    /\ \E number \in CallNumbers : calling' = number
    /\ sock' = SockOpen(sock, conn, "tcp", "ipv4")
    /\ relay_state' = "DISCONNECTED" /\ relay_processing' = "BEGIN"
    /\ procedures' = procedures + 1
    /\ wire' = <<>> /\ asked' = "none" /\ answer' = <<>>
    /\ sent' = <<>> /\ meant' = <<>> /\ peer_sent' = <<>> /\ game_got' = <<>>
    /\ packets' = 0 /\ result' = NoResult
    /\ UNCHANGED <<buffer, token, user_number, peer_number, packet, sent_size,
                   data_pending>>

(* The caller's timeout, or the end of the call.                           *)
HangUp ==
    /\ goal # "none"
    /\ goal' = "none"
    /\ sock' = SockClose(sock, conn)
    /\ peer_number' = <<>>
    /\ data_pending' = FALSE
    /\ UNCHANGED <<relay_state, relay_processing, buffer, token, user_number,
                   calling, packet, sent_size, packets, game_got, serverVars,
                   wire, procedures, sent, meant, result>>

-----------------------------------------------------------------------------
(* A DATA packet of the game, polled by command_data until it is answered. *)
GameSends ==
    /\ relay_state = "LINKED" /\ goal # "none"
    /\ ~data_pending /\ packets < MaxPackets
    /\ \E data \in Packets : /\ packet' = data
                             /\ meant' = meant \o data
    /\ sent_size' = 0
    /\ data_pending' = TRUE
    /\ packets' = packets + 1
    /\ UNCHANGED <<sock, goal, clientVars, calling, game_got, serverVars, wire,
                   procedures, sent, result>>

(* Mutant: what was sent by earlier polls is sent again.                   *)
SendAgain(n) ==
    /\ sent' = sent \o SubSeq(packet, 1, n)
    /\ sent_size' = sent_size + n

(* The part of the packet that is left goes out, n bytes of it.            *)
SendRest(n) ==
    /\ sent' = sent \o SubSeq(packet, sent_size + 1, sent_size + n)
    /\ sent_size' = sent_size + n

(* An error ends the packet; the game then hangs up.                       *)
DataFails ==
    /\ sock' = SockClose(SockStream(sock, conn), conn)
    /\ goal' = "none"
    /\ peer_number' = <<>>
    /\ data_pending' = FALSE
    /\ UNCHANGED <<wire, game_got>>

(* Once everything is sent, what is there of the peer is received; -2 is   *)
(* a peer that disconnected, which the game learns from no data.           *)
DataReceives(k) ==
    /\ sent_size' = Len(packet)
    /\ wire' = SubSeq(wire, k + 1, Len(wire))
    /\ game_got' = game_got \o SubSeq(wire, 1, k)
    /\ data_pending' = FALSE
    /\ sock' = SockStream(sock, conn)
    /\ UNCHANGED <<goal, peer_number>>

command_data ==
    /\ data_pending
    /\ \E n \in 0 .. Len(packet) - sent_size :
          /\ SendRest(n)
          /\ \/ \E k \in 0 .. Len(wire) : DataReceives(k)
             \/ DataFails
             \/ /\ sent_size' < Len(packet)
                /\ sock' = SockStream(sock, conn)
                /\ UNCHANGED <<goal, peer_number, data_pending, wire, game_got>>
    /\ UNCHANGED <<relay_state, relay_processing, buffer, token, user_number,
                   calling, packet, packets, serverVars, procedures, meant, result>>

-----------------------------------------------------------------------------
(* The form of an answer with the result r and the number or token v: what *)
(* the receiving functions have to find whatever the pieces it arrives in. *)
Carries(kind, m, r, v) ==
    \/ kind = "handshake" /\ r = 1 /\ v = <<>> /\ m = Append(Magic, 0)
    \/ kind = "handshake" /\ r = 2 /\ Len(v) = TokenSize
                          /\ m = Append(Magic, 1) \o v
    \/ kind = "number" /\ r = 1 /\ Len(v) \in 1 .. MaxNumber
                       /\ m = <<Version, 2, Len(v)>> \o v
    \/ kind = "call" /\ r \in 1 .. 4 /\ v = <<>> /\ m = <<Version, 0, r - 1>>
    \/ kind = "wait" /\ r \in 1 .. 2 /\ Len(v) \in 1 .. MaxNumber
                     /\ m = <<Version, 1, r - 1, Len(v)>> \o v

WellFormed(kind, m) ==
    \E r \in 1 .. 4, i \in 0 .. Len(m) :
        Carries(kind, m, r, SubSeq(m, i + 1, Len(m)))

(* The server says nothing that it was not asked: an answer does not go on *)
(* behind a well formed one.                                               *)
ASSUME AnswersAssumption ==
    \A kind \in Kinds : \A m \in Answers[kind] :
        \A i \in 0 .. Len(m) - 1 : ~WellFormed(kind, SubSeq(m, 1, i))

(* The server links the two phones once it has sent result 1.              *)
ServerLinked ==
    /\ goal \in {"call", "wait"} /\ asked = "linked"

ServerAnswers ==
    /\ goal # "none" /\ asked \in Kinds
    /\ \E m \in Answers[asked] :
          /\ wire' = wire \o m
          /\ answer' = m
          /\ asked' = IF /\ asked \in {"call", "wait"}
                         /\ m[3] = 0 /\ WellFormed(asked, m)
                      THEN "linked" ELSE "none"
    /\ UNCHANGED <<sock, goal, clientVars, calling, gameVars, peer_sent,
                   procedures, sent, meant, result>>

PeerSends ==
    /\ ServerLinked /\ Len(peer_sent) < Len(PeerBytes)
    /\ LET b == PeerBytes[Len(peer_sent) + 1]
       IN  /\ wire' = Append(wire, b)
           /\ peer_sent' = Append(peer_sent, b)
    /\ UNCHANGED <<sock, goal, clientVars, calling, gameVars, asked, answer,
                   procedures, sent, meant, result>>

Next ==
    \/ \E g \in {"call", "wait", "number"} : Begin(g)
    \/ Poll
    \/ HangUp
    \/ GameSends
    \/ command_data
    \/ ServerAnswers
    \/ PeerSends

(* A poll for which sock_recv has at least a byte of what has arrived.     *)
PollGets ==
    /\ goal # "none"
    /\ \E k1, k2 \in 1 .. Len(wire) :
          HandshakePoll(k1, k2) \/ NumberPoll(k1, k2) \/ AnswerPoll(k1, k2)
    /\ UNCHANGED <<calling, gameVars, answer, peer_sent, procedures>>

(* The main loop polls on and is given what arrives, and the server answers*)
(* a request that reached it.  No call has to fail, nothing has to arrive  *)
(* that was not sent, and nothing is assumed of the callers' timeouts.     *)
Fairness == WF_vars(PollGets) /\ WF_vars(ServerAnswers)

Spec == Init /\ [][Next]_vars /\ Fairness

-----------------------------------------------------------------------------
Told(kind, rc) ==
    CASE kind = "handshake" -> IF rc = 2 THEN token ELSE <<>>
      [] kind = "number"    -> user_number
      [] kind = "call"      -> <<>>
      [] kind = "wait"      -> peer_number

(* However an answer of the server is cut into pieces, an answer that is   *)
(* well formed is taken for what it says, with the token or the number in  *)
(* it, and one that is not is refused (relay.c:127-328).                   *)
AnswerUnderstood ==
    LET kind == result.kind
    IN  /\ result.rc < 0 => ~WellFormed(kind, result.of)
        /\ result.rc > 0 /\ (kind = "wait" => goal # "none") =>
               Carries(kind, result.of, result.rc, Told(kind, result.rc))

(* What follows the last answer on the stream belongs to the game: while a *)
(* call is linked, the game has got the first of the peer's bytes and the  *)
(* others are still to be received, whatever relay_recv was given.         *)
PeerBytesKept ==
    relay_state = "LINKED" /\ goal # "none" => game_got \o wire = peer_sent

(* sock_send "will be called repeatedly until all of the data is sent"     *)
(* (mobile.h:350-351): while no packet of the game is pending in a call,   *)
(* every byte of every request and packet has been given to the socket     *)
(* once, in order.  (The rest of a request that was sent in part is never  *)
(* sent, relay.c:107, 175, 230, 292; then no link comes about.)            *)
SentWhole ==
    goal # "none" /\ relay_state = "LINKED" /\ ~data_pending => sent = meant

(* The server stopped in the middle of an answer.                          *)
CutShort ==
    /\ answer # <<>>
    /\ \E kind \in Kinds : \E m \in Answers[kind] :
          Len(answer) < Len(m) /\ IsPrefix(answer, m)

(* relay.c:127-328: once connected, a procedure whose requests were sent   *)
(* whole and whose answers come whole ends, in a link or with an error,    *)
(* whatever the pieces in which they arrive: the client never waits for    *)
(* bytes that are not part of the answer.                                  *)
ProcedureSettles ==
    goal # "none" /\ relay_state \notin Connecting
        ~> \/ goal = "none" \/ relay_state = "LINKED"
           \/ sent # meant \/ CutShort

(* The client byte by byte is the client of Relay: each poll is a poll of  *)
(* Relay with the same result, and nothing else touches the relay's state. *)
R == INSTANCE Relay WITH
        FetchRetries <- 1,
        net_buffer <- "relay",
        user_number <- user_number # <<>>,
        peer_number <- peer_number # <<>>,
        number_fetch_retries <- IF user_number # <<>> THEN 0 ELSE 1,
        config_dirty <- token # <<>>

RelayStep ==
    \/ \E rc \in -1 .. 2 : R!mobile_relay_proc(conn, "ipv4", goal, Keep, rc)
    \/ goal = "none" /\ R!mobile_relay_init
    \/ /\ sock' = SockClose(sock, conn)
       /\ UNCHANGED <<relay_state, relay_processing, user_number, token>>

ImplementsRelay == [][RelayStep]_<<sock, R!relayVars>>
=============================================================================
