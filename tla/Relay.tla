-------------------------------- MODULE Relay --------------------------------
(***************************************************************************)
(* relay.c: the client side of the relay protocol, over one TCP socket.    *)
(*                                                                         *)
(* mobile_relay_proc_call, mobile_relay_proc_wait and                      *)
(* mobile_relay_proc_init_number are polled by their callers.  Each poll   *)
(* returns rc: -1 for an error, 0 while in progress, 1 for success and 2   *)
(* for any other answer of the server to CALL or WAIT.  goal says which of *)
(* the three procedures is polled.  Every caller closes the socket unless  *)
(* rc is one of the codes in keep (commands.c:342, 357, 479, 493,          *)
(* mobile.c:151).  What the server sends, and in how many pieces, is       *)
(* nondeterministic.                                                       *)
(***************************************************************************)
EXTENDS Sockets

CONSTANT FetchRetries       \* attempts to fetch the number: 3 (mobile.c:23, 121)

ASSUME FetchRetriesAssumption == FetchRetries \in Nat \ {0}

VARIABLES
    relay_state,            \* adapter->relay.state
    relay_processing,       \* adapter->relay.processing
    net_buffer,             \* which member of the union buffer.dns/buffer.relay
                            \* was written last
    user_number,            \* whether the user was told a number of his own
    peer_number,            \* whether the user was told the peer's number
    number_fetch_retries,   \* adapter->global.number_fetch_retries
    config_dirty            \* adapter->config.dirty

relayVars == <<relay_state, relay_processing, net_buffer, user_number,
               peer_number, number_fetch_retries, config_dirty>>

RelayState ==
    {"DISCONNECTED", "CONNECTED", "LINKED", "RECV_CONNECT", "RECV_HANDSHAKE",
     "RECV_CALL", "RECV_WAIT", "RECV_GET_NUMBER"}

Goal == {"call", "wait", "number"}

(* States that wait for bytes of the server in buffer.relay.               *)
Receiving == {"RECV_HANDSHAKE", "RECV_CALL", "RECV_WAIT", "RECV_GET_NUMBER"}

RelayTypeOK ==
    /\ relay_state \in RelayState
    /\ relay_processing \in {"BEGIN", "GET_NUMBER", "FINAL"}
    /\ net_buffer \in {"relay", "dns"}
    /\ user_number \in BOOLEAN
    /\ peer_number \in BOOLEAN
    /\ number_fetch_retries \in 0 .. FetchRetries
    /\ config_dirty \in BOOLEAN

-----------------------------------------------------------------------------
Settle(s, c, rc, keep) == IF rc \in keep THEN s ELSE SockClose(s, c)

(* Mutant: the progress of an earlier call or wait is kept.                *)
RelayInitKeepsProgress ==
    /\ relay_state' = "DISCONNECTED"
    /\ UNCHANGED relay_processing

mobile_relay_init ==
    /\ relay_state' = "DISCONNECTED"
    /\ relay_processing' = "BEGIN"

(* Mutant: the handshake goes out while the buffer still holds what the    *)
(* DNS client left there.                                                  *)
ConnectKeepsBuffer(s, c, server, keep, rc) ==
    /\ rc \in {0, -1}
    /\ UNCHANGED net_buffer
    /\ \/ /\ relay_state' = IF rc = 0 THEN "RECV_CONNECT" ELSE "DISCONNECTED"
          /\ sock' = Settle(SockConnect(s, c, server, rc), c, rc, keep)
       \/ /\ relay_state' = IF rc = 0 THEN "RECV_HANDSHAKE" ELSE "RECV_CONNECT"
          /\ sock' = Settle(SockStream(SockConnect(s, c, server, 1), c),
                            c, rc, keep)

(* mobile_relay_connect before the handshake is out: poll the connect and, *)
(* once connected, send the handshake.  A send that returns 0 fails.       *)
relay_connect(s, c, server, keep, rc) ==
    \/ /\ rc \in {0, -1}
       /\ relay_state' = IF rc = 0 THEN "RECV_CONNECT" ELSE "DISCONNECTED"
       /\ sock' = Settle(SockConnect(s, c, server, rc), c, rc, keep)
       /\ UNCHANGED net_buffer
    \/ /\ rc \in {0, -1}
       /\ relay_state' = IF rc = 0 THEN "RECV_HANDSHAKE" ELSE "RECV_CONNECT"
       /\ sock' = Settle(SockStream(SockConnect(s, c, server, 1), c),
                         c, rc, keep)
       /\ net_buffer' = "relay"

(* The server answers the handshake, with a new token or without; then the *)
(* number is asked for in the same poll.                                   *)
relay_handshake(c, goal, keep, rc) ==
    /\ relay_state = "RECV_HANDSHAKE"
    /\ sock' = Settle(SockStream(sock, c), c, rc, keep)
    /\ \/ /\ rc \in {0, -1}
          /\ relay_state' = IF rc = 0 THEN relay_state ELSE "DISCONNECTED"
          /\ UNCHANGED <<relay_processing, config_dirty>>
       \/ /\ rc \in {0, -1}
          /\ relay_state' = IF rc = 0 THEN "RECV_GET_NUMBER" ELSE "CONNECTED"
          /\ relay_processing' = IF goal = "number" THEN relay_processing
                                 ELSE "GET_NUMBER"
          /\ config_dirty' \in {config_dirty, TRUE}
    /\ UNCHANGED <<net_buffer, user_number, peer_number, number_fetch_retries>>

(* Mutant: a number that arrived does not end the attempts to fetch it.    *)
NumberKeepsRetries(c, goal, keep, rc) ==
    /\ relay_state = "RECV_GET_NUMBER"
    /\ sock' = Settle(SockStream(sock, c), c, rc, keep)
    /\ IF goal = "number"
       THEN /\ rc = 1
            /\ relay_state' = "CONNECTED"
            /\ UNCHANGED relay_processing
       ELSE /\ rc = 0
            /\ relay_state' = IF goal = "call" THEN "RECV_CALL" ELSE "RECV_WAIT"
            /\ relay_processing' = "FINAL"
    /\ user_number' = TRUE
    /\ UNCHANGED <<net_buffer, peer_number, config_dirty, number_fetch_retries>>

(* The server sends the number of the user; then CALL or WAIT goes out in  *)
(* the same poll.                                                          *)
relay_get_number(c, goal, keep, rc) ==
    /\ relay_state = "RECV_GET_NUMBER"
    /\ sock' = Settle(SockStream(sock, c), c, rc, keep)
    /\ \/ /\ rc \in {0, -1}
          /\ relay_state' = IF rc = 0 THEN relay_state ELSE "CONNECTED"
          /\ UNCHANGED <<relay_processing, user_number, number_fetch_retries>>
       \/ /\ IF goal = "number"
             THEN /\ rc = 1
                  /\ relay_state' = "CONNECTED"
                  /\ UNCHANGED relay_processing
             ELSE /\ rc \in {0, -1}
                  /\ relay_state' = IF rc = -1 THEN "CONNECTED"
                                    ELSE IF goal = "call" THEN "RECV_CALL"
                                    ELSE "RECV_WAIT"
                  /\ relay_processing' = "FINAL"
          /\ user_number' = TRUE
          /\ number_fetch_retries' = 0
    /\ UNCHANGED <<net_buffer, peer_number, config_dirty>>

(* The server answers CALL or WAIT; an accepted call links the two phones. *)
relay_answer(c, goal, keep, rc) ==
    /\ relay_state = IF goal = "call" THEN "RECV_CALL" ELSE "RECV_WAIT"
    /\ rc \in {-1, 0, 1, 2}
    /\ sock' = Settle(SockStream(sock, c), c, rc, keep)
    /\ relay_state' = CASE rc = 0 -> relay_state
                        [] rc = 1 -> "LINKED"
                        [] OTHER  -> "CONNECTED"
    /\ peer_number' = (peer_number \/ rc = 1)
    /\ UNCHANGED <<relay_processing, net_buffer, user_number,
                   number_fetch_retries, config_dirty>>

mobile_relay_proc(c, server, goal, keep, rc) ==
    \/ /\ goal = "number" \/ relay_processing = "BEGIN"
       /\ \/ /\ relay_state \in {"DISCONNECTED", "RECV_CONNECT"}
             /\ relay_connect(sock, c, server, keep, rc)
             /\ UNCHANGED <<relay_processing, user_number, peer_number,
                            number_fetch_retries, config_dirty>>
          \/ relay_handshake(c, goal, keep, rc)
    \/ /\ goal = "number" \/ relay_processing = "GET_NUMBER"
       /\ relay_get_number(c, goal, keep, rc)
    \/ /\ goal # "number" /\ relay_processing = "FINAL"
       /\ relay_answer(c, goal, keep, rc)

(* A poll of goal with relay_processing and relay_state finds one of the   *)
(* cases above: none of the "default: return -1" branches is reached.      *)
RelayInStep(goal) ==
    \/ /\ relay_processing = "BEGIN"
       /\ relay_state \in {"DISCONNECTED", "RECV_CONNECT", "RECV_HANDSHAKE"}
    \/ /\ relay_processing = (IF goal = "number" THEN "BEGIN" ELSE "GET_NUMBER")
       /\ relay_state = "RECV_GET_NUMBER"
    \/ /\ relay_processing = "FINAL"
       /\ \/ goal = "call" /\ relay_state = "RECV_CALL"
          \/ goal = "wait" /\ relay_state = "RECV_WAIT"
=============================================================================
