------------------------------ MODULE MCAdapter ------------------------------
(* The instances of Adapter that TLC checks.                               *)
EXTENDS Adapter

(* Calls through the relay, and the DNS client that shares its buffer.     *)
CallCommands ==
    {"END", "TEL", "OFFLINE", "WAIT_CALL", "PPP_CONNECT", "DNS_REQUEST"}

InternetCommands ==
    {"END", "TEL", "OFFLINE", "DATA", "PPP_CONNECT", "PPP_DISCONNECT",
     "TCP_CONNECT", "TCP_DISCONNECT", "DNS_REQUEST", "CHECK_STATUS"}
=============================================================================
