------------------------------- MODULE Sockets -------------------------------
(***************************************************************************)
(* The socket callbacks of an implementation of libmobile, modelled from   *)
(* the way src/ calls them and from the contract mobile.h states for them  *)
(* ("libmobile shall never do this").  The library sees MaxConnections     *)
(* numbered slots.  A call outside the contract is undefined behaviour of  *)
(* the implementation: it leaves the slot Misused for ever, so that one    *)
(* invariant, SocketContract, catches every misuse.                        *)
(*                                                                         *)
(* The operators are functions of the value of the slots, so that a handler*)
(* that makes several calls composes them.                                 *)
(***************************************************************************)
EXTENDS Integers

CONSTANT MaxConnections     \* MOBILE_MAX_CONNECTIONS

ASSUME MaxConnectionsAssumption == MaxConnections \in Nat \ {0}

VARIABLE sock               \* the implementation's socket slots

Conn == 0 .. MaxConnections - 1

(* enum mobile_addrtype.  "clobbered" stands for the bytes of an address   *)
(* whose memory has since been used for something else.                    *)
HostType == {"ipv4", "ipv6"}
AddrType == HostType \cup {"none"}
Address  == AddrType \cup {"clobbered"}

Slot(phase, addr) == [phase |-> phase, addr |-> addr]

Closed  == Slot("closed", "none")
Misused == Slot("misused", "none")

(* "tcp" and "udp" are fresh sockets of that type.                         *)
Socket == {Closed, Misused} \cup
          [phase : {"tcp", "udp", "listening", "connected"}, addr : HostType]

(* A slot may be opened only while it is closed, for a real address type.  *)
SockOpen(s, c, type, addr) ==
    [s EXCEPT ![c] = IF @ = Closed /\ addr \in HostType
                     THEN Slot(type, addr) ELSE Misused]

(* Only an open slot may be closed.                                        *)
SockClose(s, c) ==
    [s EXCEPT ![c] = IF @ \in {Closed, Misused} THEN Misused ELSE Closed]

SockCloseAll(s, C) ==
    [c \in Conn |-> IF c \in C THEN SockClose(s, c)[c] ELSE s[c]]

(* A connect polls a fresh TCP socket, always with an address of its type. *)
SockConnect(s, c, addr, rc) ==
    [s EXCEPT ![c] = IF @ = Slot("tcp", addr)
                     THEN (IF rc = 1 THEN Slot("connected", addr) ELSE @)
                     ELSE Misused]

SockListen(s, c, rc) ==
    [s EXCEPT ![c] = IF @.phase = "tcp"
                     THEN (IF rc = 1 THEN Slot("listening", @.addr) ELSE @)
                     ELSE Misused]

SockAccept(s, c, rc) ==
    [s EXCEPT ![c] = IF @.phase = "listening"
                     THEN (IF rc = 1 THEN Slot("connected", @.addr) ELSE @)
                     ELSE Misused]

(* Sending to or receiving from a TCP peer needs a connected socket.       *)
SockStream(s, c) ==
    [s EXCEPT ![c] = IF @.phase = "connected" THEN @ ELSE Misused]

(* A datagram goes out of a UDP socket of the type of its destination.     *)
SockDatagram(s, c, addr) ==
    [s EXCEPT ![c] = IF @ = Slot("udp", addr) THEN @ ELSE Misused]

-----------------------------------------------------------------------------
(* mobile.h:246-249, 265-266, 285-286, 302-303, 325-326, 342-348, 380-382: *)
(* whatever the console, the peers and the user do, no call of a socket    *)
(* callback breaks its contract: no slot is opened twice, closed twice or  *)
(* used unopened, none is connected to an address of another type or after *)
(* it is connected, and no data moves on a socket that is not connected.   *)
SocketContract == \A c \in Conn : sock[c] # Misused
=============================================================================
