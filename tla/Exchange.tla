------------------------------ MODULE Exchange ------------------------------
(***************************************************************************)
(* What the serial protocol promises the rest of the library: the life of  *)
(* one exchange at the level of packets.  The interrupt handler and the    *)
(* main loop take turns: the handler owns the packet buffer until a packet *)
(* is complete, the main loop until the response is, and the mode of the   *)
(* port is changed only between two exchanges.  Serial (every byte) and    *)
(* Adapter (every command) both implement it.                              *)
(***************************************************************************)

VARIABLES
    phase,          \* serial.state, without the parts of a packet
    port_mode,      \* serial.mode_32bit
    wanted_mode     \* commands.mode_32bit

exchangeVars == <<phase, port_mode, wanted_mode>>

Phase == {"INIT", "WAITING", "RECEIVING", "RESPONSE_WAITING",
          "RESPONSE_INIT", "RESPONDING"}

Init ==
    /\ phase = "INIT"
    /\ port_mode = FALSE
    /\ wanted_mode = FALSE

Go(from, to) ==
    /\ phase = from
    /\ phase' = to
    /\ UNCHANGED <<port_mode, wanted_mode>>

(* The interrupt handler.  A packet does not start in the wrong mode, but  *)
(* the rest of a word that ended an exchange is still looked at.           *)
Begin == Go("INIT", "WAITING")
Start == Go("WAITING", "RECEIVING") /\ (port_mode \/ ~wanted_mode)
Drop == Go("RECEIVING", "WAITING")
Deliver == Go("RECEIVING", "RESPONSE_WAITING")
Fetch == Go("RESPONSE_INIT", "RESPONDING")
Acknowledge == Go("RESPONDING", "WAITING")

(* The main loop.  Only a command changes the mode that is wanted.         *)
Respond ==
    /\ phase = "RESPONSE_WAITING"
    /\ phase' = "RESPONSE_INIT"
    /\ wanted_mode' \in BOOLEAN
    /\ UNCHANGED port_mode

ChangeMode ==
    /\ phase = "WAITING"
    /\ port_mode' = wanted_mode
    /\ UNCHANGED <<phase, wanted_mode>>

Reset ==
    /\ phase' = "INIT"
    /\ port_mode' = FALSE
    /\ wanted_mode' \in {FALSE, wanted_mode}

Next == Begin \/ Start \/ Drop \/ Deliver \/ Fetch \/ Acknowledge
        \/ Respond \/ ChangeMode \/ Reset

Spec == Init /\ [][Next]_exchangeVars

=============================================================================
