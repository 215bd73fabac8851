----------------------------- MODULE SerialLink -----------------------------
(***************************************************************************)
(* The serial protocol between the library and a console (external): one   *)
(* that sends its packets whole, starts over when a packet is refused or   *)
(* not answered, and refuses a response with a wrong checksum.  The line   *)
(* may garble bytes in both directions, MaxFaults in all.                  *)
(*                                                                         *)
(* An exchange moves a byte, or in 32-bit mode a word, in both directions  *)
(* at once: the console gets the reply to its previous one (mobile.h:502). *)
(***************************************************************************)
EXTENDS Serial

CONSTANTS
    Requests,       \* packets of the console: [command, high, data]
    Noise,          \* what a garbled byte may read
    MaxFaults,      \* how many bytes the line garbles
    MaxNaks         \* how many intact responses the console refuses

VARIABLES
    request,        \* the packet the console sends or waits for
    phase,          \* what the console does
    sent,           \* the bytes of the packet that were sent
    got,            \* the bytes of the response that were received
    wire,           \* bytes of the last exchange the library has not read
    reply,          \* header and data of the library's response
    faults, naks

consoleVars == <<request, phase, sent, got, faults, naks>>
linkVars == <<serialVars, consoleVars, wire, reply>>

ConsolePhase == {"idle", "send", "poll", "acknowledge", "refused",
                 "resend"}
ClientId == 129         \* MOBILE_ADAPTER_GAMEBOY_ADVANCE | 0x80

Width == IF mode_32bit THEN 4 ELSE 1
Padding(n) == IF mode_32bit THEN (-n) % 4 ELSE 0
Padded(data) == data \o [i \in 1 .. Padding(Len(data)) |-> 0]
Idle == [i \in 1 .. Width |-> IdleCheck]

(* A packet, and the acknowledgement with which it ends.                   *)
Frame(first, high, data) ==
    LET total == first + high + Len(data) + Sum(data)
    IN  <<Sync1, Sync2, first, 0, high, Len(data)>> \o Padded(data)
            \o <<(total \div 256) % 256, total % 256>>

RequestBytes ==
    Frame(request.command, request.high, request.data)
        \o (IF mode_32bit THEN <<ClientId, 0, 0, 0>> ELSE <<ClientId, 0>>)

FrameLength(f) == 8 + f[6] + Padding(f[6])

Complete(f) == Len(f) >= 6 /\ Len(f) >= FrameLength(f)

Intact(f) ==
    /\ Len(f) = FrameLength(f)
    /\ LET n == Len(f)
       IN  f[n - 1] * 256 + f[n] = Sum(SubSeq(f, 3, 6 + f[6])) % 65536

-----------------------------------------------------------------------------
LinkInit ==
    /\ SerialInit
    /\ request \in Requests
    /\ phase = "idle"
    /\ sent = 0
    /\ got = <<>>
    /\ wire = <<>>
    /\ reply = <<>>
    /\ faults = 0
    /\ naks = 0

(* While the mode changes nothing is garbled or refused: what the two      *)
(* sides would then clock is up to the hardware.                           *)
Disturbable == request.command \notin {CmdChangeClock, CmdEnd}

(* One byte of a unit may be garbled.                                      *)
Garbled(unit) ==
    {unit} \cup
    (IF faults < MaxFaults /\ Disturbable
     THEN {[unit EXCEPT ![i] = b] : i \in DOMAIN unit, b \in Noise} ELSE {})

(* The console sends a unit and gets another one.                          *)
Swap(unit, in) ==
    /\ wire = <<>> /\ word = <<>>
    /\ wire' \in Garbled(unit)
    /\ in \in Garbled(out)
    /\ in # out => wire' = unit
    /\ faults' = IF in # out \/ wire' # unit THEN faults + 1 ELSE faults
    /\ UNCHANGED <<serialVars, reply>>

(* Nothing to do, or waiting for the mode to be switched.                  *)
ConsoleIdle ==
    /\ phase = "idle"
    /\ Swap(Idle, out)
    /\ UNCHANGED <<request, phase, sent, got, naks>>

ConsoleRequest ==
    /\ phase = "idle" /\ mode_32bit = wanted_mode /\ wire = <<>>
    /\ request' \in Requests
    /\ session_started <=> request'.command # CmdStart
    /\ phase' = "send"
    /\ sent' = 0
    /\ got' = <<>>
    /\ UNCHANGED <<serialVars, wire, reply, faults, naks>>

(* The last unit of a packet brings the library's acknowledgement.  The    *)
(* empty command is not answered otherwise.                                *)
ConsoleSend ==
    /\ phase = "send"
    /\ \E in \in Garbled(out) :
          /\ Swap(SubSeq(RequestBytes, sent + 1, sent + Width), in)
          /\ LET last == sent + Width = Len(RequestBytes)
                 ack == in[IF mode_32bit THEN 2 ELSE 1]
                 accepted == ack = (request.command + 128) % 256
             IN  /\ phase' = IF ~last THEN "send"
                             ELSE IF ~accepted THEN "resend"
                             ELSE IF request.command = CmdNull THEN "idle"
                             ELSE "poll"
                 /\ sent' = IF last THEN 0 ELSE sent + Width
    /\ UNCHANGED <<request, got, naks>>

(* Waits for the response, and reads it.                                   *)
ConsolePoll ==
    /\ phase \in {"poll", "refused"}
    /\ \E in \in Garbled(out) :
          /\ Swap(Idle, in)
          /\ LET bytes == got \o in
             IN  IF bytes[1] # Sync1 \/ (Len(bytes) > 1 /\ bytes[2] # Sync2)
                 THEN got' = <<>> /\ phase' = "poll"
                 ELSE /\ got' = bytes
                      /\ phase' = IF Complete(bytes) THEN "acknowledge" ELSE "poll"
    /\ UNCHANGED <<request, sent, naks>>

(* Accepts or refuses the response.  An intact one may be refused as well  *)
(* (the console's own reasons).                                            *)
ConsoleAcknowledge ==
    /\ phase = "acknowledge"
    /\ \E nak \in BOOLEAN :
          /\ ~Intact(got) => nak
          /\ nak /\ Intact(got) => naks < MaxNaks /\ Disturbable
          /\ LET verdict == IF nak THEN ErrChecksum ELSE got[3]
                 bytes == IF mode_32bit THEN <<ClientId, verdict, 0, 0>>
                          ELSE <<ClientId, verdict>>
                 last == sent + Width = Len(bytes)
             IN  /\ wire = <<>> /\ word = <<>>
                 /\ wire' = SubSeq(bytes, sent + 1, sent + Width)
                 /\ sent' = IF last THEN 0 ELSE sent + Width
                 /\ phase' = IF ~last THEN "acknowledge"
                             ELSE IF nak THEN "refused" ELSE "idle"
                 /\ got' = IF last THEN <<>> ELSE got
                 /\ naks' = IF last /\ nak /\ Intact(got) THEN naks + 1
                            ELSE naks
    /\ UNCHANGED <<serialVars, reply, request, faults>>

(* A packet that was refused: the console pauses before it starts over.    *)
ConsolePause ==
    /\ phase = "resend"
    /\ Swap(Idle, out)
    /\ UNCHANGED <<request, phase, sent, got, naks>>

(* No answer is coming: the console gives up waiting and starts over.      *)
ConsoleTimeout ==
    /\ phase \in {"poll", "refused", "resend"} /\ wire = <<>> /\ word = <<>>
    /\ state = "WAITING"
    /\ phase' = "send"
    /\ sent' = 0
    /\ got' = <<>>
    /\ UNCHANGED <<serialVars, wire, reply, request, faults, naks>>

(* The library reads what was exchanged.                                   *)
LibraryIgnores ==
    /\ wire # <<>> /\ Len(wire) = Width
    /\ TransferIgnored
    /\ wire' = <<>>
    /\ UNCHANGED <<consoleVars, reply>>

LibraryByte ==
    /\ wire # <<>>
    /\ TransferByte(wire[1])
    /\ wire' = Tail(wire)
    /\ UNCHANGED <<consoleVars, reply>>

LibraryReturns ==
    /\ TransferReturn
    /\ UNCHANGED <<consoleVars, wire, reply>>

LibraryResponds ==
    /\ \E r \in Responses :
          /\ SerialRespond(r)
          /\ reply' = <<r.command + 128, 0, 0, Len(r.data)>> \o r.data
    /\ UNCHANGED <<consoleVars, wire>>

LibraryChangesMode ==
    /\ wire = <<>>
    /\ SerialChangeMode
    /\ UNCHANGED <<consoleVars, wire, reply>>

(* The console fell silent in the middle of anything: the session is       *)
(* dropped, and the console has to start a new one.                        *)
LibraryDrops ==
    /\ wire = <<>> /\ session_started
    /\ SerialReset
    /\ phase' = "idle"
    /\ got' = <<>>
    /\ sent' = 0
    /\ UNCHANGED <<request, faults, naks, wire, reply>>

Library == LibraryIgnores \/ LibraryByte \/ LibraryReturns
           \/ LibraryResponds \/ LibraryChangesMode \/ LibraryDrops
Console == ConsoleSend \/ ConsolePoll \/ ConsoleAcknowledge \/ ConsolePause

LinkNext == ConsoleIdle \/ ConsoleRequest \/ Console \/ ConsoleTimeout \/ Library

LinkSpec == LinkInit /\ [][LinkNext]_linkVars

(* The console goes on with a packet it began, or gives up in the end, and *)
(* the library reads what it is sent; the main loop is called regularly    *)
(* (mobile.h:486), between the interrupts.                                 *)
LinkFairness ==
    /\ WF_linkVars(Console)
    /\ SF_linkVars(ConsoleTimeout)
    /\ WF_linkVars(LibraryIgnores \/ LibraryByte \/ LibraryReturns)
    /\ SF_linkVars(LibraryResponds)
FairLinkSpec == LinkSpec /\ LinkFairness

-----------------------------------------------------------------------------
(* Properties.                                                             *)

(* serial.c:118-121, 169-177: what the main loop is given to process is    *)
(* what the console sent, although the line garbles bytes of it, shifts    *)
(* its end by garbling the size, or garbles the acknowledgements.          *)
HandedOverIntact ==
    state = "RESPONSE_WAITING" =>
        /\ header = <<request.command, 0, request.high, Len(request.data)>>
        /\ SubSeq(buffer, 1, data_size) = request.data

(* mobile.c:60, serial.c:189-236: a response the console accepts is what   *)
(* the main loop made, although request, response and the progress of the  *)
(* command share their memory, and the response may have been sent before. *)
AcceptedIntact ==
    phase = "acknowledge" /\ Intact(got) => SubSeq(got, 3, 6 + got[6]) = reply

(* serial.c:254-261: "If an error happened, retry."  In 8-bit mode a       *)
(* response that the console refuses is sent again, unless the session is  *)
(* dropped.  In 32-bit mode the verdict is looked for a word too early     *)
(* (serial.c:249-254), so that a refused response is not sent again.       *)
RefusedIsRetried ==
    [][phase = "refused" /\ state \in Responding /\ ~mode_32bit =>
          state' \in Responding \cup {"INIT"}]_linkVars

(* A packet is answered in the end: once the line stops garbling, console  *)
(* and library find together again, whatever they were doing.              *)
RequestCompletes == phase = "send" ~> phase = "idle"

=============================================================================
