------------------------------ MODULE MCSerial ------------------------------
(* Packets for the run of SerialLink.                                      *)
EXTENDS SerialLink

Request(cmd, data) == [command |-> cmd, high |-> 0, data |-> data]
Response(cmd, data) == [to |-> cmd, command |-> cmd, data |-> data]

(* NULL, START, END, DATA and CHANGE_CLOCK.                                *)
Known == {15, 16, 17, 21, 24}

(* The empty command; a change to 32-bit mode; data that looks like the    *)
(* start of a packet, and data that does not fill its last word, with a    *)
(* size above 255 (of which the low byte is taken, serial.c:55-58, 80-85). *)
SomeRequests == {Request(15, <<>>), Request(16, <<5>>), Request(17, <<>>),
                 Request(24, <<1>>), Request(21, <<153, 102, 0, 1>>),
                 [Request(21, <<1, 2, 3, 4, 5>>) EXCEPT !.high = 1]}

Answers == {Response(16, <<5>>), Response(21, <<7, 153, 102>>),
            Response(21, <<>>), Response(24, <<>>), Response(17, <<>>)}

=============================================================================
