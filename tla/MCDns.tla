-------------------------------- MODULE MCDns --------------------------------
(* Names and records for the runs of Dns.                                  *)
EXTENDS Dns

a == 97
b == 98

(* With labels of 3 and packets of 80 bytes: a label that is too long, a   *)
(* name that just fits, one whose question does not, and one that does not *)
(* fit itself.                                                             *)
Repeated(n) == [i \in 1 .. n |-> IF i % 4 = 0 THEN Dot ELSE a]
SomeNames == {<<a>>, <<a, Dot, b>>, <<a, b, a, b>>, Repeated(62),
              Repeated(63), Repeated(67)}

Record(name, type, rdata) == [name |-> name, type |-> type, rdata |-> rdata]
First == Record(<<a>>, TypeA, <<10, 0, 0, 1>>)
Second == Record(<<a>>, TypeA, <<10, 0, 0, 2>>)
Dotted == Record(<<a, Dot, b>>, TypeA, <<10, 0, 0, 3>>)
Long == Record(<<a>>, 28, <<1, 2, 3, 4, 5, 6, 7, 8, 9, 10, 11, 12, 13, 14, 15, 16>>)
Alias == Record(<<a>>, 5, <<1, b, 0>>)
Short == Record(<<a>>, 5, <<1, 98, 0, 0>>)

(* An address first, or none for the name.                                 *)
AddressFirst == {<<First>>, <<Second, First>>, <<First, Long>>, <<Dotted, Dotted>>,
                 <<Alias>>, <<Long, Short>>, <<Short, Alias, Long>>,
                 <<Dotted, Short>>, <<First, Alias, Second>>}
Mixed == AddressFirst \cup {<<Alias, First>>, <<Long, First>>, <<Dotted, First>>}

=============================================================================
