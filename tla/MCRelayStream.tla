---------------------------- MODULE MCRelayStream ----------------------------
(* Answers, numbers and packets for the runs of RelayStream.               *)
EXTENDS RelayStream

TheMagic == <<0, 77, 79>>

SomeToken == [i \in 1 .. TokenSize |-> 100 + i]
Number(len) == [i \in 1 .. len |-> 48 + (i % 10)]

(* Well formed answers, answers with each field wrong, and for each number *)
(* or token one that ends too early.                                       *)
SomeAnswers ==
    [handshake |-> {Append(Magic, 0), Append(Magic, 1) \o SomeToken,
                    Append(Magic, 2), <<0, 77, 80, 0>>,
                    Append(Magic, 1) \o Front(SomeToken)},
     number |-> {<<0, 2, len>> \o Number(len) : len \in {0, 1, MaxNumber, MaxNumber + 1}}
                    \cup {<<0, 1, 1, 48>>, <<0, 2, MaxNumber>> \o Number(1)},
     call |-> {<<0, 0, r>> : r \in 0 .. 4} \cup {<<0, 1, 0>>},
     wait |-> {<<0, 1, r, len>> \o Number(len) : r \in 0 .. 2, len \in {0, 2, MaxNumber}}
                    \cup {<<0, 0, 0, 1, 48>>, <<0, 1, 0, MaxNumber>> \o Number(2)}]

SomeNumbers == {Number(2), Number(MaxNumber + 1)}
SomePackets == {<<>>, <<11, 12, 13>>}
SomePeerBytes == <<21, 22, 23>>
=============================================================================
