------------------------------ MODULE MCConfig ------------------------------
(* Settings for the run of Config.                                         *)
EXTENDS Config

TwoAddresses == {None, [type |-> 1, host |-> 20]}

(* Both halves one by one, a part that cuts the second one, an empty part, *)
(* one that goes too far and one that is too large.                        *)
SomeWrites == {[offset |-> 0, size |-> 96], [offset |-> 96, size |-> 96],
               [offset |-> 160, size |-> 96], [offset |-> 32, size |-> 0],
               [offset |-> 192, size |-> 96], [offset |-> 0, size |-> 192]}

=============================================================================
