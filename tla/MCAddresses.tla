----------------------------- MODULE MCAddresses -----------------------------
(* Tokens for the run of Addresses: octets, up to one that is too large,   *)
(* and groups of IPv6 addresses.                                           *)
EXTENDS Addresses

a == 10
QuadTokens == {<<0, 0, 7>>, <<2, 5, 5>>, <<2, 5, 6>>, <<Dot>>, <<a>>}
GroupTokens == {<<a, 1>>, <<Colon>>, <<Dot>>, <<1, Dot, 2, Dot, 3, Dot, 4>>,
                <<0, 2, a, 3>>}

(* Octets with zeros in front, of three digits and of four.                *)
LongTokens == {<<0, 0, 7>>, <<0, 0, 0, 1>>, <<Dot>>, <<Colon, Colon>>}

AllAlphabets == {QuadTokens, GroupTokens, LongTokens}

=============================================================================
