------------------------------ MODULE Addresses ------------------------------
(***************************************************************************)
(* inet_pton.c and the parsers of util.c, compared with what an address is *)
(* (RFC 4291, RFC 6943), over all texts of a few tokens.                   *)
(*                                                                         *)
(* A character is a number: 0 .. 15 for the digits, 10 and more of them    *)
(* hexadecimal, then the dot, the colon and a letter.                      *)
(***************************************************************************)
EXTENDS Integers, Sequences

CONSTANTS
    Alphabets,      \* sets of tokens that a text is put together from
    MaxTokens,
    In6Size         \* NS_IN6ADDRSZ: the bytes of an IPv6 address

Dot == 16
Colon == 17
Digit == 0 .. 9

ASSUME AddressesAssumption ==
    /\ \A Tokens \in Alphabets : Tokens \subseteq Seq(0 .. 18)
    /\ MaxTokens \in Nat
    /\ In6Size \in Nat /\ In6Size % 2 = 0 /\ In6Size >= 4

VARIABLES text, tokens, alphabet

vars == <<text, tokens, alphabet>>

Failed == <<>>

-----------------------------------------------------------------------------
(* Mutant: a dot after the last octet is taken.                            *)
Pton4AnyDots(s) ==
    LET step[i \in 0 .. Len(s)] ==
          IF i = 0 THEN [ok |-> TRUE, saw_digit |-> 0, octets |-> 0, tmp |-> <<0>>]
          ELSE LET p == step[i - 1]
                   n == Len(p.tmp)
               IN  IF p.ok /\ s[i] \in Digit /\ p.saw_digit <= 3
                      /\ p.tmp[n] * 10 + s[i] <= 255
                   THEN [p EXCEPT !.tmp[n] = @ * 10 + s[i], !.saw_digit = @ + 1,
                                  !.octets = IF p.saw_digit = 0 THEN @ + 1 ELSE @]
                   ELSE IF p.ok /\ s[i] = Dot /\ p.saw_digit > 0
                   THEN [p EXCEPT !.tmp = Append(@, 0), !.saw_digit = 0]
                   ELSE [p EXCEPT !.ok = FALSE]
        last == step[Len(s)]
    IN  IF last.ok /\ last.octets >= 4 THEN SubSeq(last.tmp, 1, 4) ELSE Failed

(* The bytes of a dotted quad, or Failed.  The octets may begin with zeros.*)
inet_pton4(s) ==
    LET step[i \in 0 .. Len(s)] ==
          IF i = 0 THEN [ok |-> TRUE, saw_digit |-> 0, octets |-> 0, tmp |-> <<0>>]
          ELSE LET p == step[i - 1]
                   n == Len(p.tmp)
               IN  IF /\ p.ok /\ s[i] \in Digit
                      /\ p.saw_digit <= 3
                      /\ p.tmp[n] * 10 + s[i] <= 255
                      /\ p.saw_digit = 0 => p.octets < 4
                   THEN [p EXCEPT !.tmp[n] = @ * 10 + s[i], !.saw_digit = @ + 1,
                                  !.octets = IF p.saw_digit = 0 THEN @ + 1 ELSE @]
                   ELSE IF p.ok /\ s[i] = Dot /\ p.saw_digit > 0 /\ p.octets # 4
                   THEN [p EXCEPT !.tmp = Append(@, 0), !.saw_digit = 0]
                   ELSE [p EXCEPT !.ok = FALSE]
        last == step[Len(s)]
    IN  IF last.ok /\ last.octets = 4 THEN last.tmp ELSE Failed

hex_digit_value(ch) == IF ch \in 0 .. 15 THEN ch ELSE -1

Zeros(n) == [i \in 1 .. n |-> 0]

(* Mutant: the groups after the two colons stay where they are.            *)
ExpandAtEnd(tmp, colonp) == tmp \o Zeros(In6Size - Len(tmp))

(* Two colons are replaced with zeros.  colonp: how many bytes there were  *)
(* before them, or -1.                                                     *)
Expand(tmp, colonp) ==
    IF colonp < 0 THEN tmp
    ELSE SubSeq(tmp, 1, colonp) \o Zeros(In6Size - Len(tmp))
            \o SubSeq(tmp, colonp + 1, Len(tmp))

(* The bytes of an IPv6 address, or Failed.  curtok: where the part after  *)
(* the last colon begins.                                                  *)
inet_pton6(s) ==
    LET lead == Len(s) > 0 /\ s[1] = Colon
        begin == IF lead THEN 1 ELSE 0
        start == [ok |-> Len(s) > 0 /\ (lead => Len(s) > 1 /\ s[2] = Colon),
                  tmp |-> <<>>, colonp |-> -1, xdigits |-> 0, val |-> 0,
                  curtok |-> begin + 1, done |-> FALSE]
        step[i \in begin .. Len(s)] ==
          IF i = begin THEN start
          ELSE LET p == step[i - 1]
                   digit == hex_digit_value(s[i])
                   quad == inet_pton4(SubSeq(s, p.curtok, Len(s)))
               IN  IF ~p.ok \/ p.done THEN p
                   ELSE IF digit >= 0 /\ p.xdigits < 4
                   THEN [p EXCEPT !.val = @ * 16 + digit, !.xdigits = @ + 1]
                   ELSE IF s[i] = Colon /\ p.xdigits = 0 /\ p.colonp < 0
                   THEN [p EXCEPT !.curtok = i + 1, !.colonp = Len(p.tmp)]
                   ELSE IF s[i] = Colon /\ p.xdigits > 0 /\ i # Len(s)
                           /\ Len(p.tmp) + 2 <= In6Size
                   THEN [p EXCEPT !.tmp = @ \o <<p.val \div 256, p.val % 256>>,
                                  !.xdigits = 0, !.val = 0, !.curtok = i + 1]
                   ELSE IF s[i] = Dot /\ Len(p.tmp) + 4 <= In6Size /\ quad # Failed
                   THEN [p EXCEPT !.tmp = @ \o quad, !.xdigits = 0, !.done = TRUE]
                   ELSE [p EXCEPT !.ok = FALSE]
        last == step[Len(s)]
        tmp == IF last.xdigits = 0 THEN last.tmp
               ELSE last.tmp \o <<last.val \div 256, last.val % 256>>
    IN  IF /\ last.ok /\ Len(tmp) <= In6Size
           /\ IF last.colonp < 0 THEN Len(tmp) = In6Size ELSE Len(tmp) < In6Size
        THEN Expand(tmp, last.colonp) ELSE Failed

(* What AF_UNSPEC finds: the family with the address, or -1.               *)
mobile_inet_pton_length(s) ==
    IF inet_pton4(s) # Failed THEN <<4, inet_pton4(s)>>
    ELSE IF inet_pton6(s) # Failed THEN <<6, inet_pton6(s)>>
    ELSE <<-1, Failed>>

(* Mutant: a colon is not looked for.                                      *)
IsIpDigitsOnly(s) == \A i \in 1 .. Len(s) : s[i] \in Digit \cup {Dot}

mobile_is_ipaddr(s) ==
    \/ \E i \in 1 .. Len(s) : s[i] = Colon
    \/ \A i \in 1 .. Len(s) : s[i] \in Digit \cup {Dot}

(* Mutant: an octet keeps its low byte.                                    *)
PhoneAnyOctet(s) ==
    IF \A i \in 1 .. 12 : s[i] \in Digit
    THEN [y \in 1 .. 4 |-> (s[3 * y - 2] * 100 + s[3 * y - 1] * 10 + s[3 * y]) % 256]
    ELSE Failed

(* Twelve digits: a telephone number that is an address.                   *)
mobile_parse_phoneaddr(s) ==
    LET octet(y) == s[3 * y - 2] * 100 + s[3 * y - 1] * 10 + s[3 * y]
    IN  IF /\ \A i \in 1 .. 12 : s[i] \in Digit
           /\ \A y \in 1 .. 4 : octet(y) <= 255
        THEN [y \in 1 .. 4 |-> octet(y)] ELSE Failed

-----------------------------------------------------------------------------
Init ==
    /\ text = <<>>
    /\ tokens = 0
    /\ alphabet \in Alphabets

Extend ==
    /\ tokens < MaxTokens
    /\ \E t \in alphabet : text' = text \o t
    /\ tokens' = tokens + 1
    /\ UNCHANGED alphabet

Spec == Init /\ [][Extend]_vars

-----------------------------------------------------------------------------
(* What an address is.                                                     *)

(* The parts of a text between its separators.                             *)
Split(s, sep) ==
    LET parts[i \in 0 .. Len(s)] ==
          IF i = 0 THEN << <<>> >>
          ELSE LET p == parts[i - 1]
               IN  IF s[i] = sep THEN Append(p, <<>>)
                   ELSE [p EXCEPT ![Len(p)] = Append(@, s[i])]
    IN  parts[Len(s)]

Value(part, base) ==
    LET v[i \in 0 .. Len(part)] == IF i = 0 THEN 0 ELSE v[i - 1] * base + part[i]
    IN  v[Len(part)]

Numbers(part, digits, most) ==
    /\ Len(part) \in 1 .. most
    /\ \A i \in 1 .. Len(part) : part[i] \in digits

(* Four numbers up to 255 of at most that many digits, with dots between.  *)
Quad(s, most) ==
    LET parts == Split(s, Dot)
    IN  IF /\ Len(parts) = 4
           /\ \A n \in 1 .. 4 : Numbers(parts[n], Digit, most)
                                   /\ Value(parts[n], 10) <= 255
        THEN [n \in 1 .. 4 |-> Value(parts[n], 10)] ELSE Failed

(* The bytes of groups of up to four hexadecimal digits, the last two of   *)
(* which may be given by a quad; an empty group (two at an end) stands for *)
(* at least one group of zeros.                                            *)
V6Groups(parts, quad) ==
    LET n == Len(parts)
        empty == {i \in 1 .. n : parts[i] = <<>>}
        gap == \/ empty \in {{1, 2}, {n - 1, n}} /\ n > 2
               \/ empty = {1, 2, 3} /\ n = 3
               \/ \E i \in 2 .. n - 1 : empty = {i}
        IsQuad(i) == i = n /\ quad # Failed
        Bytes(i) == IF parts[i] = <<>> THEN <<>>
                    ELSE IF IsQuad(i) THEN quad
                    ELSE <<Value(parts[i], 16) \div 256, Value(parts[i], 16) % 256>>
        upto[i \in 0 .. n] == IF i = 0 THEN <<>> ELSE upto[i - 1] \o Bytes(i)
        before == upto[CHOOSE i \in empty : i - 1 \notin empty \/ i = 1]
        zeros == In6Size - Len(upto[n])
    IN  IF \E i \in (1 .. n) \ empty :
              ~IsQuad(i) /\ ~Numbers(parts[i], 0 .. 15, 4) THEN Failed
        ELSE IF empty = {} THEN IF zeros = 0 THEN upto[n] ELSE Failed
        ELSE IF gap /\ zeros >= 2
        THEN before \o Zeros(zeros) \o SubSeq(upto[n], Len(before) + 1, Len(upto[n]))
        ELSE Failed

(* Groups with colons between; octets have at most that many digits.       *)
V6(s, most) ==
    LET parts == Split(s, Colon)
    IN  V6Groups(parts, Quad(parts[Len(parts)], most))

(* What could be a dotted quad has no octet that is longer.                *)
ShortOctets(s) ==
    LET octets == Split(s, Dot)
    IN  Len(octets) = 4 => \A i \in 1 .. 4 : Len(octets[i]) <= 3

-----------------------------------------------------------------------------
(* Properties.                                                             *)

(* inet_pton.c:86-132: exactly the dotted quads are taken, with their      *)
(* value, as long as no octet has more than three digits.  (Of four digits *)
(* it is taken as well, against inet_pton.c:36-37 "max 3-digit".)          *)
(* util.c:38-56, commands.c:268-280: the twelve digits of a telephone      *)
(* number are read as the dotted quad that they are without the dots.      *)
QuadParsed ==
    LET octets == Split(text, Dot)
    IN  /\ ShortOctets(text) => inet_pton4(text) = Quad(text, 3)
        /\ Len(octets) = 4 /\ (\A i \in 1 .. 4 : Len(octets[i]) = 3) =>
              mobile_parse_phoneaddr(octets[1] \o octets[2] \o octets[3] \o octets[4])
                  = inet_pton4(text)

(* inet_pton.c:148-244: exactly the IPv6 addresses are taken, wherever the *)
(* two colons and the dotted quad are, as long as the quad at the end has  *)
(* no octet of more than three digits.  (One of four digits is taken there *)
(* as well, inet_pton.c:211 calls inet_pton4: ::0001.2.3.4 is no address.) *)
V6Parsed ==
    LET parts == Split(text, Colon)
    IN  ShortOctets(parts[Len(parts)]) => inet_pton6(text) = V6(text, 3)

(* commands.c:1072-1086, util.c:58-71: a text that is an address is not    *)
(* looked up as a name, and no text is an address of both families.        *)
AddressIsNoName ==
    LET found == mobile_inet_pton_length(text)
    IN  found[1] # -1 =>
            /\ mobile_is_ipaddr(text)
            /\ found[1] = 4 <=> Colon \notin {text[i] : i \in 1 .. Len(text)}

=============================================================================
