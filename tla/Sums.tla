-------------------------------- MODULE Sums --------------------------------
(***************************************************************************)
(* The additive checksums of serial.c, mobile.c and config.c.              *)
(***************************************************************************)
EXTENDS Integers, Sequences

(* The sums of the first i elements of s.                                  *)
Totals(s) == LET f[i \in 0 .. Len(s)] == IF i = 0 THEN 0 ELSE f[i - 1] + s[i]
             IN  f

Sum(s) == Totals(s)[Len(s)]

=============================================================================
