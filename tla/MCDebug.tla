------------------------------- MODULE MCDebug -------------------------------
(* Lengths at which the branches and the rows of debug.c change.           *)
EXTENDS Debug

SomeLengths == {0, 1, 2, 3, 4, 6, 12, 13, 17, 42, 66, 255}
=============================================================================
