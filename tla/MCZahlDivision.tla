--------------------------- MODULE MCZahlDivision ---------------------------
(* ZahlDivision for TLC: dividends of up to five bits with characters of   *)
(* two bits, so that the cache is shifted both wholly and in part.         *)
EXTENDS ZahlDivision

MCPower == [n \in 0 .. MaxBits |-> 2 ^ n]
MCNumbers == {-31, -21, -16, -9, -7, -4, -2, -1} \cup {0, 1, 2, 3, 5, 6, 8, 10, 13, 19, 27}
=============================================================================
