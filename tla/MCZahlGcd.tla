------------------------------ MODULE MCZahlGcd ------------------------------
(* ZahlGcd for TLC: operands of up to seven bits, in characters of two.       *)
EXTENDS ZahlGcd

MCPower == [n \in 0 .. MaxBits |-> 2 ^ n]
MCNumbers == (-9) .. 127
==============================================================================
