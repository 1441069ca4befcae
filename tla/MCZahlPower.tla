----------------------------- MODULE MCZahlPower -----------------------------
(* ZahlPower for TLC: characters of two bits, exponents of up to two of them *)
(* that fill their characters (2, 3, 9, 12) and that do not (1, 5); and with *)
(* what zmul and zsqr get wrong: 11 * 13 for zmodmul, 103 * 103 for zmodsqr, *)
(* 13^4 * 13 for zpow and zpowu, 11 * (11^2 mod 18) for the modular powers.  *)
EXTENDS ZahlPower

MCTwo     == [n \in 0 .. MaxBits |-> 2 ^ n]
MCNumbers == {-103, -18, -3, -1} \cup {0, 1, 2, 3, 5, 9, 11, 12, 13}
MCPowered == ({2, 3} \X {1, 2, 3, 5, 6}) \cup {<<5, 1>>, <<5, 5>>, <<13, 5>>}

Karatsuba == INSTANCE ZahlKaratsuba
MCZMul(v, w) == Karatsuba!Multiplied[v, w]
MCZSqr(v)    == Karatsuba!Squared[v]
==============================================================================
