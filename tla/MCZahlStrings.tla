----------------------------- MODULE MCZahlStrings -----------------------------
(* ZahlStrings for TLC: decimals in groups of two, characters of seven bits,  *)
(* so that one character may have three digits and two have five at most.     *)
EXTENDS ZahlStrings

Magnitudes == (0 .. 20) \cup (95 .. 130) \cup (990 .. 1005) \cup (9990 .. 10010)
                \cup (16380 .. 16390) \cup {99999, 100000, 123456, 1000000, 2000007, 2097151}
MCRadixPower == [k \in 0 .. Digits |-> Radix ^ k]
MCPrinted  == UNION {{-v, v} : v \in Magnitudes}
MCMeasured == {v \in MCPrinted : v < 16400 /\ v > -16400}

\* All strings of up to five characters; and long numerals whose first digits zmul
\* multiplies wrongly, by themselves and after others, with one next to them.
Long == {211, 21120, 21121, 21122, 42241, 83969, 125953, 167937, 2112134}
MCParsed ==
  UNION {[1 .. k -> {Minus, Plus, Other, 0, 1, 9}] : k \in 0 .. 5}
    \cup {sign \o Numeral(v, Radix) \o last2 :
            sign \in {<<>>, <<Minus>>}, v \in Long, last2 \in {<<0, 0>>, <<5, 9>>}}

Karatsuba == INSTANCE ZahlKaratsuba WITH CharBits <- 7
MCZMul(v, w) == Karatsuba!Multiplied[v, w]
MCZSqr(v)    == Karatsuba!Squared[v]
==============================================================================
