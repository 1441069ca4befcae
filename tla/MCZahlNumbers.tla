---------------------------- MODULE MCZahlNumbers ----------------------------
(* ZahlNumbers for TLC: characters of three bits, maxima of up to six bits   *)
(* and one of ten that a wrong product exceeds, 535, and numbers of up to    *)
(* seven, among them primes zptest may call composite (11 by the exponent    *)
(* above, 97 by a wrong product) and 73, of which it loses the top when it   *)
(* takes 4 away.                                                             *)
EXTENDS ZahlNumbers

MCMaxima == (-1) .. 20 \cup {23, 31, 32, 40, 63, 535}
MCTwo == [n \in 0 .. MaxBits |-> 2 ^ n]
MCQuestioned == (-2) .. 41 \cup {49, 65, 73, 91, 97}

Karatsuba == INSTANCE ZahlKaratsuba

\* Tables, for what is multiplied: numbers below 97, and what is drawn by a maximum or
\* by itself.
Factors == ((0 .. 96) \X (0 .. 96)) \cup ((1 .. 1024) \X {535})
             \cup {<<v, v>> : v \in 1 .. 1024}
Products == [f \in Factors |-> Karatsuba!Multiplied[f[1], f[2]]]
Squares  == [v \in 0 .. 96 |-> Karatsuba!Squared[v]]
MCZMul(v, w) == Products[<<v, w>>]
MCZSqr(v)    == Squares[v]
==============================================================================
