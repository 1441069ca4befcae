------------------------------ MODULE MCZahlCalls ------------------------------
(* The routines of ZahlCalls in families, for the runs.                      *)
EXTENDS ZahlCalls

Additive == Sums \ {"zsetu", "zseti"}
Unary    == {"zset", "zload", "zneg", "zabs", "zsetu", "zseti", "zcmpu", "zcmpi", "zbits", "zlsb",
             "zbtest", "zlsh", "zrsh", "ztrunc", "zsplit", "znot", "zbset"}
Binary   == {"zand", "zor", "zxor", "zcmpmag", "zcmp"}
Both     == {"b", "c"}
One      == {"b"}
AllMagnitudes == 1 .. Power(Base, MaxUsed) - 1
==============================================================================
