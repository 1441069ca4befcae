--------------------------- MODULE MCZahlProducts ---------------------------
(* The factors of ZahlProducts for its run.                                  *)
EXTENDS ZahlProducts

Both     == {"b", "c"}
Factors  == {1, 2, 3, 7, 13, 16, 17, 33, 48, 63, 64, 103, 255}
Multiplying == {"zmul", "zsqr"}
==============================================================================
