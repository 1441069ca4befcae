---------------------------- MODULE MCZahlMemory ----------------------------
(* Small instances of ZahlMemory for TLC: the client's integers, the       *)
(* blocks and the contents are interchangeable.                            *)
EXTENDS ZahlMemory, TLC

Symmetry == Permutations(User) \cup Permutations(Block) \cup Permutations(Value)
=============================================================================
