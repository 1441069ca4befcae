---------------------------- MODULE ZahlRegisters ----------------------------
(***************************************************************************)
(* What libzahl's memory management promises: its integers are separate    *)
(* registers.  A register keeps its contents until it is written, swapped  *)
(* or released, however blocks grow, move and are cached and reused, and   *)
(* no operation disturbs a register it does not name.  The one exception   *)
(* is an error: the register that could not grow may lose its contents, no *)
(* other may, and recovering from the error releases scratch registers     *)
(* only.  All of this is promised of a library that is intact: one whose   *)
(* initialisation failed may lose a register whenever it creates another.  *)
(***************************************************************************)
CONSTANTS Register, Scratch, Contents, Lost

VARIABLES live, val, failing, intact

regVars == <<live, val, failing>>

Init ==
  /\ live = {}
  /\ val = [r \in Register |-> Lost]
  /\ failing = FALSE

Forgetting(R) == [r \in Register |-> IF r \in R THEN Lost ELSE val[r]]

\* Registers that appear hold nothing yet.
Create(R) ==
  /\ ~failing
  /\ R \cap live = {}
  /\ live' = live \cup R
  /\ \/ val' = Forgetting(R)
     \/ ~intact /\ \E r \in live : val' = Forgetting(R \cup {r})
  /\ UNCHANGED failing

Destroy(R) ==
  /\ R \subseteq live
  /\ failing => R \subseteq Scratch
  /\ live' = live \ R /\ val' = Forgetting(R)
  /\ UNCHANGED failing

Store(r, x) ==
  /\ ~failing /\ r \in live
  /\ val' = [val EXCEPT ![r] = x]
  /\ UNCHANGED <<live, failing>>

Exchange(r, s) ==
  /\ ~failing /\ r \in live /\ s \in live
  /\ val' = [val EXCEPT ![r] = val[s], ![s] = val[r]]
  /\ UNCHANGED <<live, failing>>

Raise ==
  /\ ~failing /\ failing' = TRUE
  /\ \/ UNCHANGED val
     \/ \E r \in live : val' = [val EXCEPT ![r] = Lost]
  /\ UNCHANGED live

\* Recovering takes the scratch registers along that are still there.
Recover(R) ==
  /\ R \subseteq Scratch \cap live
  /\ failing /\ failing' = FALSE
  /\ live' = live \ R /\ val' = Forgetting(R)

Next ==
  \/ \E R \in SUBSET Register : Create(R) \/ Destroy(R) \/ Recover(R)
  \/ \E r \in Register, x \in Contents : Store(r, x)
  \/ \E r, s \in Register : Exchange(r, s)
  \/ Raise

Spec == Init /\ [][Next]_regVars
=============================================================================
