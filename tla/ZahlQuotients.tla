---------------------------- MODULE ZahlQuotients ----------------------------
(***************************************************************************)
(* What zdivmod(3), zdiv(3) and zmod(3) promise: in one step the truncated *)
(* quotient and the remainder are stored where the caller asked for them,  *)
(* whichever of these are also the operands, or, if there is no quotient   *)
(* or no memory, nothing but the error is seen: except that a dividend too *)
(* small to be divided is the remainder, which loses its old value if      *)
(* there is no room for it.                                                *)
(***************************************************************************)
EXTENDS Integers

CONSTANTS Reg,        \* the integers a call can name
          Use         \* the calls: who gets the results, who is divided

VARIABLES num, result

quotientVars == <<num, result>>

Mag(v) == IF v < 0 THEN -v ELSE v
Sgn(v) == IF v < 0 THEN -1 ELSE IF v = 0 THEN 0 ELSE 1

\* Truncated division: the remainder is smaller than the divisor and has
\* the dividend's sign.
IsQuotient(c, d, q, r) ==
  /\ q * d + r = c
  /\ Mag(r) < Mag(d)
  /\ Sgn(r) \in {0, Sgn(c)}

Init == num \in [Reg -> Int] /\ result = "none"

Divide(u) ==
  /\ num[u.d] # 0
  /\ num' \in [Reg -> Int]
  /\ IsQuotient(num[u.c], num[u.d], num'[u.a], num'[u.b])
  /\ \A r \in Reg \ {u.a, u.b} : num'[r] = num[r]
  /\ result' = "ok"

Undefined(u) ==
  /\ num[u.d] = 0
  /\ result' = IF num[u.c] = 0 THEN "0_DIV_0" ELSE "DIV_0"
  /\ UNCHANGED num

NoMemory(u) ==
  /\ result' = "memory"
  /\ \/ UNCHANGED num
     \/ /\ Mag(num[u.c]) < Mag(num[u.d]) /\ u.b \notin {u.c, u.d}
        /\ num' \in [Reg -> Int]
        /\ \A r \in Reg \ {u.b} : num'[r] = num[r]

Next == \E u \in Use : Divide(u) \/ Undefined(u) \/ NoMemory(u)

Spec == Init /\ [][Next]_quotientVars
=============================================================================
