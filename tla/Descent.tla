------------------------------ MODULE Descent ------------------------------
(***************************************************************************)
(* Ranks: tuples of naturals, compared from the left.  A system of which   *)
(* every step lowers a rank takes finitely many steps, in any schedule.    *)
(***************************************************************************)
EXTENDS Integers, Sequences

\* The first place where the tuples r and s differ has the smaller number in r.
Lower(r, s) ==
  \E i \in DOMAIN s : /\ r[i] < s[i]
                      /\ \A j \in 1 .. i - 1 : r[j] = s[j]

\* A condition as a number that falls when the condition ends.
One(condition) == IF condition THEN 1 ELSE 0

\* What is left of a budget.
Left(budget, spent) == IF spent < budget THEN budget - spent ELSE 0
=============================================================================
