----------------------------- MODULE MCSpending -----------------------------
(***************************************************************************)
(* Finite values of SpendingLimits' constants: three payouts, the last of  *)
(* twice the amount, and limits of one and two.                            *)
(***************************************************************************)
EXTENDS SpendingLimits, TLC

CONSTANTS p1, p2, p3, daily

MCAmountOf == [p \in Payouts |-> IF p = p3 THEN 2 ELSE 1]

MCBudget == [kind \in Kinds |-> IF kind = "set" THEN 2 ELSE 1]

\* Sound: p1 and p2 have the same amount, and the run checks invariants only.
Swap == Permutations({p1, p2})
=============================================================================
