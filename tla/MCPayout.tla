------------------------------ MODULE MCPayout ------------------------------
(***************************************************************************)
(* Finite values of Payout's constants.                                    *)
(***************************************************************************)
EXTENDS PayoutProperties

CONSTANTS t1, t2, t3, s1, s2, r1, a1, p1, p2

\* Two payouts of the same size and a smaller one: the opening balance covers
\* any one of them, not all of them together.
MCAmount == [t \in Txns |-> IF t = t3 THEN 1 ELSE 2]
MCInitialBalance == 3

\* A debit that competes with the payouts for the same money.
MCAdjustBy == [a \in Adjusters |-> -2]

\* One process with two prefetched messages, or two processes with one each.
MCOneProc == [s \in Slots |-> p1]
MCTwoProcs == [s \in Slots |-> IF s = s1 THEN p1 ELSE p2]

\* Budgets: how many environment events of each kind a run allows.
Quiet == [k \in Kinds |-> 0]
Crashes == [Quiet EXCEPT !["crash"] = 1, !["expire"] = 1, !["conn"] = 1,
                         !["evict"] = 1]
OneFault == [Quiet EXCEPT !["fault"] = 1]
OneCrash == [Quiet EXCEPT !["crash"] = 1]
Upsets == [k \in Kinds |-> CASE k = "fault" -> 2 [] k = "conn" -> 0 [] OTHER -> 1]
=============================================================================
