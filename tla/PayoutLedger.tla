---------------------------- MODULE PayoutLedger ----------------------------
(***************************************************************************)
(* What a payout promises, without queues, locks, caches or workers: an    *)
(* account and the payouts drawn on it.  Accepting a payout sets its funds *)
(* aside; an accepted payout is paid, whole and once; a refused one never  *)
(* touches the account.                                                    *)
(***************************************************************************)
EXTENDS Integers, FiniteSums

CONSTANTS Txns, Amount, InitialBalance

VARIABLES balance, state
ledger == <<balance, state>>

SetAside == Sum(Amount, {t \in Txns : state[t] = "accepted"})

LedgerInit ==
    /\ balance = InitialBalance
    /\ state = [t \in Txns |-> "asked"]

Accept(t) ==
    /\ state[t] = "asked"
    /\ SetAside + Amount[t] <= balance
    /\ state' = [state EXCEPT ![t] = "accepted"]
    /\ UNCHANGED balance

Refuse(t) ==
    /\ state[t] = "asked"
    /\ state' = [state EXCEPT ![t] = "refused"]
    /\ UNCHANGED balance

Pay(t) ==
    /\ state[t] = "accepted"
    /\ state' = [state EXCEPT ![t] = "paid"]
    /\ balance' = balance - Amount[t]

LedgerNext == \E t \in Txns : Accept(t) \/ Refuse(t) \/ Pay(t)

\* No payment without acceptance, none twice, none without the money ...
LedgerSafety == LedgerInit /\ [][LedgerNext]_ledger

\* ... and every accepted payout paid.
LedgerSpec == LedgerSafety /\ \A t \in Txns : WF_ledger(Pay(t))
=============================================================================
