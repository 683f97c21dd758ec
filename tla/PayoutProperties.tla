-------------------------- MODULE PayoutProperties --------------------------
(***************************************************************************)
(* What the payout pipeline promises.  Each property says under which      *)
(* environment it is meant; the runs give the budgets.                     *)
(***************************************************************************)
EXTENDS Payout, FiniteSums

\* What the payouts took out of the account so far, less what was given back.
Taken == [t \in Txns |-> Amount[t] * (debits[t] - credits[t])]
TakenOut == Sum(Taken, Txns)

\* ------------------------------------------------------- any environment --

\* However often a message is redelivered, retried or duplicated, and whatever
\* crashes or fails, the amount of a payout is deducted at most once
\* (claimForProcessing is the only guard: the message itself is at-least-once).
AtMostOneDebit == \A t \in Txns : debits[t] <= 1

\* A payout reported as completed took its money, exactly once.
CompletedMeansDebited ==
    \A t \in Txns : tx[t] = "completed" => debits[t] = 1

\* Two handlers never work on the same transaction: a redelivery or a retry
\* that meets a running handler gives up.
SoleOwner ==
    \A s, u \in Slots :
       owned[s] /\ owned[u] /\ job[s].tx = job[u].tx => s = u

\* No interleaving of handlers, rollbacks, cache fills and adjustments makes
\* either balance negative ("balance can never go below zero", in the model of
\* PayoutUser), with or without the lock: the check and the subtraction are one
\* script, and MongoDB only ever receives balances that were read or reported.
NeverOverdrawn ==
    mongoBalance >= 0 /\ (redisBalance # Nil => redisBalance >= 0)

\* A transaction's message is never alive twice: in the queue, in a slot that
\* can still acknowledge it, or in a retry timer.
LiveCopies(t) ==
    Cardinality({m \in queue : m.tx = t})
    + Cardinality({s \in Slots : /\ wpc[s] # "idle" /\ job[s].tx = t
                                 /\ Open(ProcOf[s])})
    + Cardinality({p \in Procs : \E m \in timers[p] : m.tx = t})
OneLiveCopy == \A t \in Txns : LiveCopies(t) <= 1

\* A lock disappears because its own payout gave it up (the failing call, or
\* the worker that finished the payout) or because it expired; a slow holder
\* never deletes the lock another payout took meanwhile.
LockLeftByHolder ==
    [][lock # Nil /\ lock' # lock =>
          \/ spent'["expire"] > spent["expire"]
          \/ gpc[lock] = "release" /\ gpc'[lock] = "rejected"
          \/ \E s \in Slots : /\ wpc[s] = "unlock" /\ wpc'[s] # "unlock"
                              /\ job[s].tx = lock]_vars

\* The inductive invariant behind AtMostOneDebit and CompletedMeansDebited: a
\* transaction gets a handler that owns it only out of "initiated", it enters
\* "initiated" once, and the owner is alone between the claim and the deduction.
BeforeCreate == AwaitingCall \ {"publish", "release"}
Unclaimed == {"absent", "initiated"}

SlotsBusy == \A s \in Slots : wpc[s] # "idle" => job[s] # Nil
OwnerClaimed ==
    \A s \in Slots : owned[s] => /\ wpc[s] \notin {"idle", "claim"}
                                 /\ tx[job[s].tx] \notin Unclaimed
TryOwned == \A s \in Slots : wpc[s] \in InTry \ {"claim"} => owned[s]
CreatedOnce == \A t \in Txns : gpc[t] \in BeforeCreate => tx[t] = "absent"
DebitFollowsClaim ==
    /\ \A t \in Txns : tx[t] \in Unclaimed => debits[t] = 0
    /\ \A s \in Slots : wpc[s] \in {"recheck", "deduct"} => debits[job[s].tx] = 0
    /\ \A s \in Slots : wpc[s] = "complete" => debits[job[s].tx] = 1

DebitInv ==
    /\ TypeOK /\ SlotsBusy /\ OwnerClaimed /\ TryOwned /\ SoleOwner
    /\ CreatedOnce /\ DebitFollowsClaim /\ AtMostOneDebit /\ CompletedMeansDebited

\* ---------------------------------------------------- one store fault at most --

\* "If anything fails, it rolls back the balance and marks the transaction as
\* failed": as long as no second store call failed (which could be the refund
\* itself) and the balance key was not evicted (nothing is left to add to), a
\* failed payout has its money back from the moment it is marked, whatever
\* connections drop and processes die around it.
FailedIsRefunded ==
    spent["fault"] <= 1 /\ spent["evict"] = 0 =>
       \A t \in Txns : tx[t] = "failed" => debits[t] <= credits[t]

\* ------------------------------- the lock outlives the payout it is taken for --

\* Until the balance key expires, it is the opening balance less what the
\* payouts took: no read, fill or rollback mints or loses money.
LedgerExact ==
    redisBalance # Nil => redisBalance = InitialBalance - TakenOut

\* From claim to release a handler is alone: the lock its payout's call took
\* keeps every other payout of the user out.
Handling(s) == owned[s] /\ wpc[s] \in InTry
LoneHandler == \A s, u \in Slots : Handling(s) /\ Handling(u) => s = u

\* An accepted payout has its funds: it never ends as failed.
AcceptedIsFunded ==
    \A t \in Txns : gpc[t] = "accepted" => tx[t] # "failed"

\* At rest MongoDB holds what Redis holds, so losing the cache loses nothing.
BooksAgreeAtRest ==
    AtRest /\ redisBalance # Nil => mongoBalance = redisBalance

\* No store call failed, no process died, the lock and the balance key were
\* there for as long as they were needed, the channel took every message, and
\* nobody but the payouts used the balance.  Connections may drop and the
\* account's status may change all the while.
Troubles == {"fault", "crash", "expire", "evict", "refuse"}
Undisturbed ==
    /\ \A k \in Troubles : spent[k] = 0
    /\ \A o \in Operations : opc[o] = "start"

\* The deduction script reports what it stored: no fractions are lost.
Whole(n) == ScriptReply(n) = n
WholeAmounts == Whole(InitialBalance) /\ \A t \in Txns : Whole(Amount[t])

\* What the user's lock is for: while it outlives the payouts it is taken for,
\* handlers do not meet, acceptance is a promise, and both copies of the balance
\* are what the payouts left of it.
LockProtects ==
    WholeAmounts /\ Undisturbed =>
       LedgerExact /\ LoneHandler /\ AcceptedIsFunded /\ BooksAgreeAtRest

\* -------------------------------------------------------------- progress --

\* Every accepted payout is completed or failed in the end, whatever becomes of
\* its lock, its balance key or its worker's connection: only a worker that dies
\* over it leaves it hanging.
AcceptedIsSettled ==
    \A t \in Txns :
       gpc[t] = "accepted" ~> \/ tx[t] \in {"completed", "failed"}
                             \/ spent["crash"] > 0

\* Whoever holds the lock, it is free again later.
LockFreed == \A t \in Txns : lock = t ~> lock # t

\* ---------------------------------------------------------- the abstract ledger --

\* The payouts as the user sees them, and the money where the code keeps it.
LedgerState == [t \in Txns |->
    CASE debits[t] > 0 -> "paid"
      [] debits[t] = 0 /\ gpc[t] = "accepted" -> "accepted"
      [] debits[t] = 0 /\ gpc[t] \in {"rejected", "crashed"} -> "refused"
      [] OTHER -> "asked"]
LedgerBalance == IF redisBalance = Nil THEN mongoBalance ELSE redisBalance

Ledger == INSTANCE PayoutLedger WITH balance <- LedgerBalance, state <- LedgerState

\* The pipeline implements the ledger while nothing fails and the lock does not
\* expire under a payout: acceptance reserves the funds, payment is certain.
ImplementsLedger == Ledger!LedgerSpec

\* --------------------------------------- what comments in the code say, and is not so --

\* worker/index.js:203 "there's nothing to undo": only what a payout took is
\* ever given back.
RefundOnlyWhatWasTaken == \A t \in Txns : credits[t] <= debits[t]

\* worker/index.js:101 "status is processing or failed -- another worker has
\* it": a message dropped at the claim, its transaction not completed, has a
\* handler elsewhere that is still to finish it.
SkippedIsHandled ==
    [][\A s \in Slots :
          /\ wpc[s] = "claim" /\ wpc'[s] = "ack"
          /\ tx[job[s].tx] # "completed"
          => \E u \in Slots : owned[u] /\ job[u].tx = job[s].tx]_vars
=============================================================================
