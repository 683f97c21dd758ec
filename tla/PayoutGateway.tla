--------------------------- MODULE PayoutGateway ---------------------------
(***************************************************************************)
(* The API gateway's side of a payout: PayoutService.initiatePayout, one   *)
(* action per await that touches shared state, and the catch block that    *)
(* releases the lock.                                                      *)
(***************************************************************************)
EXTENDS PayoutState

\* Where a rejected await leads: the catch block releases the lock only if
\* lockValue was assigned.
Catch(t) == IF held[t] THEN "release" ELSE "rejected"

\* PayoutUser.findByUserId, the IP check (informational) and the currency
\* check, which may turn the call down before any lock is taken.
ReadUser(t) ==
    /\ gpc[t] = "start"
    /\ seen' = [seen EXCEPT ![t] = [balance |-> mongoBalance, active |-> active]]
    /\ \E next \in {"lock", "rejected"} : gpc' = [gpc EXCEPT ![t] = next]
    /\ UNCHANGED <<mongoVars, redisVars, brokerVars, tries, held, slotVars,
                   procVars, opVars, spent, history>>

\* One try of acquireWithRetry.  When the answer to a SET that took effect is
\* lost, the key stays behind and lockValue is still null.
AcquireLock(t) ==
    /\ gpc[t] = "lock"
    /\ lock' = SetNX(lock, t)
    /\ IF lock' = t
       THEN /\ Answered(gpc, t, "account", "rejected")
            /\ held' = [held EXCEPT ![t] = gpc'[t] = "account"]
            /\ UNCHANGED tries
       ELSE /\ tries' = [tries EXCEPT ![t] = @ + 1]
            /\ gpc' = [gpc EXCEPT ![t] =
                          IF tries'[t] = LockAttempts THEN "rejected" ELSE "lock"]
            /\ UNCHANGED <<held, spent>>
    /\ UNCHANGED <<mongoVars, redisBalance, brokerVars, seen, slotVars,
                   procVars, opVars, history>>

\* user.status of the document read before the lock, then the spending limit,
\* which may refuse (its counters are another component's).
CheckAccountAndLimits(t) ==
    /\ gpc[t] = "account"
    /\ \E next \in {"balance", "release"} :
          /\ next = "balance" => seen[t].active
          /\ gpc' = [gpc EXCEPT ![t] = next]
    /\ UNCHANGED <<mongoVars, redisVars, brokerVars, seen, tries, held,
                   slotVars, procVars, opVars, spent, history>>

\* balance.getBalance: a missing key has to be filled first.
ReadBalance(t) ==
    /\ gpc[t] = "balance"
    /\ gpc' = [gpc EXCEPT ![t] = IF redisBalance = Nil THEN "fill" ELSE "funds"]
    /\ UNCHANGED <<mongoVars, redisVars, brokerVars, seen, tries, held,
                   slotVars, procVars, opVars, spent, history>>

\* balance.syncBalance with the balance of the document read before the lock.
FillBalance(t) ==
    /\ gpc[t] = "fill"
    /\ redisBalance' = seen[t].balance
    /\ Answered(gpc, t, "funds", "release")
    /\ UNCHANGED <<mongoVars, lock, brokerVars, seen, tries, held, slotVars,
                   procVars, opVars, history>>

\* balance.hasSufficientBalance: what Redis holds now, not the document read
\* before the lock.
Covers(t) == CanDeduct(redisBalance, Amount[t])

CheckFunds(t) ==
    /\ gpc[t] = "funds"
    /\ gpc' = [gpc EXCEPT ![t] =
                  IF Covers(t) THEN "screen" ELSE "release"]
    /\ UNCHANGED <<mongoVars, redisVars, brokerVars, seen, tries, held,
                   slotVars, procVars, opVars, spent, history>>

\* The fraud score, from an outside service, clears the payout or blocks it.
Screen(t) ==
    /\ gpc[t] = "screen"
    /\ \E next \in {"create", "release"} : gpc' = [gpc EXCEPT ![t] = next]
    /\ UNCHANGED <<mongoVars, redisVars, brokerVars, seen, tries, held,
                   slotVars, procVars, opVars, spent, history>>

\* Transaction.create with status "initiated".
CreateTransaction(t) ==
    /\ gpc[t] = "create"
    /\ tx' = [tx EXCEPT ![t] = "initiated"]
    /\ Answered(gpc, t, "publish", "release")
    /\ UNCHANGED <<mongoBalance, active, redisVars, brokerVars, seen, tries,
                   held, slotVars, procVars, opVars, history>>

\* publishPayoutMessage.  sendToQueue returns false when the channel's write
\* buffer is over its mark; the message is buffered all the same.
Publish(t) ==
    /\ gpc[t] = "publish"
    /\ queue' = queue \cup {[tx |-> t, retry |-> 0]}
    /\ \/ gpc' = [gpc EXCEPT ![t] = "accepted"] /\ UNCHANGED spent
       \/ gpc' = [gpc EXCEPT ![t] = "release"] /\ Spend("refuse")
    /\ UNCHANGED <<mongoVars, redisVars, dlq, seen, tries, held, slotVars,
                   procVars, opVars, history>>

\* The catch block: lock.release.
ReleaseLock(t) ==
    /\ gpc[t] = "release"
    /\ lock' = CompareAndDelete(lock, t)
    /\ gpc' = [gpc EXCEPT ![t] = "rejected"]
    /\ held' = [held EXCEPT ![t] = FALSE]
    /\ UNCHANGED <<mongoVars, redisBalance, brokerVars, seen, tries, slotVars,
                   procVars, opVars, spent, history>>

\* An awaited call rejects before it had any effect (for "publish", the
\* channel is closed).  In the catch block itself nothing is left to try.
CallFault(t) ==
    /\ gpc[t] \in AwaitingCall
    /\ Spend("fault")
    /\ gpc' = [gpc EXCEPT ![t] = IF @ = "release" THEN "rejected" ELSE Catch(t)]
    /\ UNCHANGED <<mongoVars, redisVars, brokerVars, seen, tries, held,
                   slotVars, procVars, opVars, history>>

\* The gateway instance serving the call dies.
CallCrash(t) ==
    /\ gpc[t] \in AwaitingCall
    /\ Spend("crash")
    /\ gpc' = [gpc EXCEPT ![t] = "crashed"]
    /\ UNCHANGED <<mongoVars, redisVars, brokerVars, seen, tries, held,
                   slotVars, procVars, opVars, history>>

GatewayStep(t) ==
    \/ ReadUser(t) \/ AcquireLock(t) \/ CheckAccountAndLimits(t)
    \/ ReadBalance(t) \/ FillBalance(t) \/ CheckFunds(t) \/ Screen(t)
    \/ CreateTransaction(t) \/ Publish(t) \/ ReleaseLock(t)
=============================================================================
