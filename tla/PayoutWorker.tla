---------------------------- MODULE PayoutWorker ----------------------------
(***************************************************************************)
(* The payout worker: MessageConsumer's delivery, acknowledgement and      *)
(* failure handling around WorkerService.processMessage, one action per    *)
(* await that touches shared state.                                        *)
(***************************************************************************)
EXTENDS PayoutState

Open(p) == channel[p] = "open"

\* Where the catch block starts: with the rollback, unless the error is one of
\* nonRollbackErrors (the balance is missing or does not cover the payout).
OnError_NoRollback == "markFailed"
OnError == "rollback"
OnRefusal_Dropped == "ack"
OnRefusal == "markFailed"

\* The broker hands a message to a free slot; it stays unacknowledged.  The
\* payload is one the gateway built, so its validation always passes.
Deliver(s) ==
    /\ wpc[s] = "idle"
    /\ Open(ProcOf[s])
    /\ \E m \in queue :
          /\ queue' = queue \ {m}
          /\ job' = [job EXCEPT ![s] = m]
    /\ wpc' = [wpc EXCEPT ![s] = "claim"]
    /\ UNCHANGED <<mongoVars, redisVars, dlq, callVars, owned, newBalance,
                   procVars, opVars, spent, history>>

\* claimForProcessing matches only a transaction still "initiated".
Claimable_AnyStatus(t) == tx[t] # "absent"
Claimable_Unfinished(t) == tx[t] \in {"initiated", "processing"}
Claimable(t) == tx[t] = "initiated"

Claim(s) ==
    LET t == job[s].tx IN
    /\ wpc[s] = "claim"
    /\ Claimable(t)
    /\ tx' = [tx EXCEPT ![t] = "processing"]
    /\ Answered(wpc, s, "recheck", OnError)
    /\ owned' = [owned EXCEPT ![s] = wpc'[s] = "recheck"]
    /\ UNCHANGED <<mongoBalance, active, redisVars, brokerVars, callVars, job,
                   newBalance, procVars, opVars, history>>

\* The claim found nothing: the message is acknowledged and dropped.
Skip(s) ==
    /\ wpc[s] = "claim"
    /\ ~Claimable(job[s].tx)
    /\ wpc' = [wpc EXCEPT ![s] = "ack"]
    /\ UNCHANGED <<mongoVars, redisVars, brokerVars, callVars, job, owned,
                   newBalance, procVars, opVars, spent, history>>

\* getBalance: BALANCE_NOT_FOUND and INSUFFICIENT_BALANCE need no rollback.
Recheck(s) ==
    /\ wpc[s] = "recheck"
    /\ wpc' = [wpc EXCEPT ![s] =
                  IF CanDeduct(redisBalance, Amount[job[s].tx])
                  THEN "deduct" ELSE OnRefusal]
    /\ UNCHANGED <<mongoVars, redisVars, brokerVars, callVars, job, owned,
                   newBalance, procVars, opVars, spent, history>>

\* deductBalance, whose reply is what the handler later copies to MongoDB.
Deduct(s) ==
    LET t == job[s].tx
        left == Deducted(redisBalance, Amount[t]) IN
    /\ wpc[s] = "deduct"
    /\ CanDeduct(redisBalance, Amount[t])
    /\ redisBalance' = left
    /\ newBalance' = [newBalance EXCEPT ![s] = ScriptReply(left)]
    /\ debits' = [debits EXCEPT ![t] = @ + 1]
    /\ Answered(wpc, s, "complete", OnError)
    /\ UNCHANGED <<mongoVars, lock, brokerVars, callVars, job, owned, procVars,
                   opVars, credits>>

DeductRefused(s) ==
    /\ wpc[s] = "deduct"
    /\ ~CanDeduct(redisBalance, Amount[job[s].tx])
    /\ wpc' = [wpc EXCEPT ![s] = OnRefusal]
    /\ UNCHANGED <<mongoVars, redisVars, brokerVars, callVars, job, owned,
                   newBalance, procVars, opVars, spent, history>>

\* markAsCompleted: an unconditional save of the claimed document.
Complete(s) ==
    /\ wpc[s] = "complete"
    /\ tx' = [tx EXCEPT ![job[s].tx] = "completed"]
    /\ Answered(wpc, s, "sync", OnError)
    /\ UNCHANGED <<mongoBalance, active, redisVars, brokerVars, callVars, job,
                   owned, newBalance, procVars, opVars, history>>

\* PayoutUser.updateOne: $set balance to what the script reported.
Synced_Stale(s) == mongoBalance
Synced(s) == newBalance[s]

Sync(s) ==
    /\ wpc[s] = "sync"
    /\ mongoBalance' = Synced(s)
    /\ Answered(wpc, s, "unlock", OnError)
    /\ UNCHANGED <<active, tx, redisVars, brokerVars, callVars, job, owned,
                   newBalance, procVars, opVars, history>>

\* lock.release with the lock value the message carries.
Unlock(s) ==
    /\ wpc[s] = "unlock"
    /\ lock' = CompareAndDelete(lock, job[s].tx)
    /\ Answered(wpc, s, "ack", OnError)
    /\ UNCHANGED <<mongoVars, redisBalance, brokerVars, callVars, job, owned,
                   newBalance, procVars, opVars, history>>

\* An await of the try block rejects before it had any effect.
HandlerFault(s) ==
    /\ wpc[s] \in InTry
    /\ Spend("fault")
    /\ wpc' = [wpc EXCEPT ![s] = OnError]
    /\ UNCHANGED <<mongoVars, redisVars, brokerVars, callVars, job, owned,
                   newBalance, procVars, opVars, history>>

\* The catch block adds the amount back for every error it does not know,
\* wherever it came from; a failure to do so is logged and swallowed.
Rollback(s) ==
    LET t == job[s].tx IN
    /\ wpc[s] = "rollback"
    /\ \/ /\ redisBalance' = Credited(redisBalance, Amount[t])
          /\ credits' = [credits EXCEPT ![t] =
                            IF redisBalance = Nil THEN @ ELSE @ + 1]
          /\ UNCHANGED spent
       \/ Spend("fault") /\ UNCHANGED <<redisBalance, credits>>
    /\ wpc' = [wpc EXCEPT ![s] = "markFailed"]
    /\ UNCHANGED <<mongoVars, lock, brokerVars, callVars, job, owned,
                   newBalance, procVars, opVars, debits>>

\* markAsFailed, only on a document this handler claimed.
MarkFailed(s) ==
    /\ wpc[s] = "markFailed"
    /\ \/ tx' = [tx EXCEPT ![job[s].tx] = IF owned[s] THEN "failed" ELSE @]
          /\ UNCHANGED spent
       \/ owned[s] /\ Spend("fault") /\ UNCHANGED tx
    /\ wpc' = [wpc EXCEPT ![s] = "requeue"]
    /\ UNCHANGED <<mongoBalance, active, redisVars, brokerVars, callVars, job,
                   owned, newBalance, procVars, opVars, history>>

\* The slot is free for the next delivery.
Vacate(s) ==
    /\ wpc' = [wpc EXCEPT ![s] = "idle"]
    /\ job' = [job EXCEPT ![s] = Nil]
    /\ owned' = [owned EXCEPT ![s] = FALSE]
    /\ newBalance' = [newBalance EXCEPT ![s] = 0]

\* channel.ack.  On a closed channel it throws, and so does the nack that
\* follows: the broker has the message back already.
Ack(s) ==
    /\ wpc[s] = "ack"
    /\ Vacate(s)
    /\ UNCHANGED <<mongoVars, redisVars, brokerVars, callVars, procVars,
                   opVars, spent, history>>

\* nack(msg, false, false): the broker keeps no copy in the queue.
Requeued_True(m) == {m}
Requeued(m) == {}

RetriesLeft(m) == m.retry + 1 <= MaxRetries

\* _handleFailure: nack without requeue, which dead-letters the message, and
\* while retries are left a timer that publishes it again.
HandleFailure(s) ==
    LET m == job[s]
        p == ProcOf[s] IN
    /\ wpc[s] = "requeue"
    /\ dlq' = IF Open(p) THEN dlq \cup {m} ELSE dlq
    /\ queue' = queue \cup Requeued(m)
    /\ timers' = IF Open(p) /\ RetriesLeft(m)
                 THEN [timers EXCEPT ![p] = @ \cup {[m EXCEPT !.retry = @ + 1]}]
                 ELSE timers
    /\ Vacate(s)
    /\ UNCHANGED <<mongoVars, redisVars, callVars, channel, opVars, spent,
                   history>>

\* The timer fires; on a closed channel sendToQueue throws and the copy is lost.
Republish(p) ==
    \E m \in timers[p] :
       /\ timers' = [timers EXCEPT ![p] = @ \ {m}]
       /\ queue' = IF Open(p) THEN queue \cup {m} ELSE queue
       /\ UNCHANGED <<mongoVars, redisVars, dlq, callVars, slotVars, channel,
                      opVars, spent, history>>

-----------------------------------------------------------------------------
\* What the broker redelivers when it loses process p.
Unacked(p) == {job[s] : s \in {u \in Slots : ProcOf[u] = p /\ wpc[u] # "idle"}}

\* The connection drops: unacknowledged messages go back to the queue while
\* the handlers run on.  The consumer is never set up again on the new
\* connection, so the process receives nothing more until it restarts.
LoseConnection(p) ==
    /\ Open(p)
    /\ Spend("conn")
    /\ channel' = [channel EXCEPT ![p] = "closed"]
    /\ queue' = queue \cup Unacked(p)
    /\ UNCHANGED <<mongoVars, redisVars, dlq, callVars, slotVars, timers,
                   opVars, history>>

\* The process dies, and with it its handlers and retry timers, and restarts.
Restart(p) ==
    /\ Spend("crash")
    /\ channel' = [channel EXCEPT ![p] = "open"]
    /\ timers' = [timers EXCEPT ![p] = {}]
    /\ queue' = IF Open(p) THEN queue \cup Unacked(p) ELSE queue
    /\ wpc' = [s \in Slots |-> IF ProcOf[s] = p THEN "idle" ELSE wpc[s]]
    /\ job' = [s \in Slots |-> IF ProcOf[s] = p THEN Nil ELSE job[s]]
    /\ owned' = [s \in Slots |-> IF ProcOf[s] = p THEN FALSE ELSE owned[s]]
    /\ newBalance' = [s \in Slots |-> IF ProcOf[s] = p THEN 0 ELSE newBalance[s]]
    /\ UNCHANGED <<mongoVars, redisVars, dlq, callVars, opVars, history>>

HandlerStep(s) ==
    \/ Deliver(s) \/ Claim(s) \/ Skip(s) \/ Recheck(s) \/ Deduct(s)
    \/ DeductRefused(s) \/ Complete(s) \/ Sync(s) \/ Unlock(s) \/ Rollback(s)
    \/ MarkFailed(s) \/ Ack(s) \/ HandleFailure(s)
=============================================================================
