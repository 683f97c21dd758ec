--------------------------- MODULE PayoutAccount ---------------------------
(***************************************************************************)
(* The other users of the account's two balances, none of which takes the  *)
(* lock: PayoutService.getUserBalance (readers), AdminService.adjustBalance*)
(* (adjusters) and AdminService.updateUserStatus.                          *)
(***************************************************************************)
EXTENDS PayoutState

Goto(o, step) == opc' = [opc EXCEPT ![o] = step]

\* getUserBalance: answer from Redis if the key is there.
ReadCached(r) ==
    /\ opc[r] = "start"
    /\ Goto(r, IF redisBalance = Nil THEN "redis" ELSE "done")
    /\ UNCHANGED <<mongoVars, redisVars, brokerVars, callVars, slotVars,
                   procVars, opBalance, spent, history>>

\* ... else read the document ...
ReadStored(r) ==
    /\ opc[r] = "redis"
    /\ Goto(r, "fill")
    /\ opBalance' = [opBalance EXCEPT ![r] = mongoBalance]
    /\ UNCHANGED <<mongoVars, redisVars, brokerVars, callVars, slotVars,
                   procVars, spent, history>>

\* ... and write what it said to Redis (also the last step of an adjustment
\* whose Redis update failed): a plain SET over whatever is there by now.
Fill(o) ==
    /\ opc[o] = "fill"
    /\ redisBalance' = opBalance[o]
    /\ Goto(o, "done")
    /\ UNCHANGED <<mongoVars, lock, brokerVars, callVars, slotVars, procVars,
                   opBalance, spent, history>>

\* adjustBalance: read the document; a debit it does not cover is refused.
AdjustRead(a) ==
    LET new == mongoBalance + AdjustBy[a] IN
    /\ opc[a] = "start"
    /\ IF new < 0 THEN Goto(a, "done") /\ UNCHANGED opBalance
       ELSE Goto(a, "write") /\ opBalance' = [opBalance EXCEPT ![a] = new]
    /\ UNCHANGED <<mongoVars, redisVars, brokerVars, callVars, slotVars,
                   procVars, spent, history>>

\* updateOne: $set the balance computed from that read.
AdjustWrite(a) ==
    /\ opc[a] = "write"
    /\ mongoBalance' = opBalance[a]
    /\ Goto(a, "redis")
    /\ UNCHANGED <<active, tx, redisVars, brokerVars, callVars, slotVars,
                   procVars, opBalance, spent, history>>

\* addBalance or deductBalance (a credit is the deduction of a negative amount:
\* it fails on a missing key only); any exception leads to the overwrite.
AdjustRedis(a) ==
    /\ opc[a] = "redis"
    /\ \/ /\ CanDeduct(redisBalance, -AdjustBy[a])
          /\ redisBalance' = Deducted(redisBalance, -AdjustBy[a])
          /\ Goto(a, "done")
       \/ /\ ~CanDeduct(redisBalance, -AdjustBy[a])
          /\ Goto(a, "fill") /\ UNCHANGED redisBalance
    /\ UNCHANGED <<mongoVars, lock, brokerVars, callVars, slotVars, procVars,
                   opBalance, spent, history>>

\* An await rejects before it had any effect: adjustBalance catches only the
\* failures of its Redis update.
OperationFault(o) ==
    /\ opc[o] # "done"
    /\ Spend("fault")
    /\ Goto(o, IF o \in Adjusters /\ opc[o] = "redis" THEN "fill" ELSE "done")
    /\ UNCHANGED <<mongoVars, redisVars, brokerVars, callVars, slotVars,
                   procVars, opBalance, history>>

\* The gateway instance serving the call dies.
OperationCrash(o) ==
    /\ opc[o] # "done"
    /\ Spend("crash")
    /\ Goto(o, "done")
    /\ UNCHANGED <<mongoVars, redisVars, brokerVars, callVars, slotVars,
                   procVars, opBalance, history>>

\* updateUserStatus.
SetStatus ==
    /\ Spend("admin")
    /\ active' = ~active
    /\ UNCHANGED <<mongoBalance, tx, redisVars, brokerVars, callVars, slotVars,
                   procVars, opVars, history>>

ReaderStep(r) == ReadCached(r) \/ ReadStored(r) \/ Fill(r)
AdjusterStep(a) == AdjustRead(a) \/ AdjustWrite(a) \/ AdjustRedis(a) \/ Fill(a)
=============================================================================
