---------------------------- MODULE PayoutProofs ----------------------------
(***************************************************************************)
(* Theorems about the payout pipeline, for any number of calls, processes  *)
(* and slots and any budget of failures.                                   *)
(***************************************************************************)
EXTENDS PayoutProperties, FiniteSumTheorems

USE PayoutAssumption, RedisAssumption

CallSteps == AwaitingCall \cup CallOver

\* Counting an event keeps the counters typed.
LEMMA SpendTypes ==
    ASSUME TypeOK, NEW kind \in Kinds, Spend(kind)
    PROVE  spent' \in [Kinds -> Nat]
  BY DEF TypeOK, Spend

\* An awaited call that answers, or whose answer is lost, moves only the
\* program counter and the counters.
LEMMA CallAnsweredTypes ==
    ASSUME TypeOK, NEW t \in Txns, NEW next \in CallSteps, NEW err \in CallSteps,
           Answered(gpc, t, next, err)
    PROVE  gpc' \in [Txns -> CallSteps] /\ spent' \in [Kinds -> Nat]
<1>1. CASE gpc' = [gpc EXCEPT ![t] = next] /\ UNCHANGED spent
  BY <1>1 DEF TypeOK, CallSteps
<1>2. CASE gpc' = [gpc EXCEPT ![t] = err] /\ Spend("fault")
  <2>1. spent' \in [Kinds -> Nat]
    BY <1>2, SpendTypes DEF Kinds
  <2> QED
    BY <1>2, <2>1 DEF TypeOK, CallSteps
<1> QED
  BY <1>1, <1>2 DEF Answered

LEMMA SlotAnsweredTypes ==
    ASSUME TypeOK, NEW s \in Slots, NEW next \in SlotSteps, NEW err \in SlotSteps,
           Answered(wpc, s, next, err)
    PROVE  wpc' \in [Slots -> SlotSteps] /\ spent' \in [Kinds -> Nat]
<1>1. CASE wpc' = [wpc EXCEPT ![s] = next] /\ UNCHANGED spent
  BY <1>1 DEF TypeOK
<1>2. CASE wpc' = [wpc EXCEPT ![s] = err] /\ Spend("fault")
  <2>1. spent' \in [Kinds -> Nat]
    BY <1>2, SpendTypes DEF Kinds
  <2> QED
    BY <1>2, <2>1 DEF TypeOK
<1> QED
  BY <1>1, <1>2 DEF Answered

LEMMA GatewayTypes ==
    ASSUME TypeOK, NEW t \in Txns,
           GatewayStep(t) \/ CallFault(t) \/ CallCrash(t)
    PROVE  TypeOK'
<1> USE DEF TypeOK, mongoVars, redisVars, brokerVars, callVars, slotVars,
            procVars, opVars, history, CallSteps, AwaitingCall, CallOver
<1>1. CASE ReadUser(t)
  BY <1>1 DEF ReadUser
<1>2. CASE AcquireLock(t)
  <2>1. lock' \in Txns \cup {Nil}
    BY <1>2 DEF AcquireLock, SetNX
  <2>2. CASE lock' = t
    <3>1. gpc' \in [Txns -> CallSteps] /\ spent' \in [Kinds -> Nat]
      BY <1>2, <2>2, CallAnsweredTypes DEF AcquireLock
    <3> QED
      BY <1>2, <2>1, <2>2, <3>1 DEF AcquireLock
  <2>3. CASE lock' # t
    <3>1. /\ tries' = [tries EXCEPT ![t] = tries[t] + 1]
          /\ \E next \in CallSteps : gpc' = [gpc EXCEPT ![t] = next]
          /\ UNCHANGED <<held, spent>>
      BY <1>2, <2>3 DEF AcquireLock
    <3>2. tries' \in [Txns -> Nat] /\ gpc' \in [Txns -> CallSteps]
      BY <3>1
    <3> QED
      BY <1>2, <2>1, <3>1, <3>2 DEF AcquireLock
  <2> QED
    BY <2>2, <2>3
<1>3. CASE CheckAccountAndLimits(t)
  BY <1>3 DEF CheckAccountAndLimits
<1>4. CASE ReadBalance(t)
  BY <1>4 DEF ReadBalance
<1>5. CASE FillBalance(t)
  <2>1. gpc' \in [Txns -> CallSteps] /\ spent' \in [Kinds -> Nat]
    BY <1>5, CallAnsweredTypes DEF FillBalance
  <2> QED
    BY <1>5, <2>1 DEF FillBalance
<1>6. CASE CheckFunds(t)
  BY <1>6 DEF CheckFunds
<1>7. CASE Screen(t)
  BY <1>7 DEF Screen
<1>8. CASE CreateTransaction(t)
  <2>1. gpc' \in [Txns -> CallSteps] /\ spent' \in [Kinds -> Nat]
    BY <1>8, CallAnsweredTypes DEF CreateTransaction
  <2> QED
    BY <1>8, <2>1 DEF CreateTransaction, TxStatus
<1>9. CASE Publish(t)
  <2>1. gpc' \in [Txns -> CallSteps] /\ spent' \in [Kinds -> Nat]
    <3>1. CASE gpc' = [gpc EXCEPT ![t] = "accepted"] /\ UNCHANGED spent
      BY <3>1
    <3>2. CASE gpc' = [gpc EXCEPT ![t] = "release"] /\ Spend("refuse")
      <4>1. spent' \in [Kinds -> Nat]
        BY <3>2, SpendTypes DEF Kinds
      <4> QED
        BY <3>2, <4>1
    <3> QED
      BY <1>9, <3>1, <3>2 DEF Publish
  <2>2. [tx |-> t, retry |-> 0] \in Messages
    BY DEF Messages
  <2>3. queue' \subseteq Messages
    BY <1>9, <2>2 DEF Publish
  <2> QED
    BY <1>9, <2>1, <2>3 DEF Publish
<1>10. CASE ReleaseLock(t)
  <2>1. lock' \in Txns \cup {Nil}
    BY <1>10 DEF ReleaseLock, CompareAndDelete
  <2> QED
    BY <1>10, <2>1 DEF ReleaseLock
<1>11. CASE CallFault(t)
  <2>1. spent' \in [Kinds -> Nat]
    BY <1>11, SpendTypes DEF CallFault, Kinds
  <2> QED
    BY <1>11, <2>1 DEF CallFault, Catch
<1>12. CASE CallCrash(t)
  <2>1. spent' \in [Kinds -> Nat]
    BY <1>12, SpendTypes DEF CallCrash, Kinds
  <2> QED
    BY <1>12, <2>1 DEF CallCrash
<1> QED
  BY <1>1, <1>2, <1>3, <1>4, <1>5, <1>6, <1>7, <1>8, <1>9, <1>10, <1>11, <1>12
     DEF GatewayStep

\* A slot that is not idle holds a message.
LEMMA JobTyped ==
    ASSUME TypeOK, SlotsBusy, NEW s \in Slots, wpc[s] # "idle"
    PROVE  job[s] \in Messages /\ job[s].tx \in Txns
  BY DEF TypeOK, SlotsBusy, Messages

LEMMA VacateTypes ==
    ASSUME TypeOK, NEW s \in Slots, Vacate(s)
    PROVE  /\ wpc' \in [Slots -> SlotSteps]
           /\ job' \in [Slots -> Messages \cup {Nil}]
           /\ owned' \in [Slots -> BOOLEAN]
           /\ newBalance' \in [Slots -> Int]
  BY DEF TypeOK, Vacate, SlotSteps, InTry

LEMMA HandlerTypes ==
    ASSUME TypeOK, SlotsBusy, NEW s \in Slots, HandlerStep(s) \/ HandlerFault(s)
    PROVE  TypeOK'
<1> DEFINE m == job[s]
           t == job[s].tx
<1> USE DEF TypeOK, mongoVars, redisVars, brokerVars, callVars, slotVars,
            procVars, opVars, history, SlotSteps, InTry, OnError, OnRefusal
<1>1. CASE Deliver(s)
  BY <1>1 DEF Deliver
<1>2. CASE Claim(s)
  <2>1. wpc' \in [Slots -> SlotSteps] /\ spent' \in [Kinds -> Nat]
    BY <1>2, SlotAnsweredTypes DEF Claim
  <2> QED
    BY <1>2, <2>1 DEF Claim, TxStatus
<1>3. CASE Skip(s)
  BY <1>3 DEF Skip
<1>4. CASE Recheck(s)
  BY <1>4 DEF Recheck
<1>5. CASE Deduct(s)
  <2>1. t \in Txns /\ redisBalance \in Int /\ redisBalance >= Amount[t]
    BY <1>5, JobTyped DEF Deduct, CanDeduct
  <2>2. Deducted(redisBalance, Amount[t]) \in Int
    BY <2>1 DEF Deducted
  <2>3. ScriptReply(Deducted(redisBalance, Amount[t])) \in Int
    BY <2>2 DEF ScriptReply
  <2>4. wpc' \in [Slots -> SlotSteps] /\ spent' \in [Kinds -> Nat]
    BY <1>5, SlotAnsweredTypes DEF Deduct
  <2>5. debits' \in [Txns -> Nat]
    BY <1>5, <2>1 DEF Deduct
  <2>6. newBalance' \in [Slots -> Int] /\ redisBalance' \in Int
    BY <1>5, <2>2, <2>3 DEF Deduct
  <2> QED
    BY <1>5, <2>4, <2>5, <2>6 DEF Deduct
<1>6. CASE DeductRefused(s)
  BY <1>6 DEF DeductRefused
<1>7. CASE Complete(s)
  <2>1. wpc' \in [Slots -> SlotSteps] /\ spent' \in [Kinds -> Nat]
    BY <1>7, SlotAnsweredTypes DEF Complete
  <2> QED
    BY <1>7, <2>1 DEF Complete, TxStatus
<1>8. CASE Sync(s)
  <2>1. wpc' \in [Slots -> SlotSteps] /\ spent' \in [Kinds -> Nat]
    BY <1>8, SlotAnsweredTypes DEF Sync
  <2> QED
    BY <1>8, <2>1 DEF Sync, Synced
<1>9. CASE Unlock(s)
  <2>1. wpc' \in [Slots -> SlotSteps] /\ spent' \in [Kinds -> Nat]
    BY <1>9, SlotAnsweredTypes DEF Unlock
  <2>2. lock' \in Txns \cup {Nil}
    BY <1>9 DEF Unlock, CompareAndDelete
  <2> QED
    BY <1>9, <2>1, <2>2 DEF Unlock
<1>10. CASE Rollback(s)
  <2>1. t \in Txns
    BY <1>10, JobTyped DEF Rollback
  <2>2. /\ redisBalance' \in Int \cup {Nil}
        /\ credits' \in [Txns -> Nat]
        /\ spent' \in [Kinds -> Nat]
    <3>1. CASE UNCHANGED spent /\ redisBalance' = Credited(redisBalance, Amount[t])
      BY <1>10, <2>1, <3>1 DEF Rollback, Credited
    <3>2. CASE Spend("fault") /\ UNCHANGED <<redisBalance, credits>>
      BY <3>2, SpendTypes DEF Kinds
    <3> QED
      BY <1>10, <3>1, <3>2 DEF Rollback
  <2> QED
    BY <1>10, <2>2 DEF Rollback
<1>11. CASE MarkFailed(s)
  <2>1. tx' \in [Txns -> TxStatus] /\ spent' \in [Kinds -> Nat]
    <3>1. CASE /\ tx' = [tx EXCEPT ![t] = IF owned[s] THEN "failed" ELSE @]
               /\ UNCHANGED spent
      BY <1>11, <3>1, JobTyped DEF MarkFailed, TxStatus
    <3>2. CASE Spend("fault") /\ UNCHANGED tx
      BY <3>2, SpendTypes DEF Kinds
    <3> QED
      BY <1>11, <3>1, <3>2 DEF MarkFailed
  <2> QED
    BY <1>11, <2>1 DEF MarkFailed
<1>12. CASE Ack(s)
  BY <1>12, VacateTypes DEF Ack
<1>13. CASE HandleFailure(s)
  <2>1. m \in Messages
    BY <1>13, JobTyped DEF HandleFailure
  <2>2. RetriesLeft(m) => [m EXCEPT !.retry = @ + 1] \in Messages
    BY <2>1 DEF Messages, RetriesLeft
  <2>3. timers' \in [Procs -> SUBSET Messages]
    <3>1. CASE Open(ProcOf[s]) /\ RetriesLeft(m)
      BY <1>13, <2>2, <3>1 DEF HandleFailure
    <3>2. CASE ~(Open(ProcOf[s]) /\ RetriesLeft(m))
      BY <1>13, <3>2 DEF HandleFailure
    <3> QED
      BY <3>1, <3>2
  <2>4. dlq' \subseteq Messages /\ queue' \subseteq Messages
    BY <1>13, <2>1 DEF HandleFailure, Requeued
  <2>5. Vacate(s)
    BY <1>13 DEF HandleFailure
  <2> QED
    BY <1>13, <2>3, <2>4, <2>5, VacateTypes DEF HandleFailure
<1>14. CASE HandlerFault(s)
  <2>1. spent' \in [Kinds -> Nat]
    BY <1>14, SpendTypes DEF HandlerFault, Kinds
  <2> QED
    BY <1>14, <2>1 DEF HandlerFault
<1> QED
  BY <1>1, <1>2, <1>3, <1>4, <1>5, <1>6, <1>7, <1>8, <1>9, <1>10, <1>11, <1>12,
     <1>13, <1>14 DEF HandlerStep

\* What a lost process or connection returns to the queue is messages.
LEMMA UnackedTypes ==
    ASSUME TypeOK, SlotsBusy, NEW p \in Procs
    PROVE  Unacked(p) \subseteq Messages
  BY JobTyped DEF Unacked

LEMMA ProcessTypes ==
    ASSUME TypeOK, SlotsBusy, NEW p \in Procs,
           Republish(p) \/ LoseConnection(p) \/ Restart(p)
    PROVE  TypeOK'
<1> USE DEF TypeOK, mongoVars, redisVars, brokerVars, callVars, slotVars,
            procVars, opVars, history
<1>1. CASE Republish(p)
  BY <1>1 DEF Republish
<1>2. CASE LoseConnection(p)
  <2>1. spent' \in [Kinds -> Nat]
    BY <1>2, SpendTypes DEF LoseConnection, Kinds
  <2>2. queue' \subseteq Messages
    BY <1>2, UnackedTypes DEF LoseConnection
  <2> QED
    BY <1>2, <2>1, <2>2 DEF LoseConnection
<1>3. CASE Restart(p)
  <2>1. spent' \in [Kinds -> Nat]
    BY <1>3, SpendTypes DEF Restart, Kinds
  <2>2. queue' \subseteq Messages
    BY <1>3, UnackedTypes DEF Restart
  <2>3. /\ wpc' \in [Slots -> SlotSteps]
        /\ job' \in [Slots -> Messages \cup {Nil}]
        /\ owned' \in [Slots -> BOOLEAN]
        /\ newBalance' \in [Slots -> Int]
    <3>1. wpc' \in [Slots -> SlotSteps]
      <4>1. "idle" \in SlotSteps
        BY DEF SlotSteps
      <4> QED
        BY <1>3, <4>1 DEF Restart
    <3>2. job' \in [Slots -> Messages \cup {Nil}]
      BY <1>3 DEF Restart
    <3>3. owned' \in [Slots -> BOOLEAN]
      BY <1>3 DEF Restart
    <3>4. newBalance' \in [Slots -> Int]
      BY <1>3 DEF Restart
    <3> QED
      BY <3>1, <3>2, <3>3, <3>4
  <2> QED
    BY <1>3, <2>1, <2>2, <2>3 DEF Restart
<1> QED
  BY <1>1, <1>2, <1>3

LEMMA GotoTypes ==
    ASSUME TypeOK, NEW o \in Operations, NEW step \in OpSteps, Goto(o, step)
    PROVE  opc' \in [Operations -> OpSteps]
  BY DEF TypeOK, Goto

LEMMA OperationTypes ==
    ASSUME TypeOK, NEW o \in Operations,
           \/ o \in Readers /\ ReaderStep(o)
           \/ o \in Adjusters /\ AdjusterStep(o)
           \/ OperationFault(o) \/ OperationCrash(o)
    PROVE  TypeOK'
<1> USE DEF TypeOK, mongoVars, redisVars, brokerVars, callVars, slotVars,
            procVars, opVars, history
<1>0. {"start", "write", "redis", "fill", "done"} \subseteq OpSteps
  BY DEF OpSteps
<1>1. CASE ReadCached(o) \/ ReadStored(o) \/ Fill(o)
  <2>1. opc' \in [Operations -> OpSteps]
    BY <1>0, <1>1, GotoTypes DEF ReadCached, ReadStored, Fill
  <2> QED
    BY <1>1, <2>1 DEF ReadCached, ReadStored, Fill
<1>2. CASE o \in Adjusters /\ AdjustRead(o)
  <2>1. AdjustBy[o] \in Int
    BY <1>2
  <2>2. opBalance' \in [Operations -> Int]
    BY <1>2, <2>1 DEF AdjustRead
  <2>3. opc' \in [Operations -> OpSteps]
    BY <1>0, <1>2, GotoTypes DEF AdjustRead
  <2> QED
    BY <1>2, <2>2, <2>3 DEF AdjustRead
<1>3. CASE AdjustWrite(o)
  <2>1. opc' \in [Operations -> OpSteps]
    BY <1>0, <1>3, GotoTypes DEF AdjustWrite
  <2> QED
    BY <1>3, <2>1 DEF AdjustWrite
<1>4. CASE o \in Adjusters /\ AdjustRedis(o)
  <2>1. AdjustBy[o] \in Int
    BY <1>4
  <2>2. redisBalance' \in Int \cup {Nil}
    BY <1>4, <2>1 DEF AdjustRedis, CanDeduct, Deducted
  <2>3. opc' \in [Operations -> OpSteps]
    BY <1>0, <1>4, GotoTypes DEF AdjustRedis
  <2> QED
    BY <1>4, <2>2, <2>3 DEF AdjustRedis
<1>5. CASE OperationFault(o) \/ OperationCrash(o)
  <2>1. spent' \in [Kinds -> Nat]
    BY <1>5, SpendTypes DEF OperationFault, OperationCrash, Kinds
  <2>2. opc' \in [Operations -> OpSteps]
    BY <1>0, <1>5, GotoTypes DEF OperationFault, OperationCrash
  <2> QED
    BY <1>5, <2>1, <2>2 DEF OperationFault, OperationCrash
<1> QED
  BY <1>1, <1>2, <1>3, <1>4, <1>5 DEF ReaderStep, AdjusterStep

LEMMA SurroundingsTypes ==
    ASSUME TypeOK, SetStatus \/ ExpireLock \/ EvictBalance
    PROVE  TypeOK'
<1>1. spent' \in [Kinds -> Nat]
  BY SpendTypes DEF SetStatus, ExpireLock, EvictBalance, Kinds
<1> QED
  BY <1>1 DEF TypeOK, mongoVars, redisVars, brokerVars, callVars, slotVars,
              procVars, opVars, history, SetStatus, ExpireLock, EvictBalance

-----------------------------------------------------------------------------
(* The claim guards the deduction.                                         *)

Core == /\ SlotsBusy /\ OwnerClaimed /\ TryOwned /\ SoleOwner /\ CreatedOnce
        /\ DebitFollowsClaim /\ AtMostOneDebit /\ CompletedMeansDebited

coreVars == <<tx, gpc, wpc, job, owned, debits>>

LEMMA CoreUntouched ==
    ASSUME Core, UNCHANGED coreVars
    PROVE  Core'
  BY DEF Core, coreVars, SlotsBusy, OwnerClaimed, TryOwned, SoleOwner,
         CreatedOnce, DebitFollowsClaim, AtMostOneDebit, CompletedMeansDebited

\* A step of a call that creates nothing never goes back before the creation.
LEMMA CoreCall ==
    ASSUME TypeOK, Core, NEW t \in Txns, NEW next,
           gpc' = [gpc EXCEPT ![t] = next],
           next \in BeforeCreate => gpc[t] \in BeforeCreate,
           UNCHANGED <<tx, wpc, job, owned, debits>>
    PROVE  Core'
<1>1. CreatedOnce'
  BY DEF TypeOK, Core, CreatedOnce
<1>2. /\ SlotsBusy' /\ OwnerClaimed' /\ TryOwned' /\ SoleOwner'
      /\ DebitFollowsClaim' /\ AtMostOneDebit' /\ CompletedMeansDebited'
  BY DEF Core, SlotsBusy, OwnerClaimed, TryOwned, SoleOwner,
         DebitFollowsClaim, AtMostOneDebit, CompletedMeansDebited
<1> QED
  BY <1>1, <1>2 DEF Core

LEMMA CoreCreate ==
    ASSUME TypeOK, Core, NEW t \in Txns, CreateTransaction(t)
    PROVE  Core'
<1> USE DEF CreateTransaction, slotVars, history
<1>1. tx[t] = "absent" /\ tx' = [tx EXCEPT ![t] = "initiated"]
  BY DEF Core, CreatedOnce, BeforeCreate, AwaitingCall
<1>2. /\ gpc' = [gpc EXCEPT ![t] = "publish"] \/ gpc' = [gpc EXCEPT ![t] = "release"]
      /\ UNCHANGED <<wpc, job, owned, debits>>
  BY DEF Answered
<1>3. \A s \in Slots : owned[s] => job[s].tx # t
  BY <1>1 DEF Core, OwnerClaimed, Unclaimed
<1>4. CreatedOnce'
  BY <1>1, <1>2 DEF TypeOK, Core, CreatedOnce, BeforeCreate
<1>5. OwnerClaimed'
  BY <1>1, <1>2, <1>3 DEF TypeOK, Core, OwnerClaimed, Unclaimed
<1>6. DebitFollowsClaim' /\ CompletedMeansDebited'
  BY <1>1, <1>2 DEF TypeOK, Core, DebitFollowsClaim, CompletedMeansDebited,
                    Unclaimed
<1>7. SlotsBusy' /\ TryOwned' /\ SoleOwner' /\ AtMostOneDebit'
  BY <1>2 DEF Core, SlotsBusy, TryOwned, SoleOwner, AtMostOneDebit
<1> QED
  BY <1>4, <1>5, <1>6, <1>7 DEF Core

LEMMA CoreGateway ==
    ASSUME TypeOK, Core, NEW t \in Txns,
           GatewayStep(t) \/ CallFault(t) \/ CallCrash(t)
    PROVE  Core'
<1>1. CASE CreateTransaction(t)
  BY <1>1, CoreCreate
<1>2. CASE ~CreateTransaction(t)
  <2>1. PICK next : gpc' = [gpc EXCEPT ![t] = next]
    BY <1>2 DEF GatewayStep, ReadUser, AcquireLock, CheckAccountAndLimits,
       ReadBalance, FillBalance, CheckFunds, Screen, Publish, ReleaseLock,
       CallFault, CallCrash, Answered
  <2>2. gpc'[t] = next
    BY <2>1 DEF TypeOK
  <2>3. gpc'[t] \in BeforeCreate => gpc[t] \in BeforeCreate
    BY <1>2 DEF GatewayStep, ReadUser, AcquireLock, CheckAccountAndLimits,
       ReadBalance, FillBalance, CheckFunds, Screen, Publish, ReleaseLock,
       CallFault, CallCrash, Catch, Answered, BeforeCreate, AwaitingCall,
       TypeOK, CallOver
  <2>4. UNCHANGED <<tx, wpc, job, owned, debits>>
    BY <1>2 DEF GatewayStep, ReadUser, AcquireLock, CheckAccountAndLimits,
       ReadBalance, FillBalance, CheckFunds, Screen, Publish, ReleaseLock,
       CallFault, CallCrash, mongoVars, slotVars, history
  <2> QED
    BY <2>1, <2>2, <2>3, <2>4, CoreCall
<1> QED
  BY <1>1, <1>2

\* A handler that only moves on keeps Core, if it is entitled to its next step.
LEMMA CoreMove ==
    ASSUME TypeOK, Core, NEW s \in Slots, NEW next \in SlotSteps,
           wpc[s] # "idle",
           wpc' = [wpc EXCEPT ![s] = next],
           next \notin {"idle", "claim", "complete"},
           next \in InTry => owned[s],
           next \in {"recheck", "deduct"} => debits[job[s].tx] = 0,
           UNCHANGED <<tx, gpc, job, owned, debits>>
    PROVE  Core'
<1>1. \A u \in Slots : wpc'[u] = IF u = s THEN next ELSE wpc[u]
  BY DEF TypeOK
<1>2. SlotsBusy' /\ OwnerClaimed' /\ TryOwned'
  BY <1>1 DEF Core, SlotsBusy, OwnerClaimed, TryOwned
<1>3. DebitFollowsClaim'
  BY <1>1 DEF Core, DebitFollowsClaim
<1>4. SoleOwner' /\ CreatedOnce' /\ AtMostOneDebit' /\ CompletedMeansDebited'
  BY DEF Core, SoleOwner, CreatedOnce, AtMostOneDebit, CompletedMeansDebited
<1> QED
  BY <1>2, <1>3, <1>4 DEF Core

LEMMA CoreDeliver ==
    ASSUME TypeOK, Core, NEW s \in Slots, Deliver(s)
    PROVE  Core'
<1> USE DEF Deliver, mongoVars, callVars, history
<1>1. PICK m \in Messages : job' = [job EXCEPT ![s] = m]
  BY DEF TypeOK
<1>2. /\ \A u \in Slots : wpc'[u] = IF u = s THEN "claim" ELSE wpc[u]
      /\ \A u \in Slots : job'[u] = IF u = s THEN m ELSE job[u]
      /\ UNCHANGED <<tx, gpc, owned, debits>>
  BY <1>1 DEF TypeOK
<1>6. ~owned[s] /\ m # Nil
  BY DEF TypeOK, Core, OwnerClaimed
<1>3. SlotsBusy' /\ OwnerClaimed' /\ TryOwned' /\ SoleOwner'
  BY <1>2, <1>6 DEF Core, SlotsBusy, OwnerClaimed, TryOwned, SoleOwner, InTry
<1>4. DebitFollowsClaim'
  BY <1>2 DEF Core, DebitFollowsClaim
<1>5. CreatedOnce' /\ AtMostOneDebit' /\ CompletedMeansDebited'
  BY <1>2 DEF Core, CreatedOnce, AtMostOneDebit, CompletedMeansDebited
<1> QED
  BY <1>3, <1>4, <1>5 DEF Core

LEMMA CoreClaim ==
    ASSUME TypeOK, Core, NEW s \in Slots, Claim(s)
    PROVE  Core'
<1> DEFINE t == job[s].tx
<1> USE DEF Claim, Claimable
<1>1. t \in Txns /\ tx[t] = "initiated" /\ debits[t] = 0
  BY JobTyped DEF Core, DebitFollowsClaim, Unclaimed
<1>2. /\ \A u \in Txns : tx'[u] = IF u = t THEN "processing" ELSE tx[u]
      /\ UNCHANGED <<gpc, job, debits>>
  BY <1>1 DEF TypeOK, callVars, history
<1>3. wpc'[s] \in {"recheck", "rollback"} /\ \A u \in Slots \ {s} : wpc'[u] = wpc[u]
  BY DEF TypeOK, Answered, OnError
<1>4. \A u \in Slots : owned'[u] = IF u = s THEN wpc'[s] = "recheck" ELSE owned[u]
  BY DEF TypeOK
<1>5. \A u \in Slots : owned[u] => job[u].tx # t
  BY <1>1 DEF Core, OwnerClaimed, Unclaimed
<1>6. \A u \in Slots : job[u] # Nil => job[u].tx \in Txns
  BY DEF TypeOK, Messages
<1>7. SlotsBusy' /\ TryOwned' /\ SoleOwner'
  <2>1. SlotsBusy'
    BY <1>2, <1>3, <1>6 DEF Core, SlotsBusy
  <2>2. TryOwned'
    BY <1>3, <1>4 DEF Core, TryOwned, InTry
  <2>3. SoleOwner'
    BY <1>2, <1>4, <1>5 DEF Core, SoleOwner
  <2> QED
    BY <2>1, <2>2, <2>3
<1>8. OwnerClaimed'
  BY <1>1, <1>2, <1>3, <1>4, <1>5, <1>6
     DEF Core, OwnerClaimed, SlotsBusy, Unclaimed
<1>9. DebitFollowsClaim' /\ CompletedMeansDebited'
  BY <1>1, <1>2, <1>3 DEF Core, DebitFollowsClaim, CompletedMeansDebited, Unclaimed
<1>10. CreatedOnce' /\ AtMostOneDebit'
  BY <1>1, <1>2 DEF Core, CreatedOnce, AtMostOneDebit
<1> QED
  BY <1>7, <1>8, <1>9, <1>10 DEF Core

\* The deduction happens in the hands of the only owner, so no other slot's
\* entitlement is about the same transaction.
LEMMA CoreDeduct ==
    ASSUME TypeOK, Core, NEW s \in Slots, Deduct(s)
    PROVE  Core'
<1> DEFINE t == job[s].tx
<1> USE DEF Deduct
<1>1. /\ t \in Txns /\ debits[t] = 0 /\ owned[s]
      /\ tx[t] \notin Unclaimed \cup {"completed"}
  BY JobTyped DEF Core, DebitFollowsClaim, TryOwned, InTry, OwnerClaimed,
                  CompletedMeansDebited
<1>2. /\ \A u \in Txns : debits'[u] = IF u = t THEN 1 ELSE debits[u]
      /\ UNCHANGED <<tx, gpc, job, owned>>
  BY <1>1 DEF TypeOK, mongoVars, callVars
<1>3. wpc'[s] \in {"complete", "rollback"} /\ \A u \in Slots \ {s} : wpc'[u] = wpc[u]
  BY DEF TypeOK, Answered, OnError
<1>4. \A u \in Slots \ {s} : wpc[u] \in InTry \ {"claim"} => job[u].tx # t
  BY <1>1 DEF Core, TryOwned, SoleOwner
<1>5. SlotsBusy' /\ OwnerClaimed' /\ TryOwned' /\ SoleOwner' /\ CreatedOnce'
  BY <1>1, <1>2, <1>3 DEF Core, SlotsBusy, OwnerClaimed, TryOwned, SoleOwner,
                          CreatedOnce, InTry
<1>6. DebitFollowsClaim'
  <2>1. \A u \in Slots : wpc[u] # "idle" => job[u].tx \in Txns
    BY JobTyped DEF Core
  <2> QED
    BY <1>1, <1>2, <1>3, <1>4, <2>1 DEF Core, DebitFollowsClaim, InTry
<1>7. AtMostOneDebit' /\ CompletedMeansDebited'
  BY <1>1, <1>2 DEF Core, AtMostOneDebit, CompletedMeansDebited
<1> QED
  BY <1>5, <1>6, <1>7 DEF Core

LEMMA CoreComplete ==
    ASSUME TypeOK, Core, NEW s \in Slots, Complete(s)
    PROVE  Core'
<1> DEFINE t == job[s].tx
<1> USE DEF Complete
<1>1. t \in Txns /\ debits[t] = 1 /\ owned[s] /\ tx[t] \notin Unclaimed
  BY JobTyped DEF Core, DebitFollowsClaim, TryOwned, InTry, OwnerClaimed
<1>2. /\ \A u \in Txns : tx'[u] = IF u = t THEN "completed" ELSE tx[u]
      /\ UNCHANGED <<gpc, job, owned, debits>>
  BY <1>1 DEF TypeOK, callVars, history
<1>3. wpc'[s] \in {"sync", "rollback"} /\ \A u \in Slots \ {s} : wpc'[u] = wpc[u]
  BY DEF TypeOK, Answered, OnError
<1>4. \A u \in Slots : owned[u] => job[u].tx \in Txns
  BY JobTyped DEF Core, OwnerClaimed
<1>5. SlotsBusy' /\ OwnerClaimed' /\ TryOwned' /\ SoleOwner'
  BY <1>1, <1>2, <1>3, <1>4 DEF Core, SlotsBusy, OwnerClaimed, TryOwned,
                                SoleOwner, InTry, Unclaimed
<1>6. DebitFollowsClaim' /\ CompletedMeansDebited'
  BY <1>1, <1>2, <1>3 DEF Core, DebitFollowsClaim, CompletedMeansDebited, Unclaimed
<1>7. CreatedOnce' /\ AtMostOneDebit'
  BY <1>1, <1>2 DEF Core, CreatedOnce, AtMostOneDebit, Unclaimed
<1> QED
  BY <1>5, <1>6, <1>7 DEF Core

LEMMA CoreMarkFailed ==
    ASSUME TypeOK, Core, NEW s \in Slots, MarkFailed(s)
    PROVE  Core'
<1> DEFINE t == job[s].tx
<1> USE DEF MarkFailed
<1>1. t \in Txns /\ (owned[s] => tx[t] \notin Unclaimed)
  BY JobTyped DEF Core, OwnerClaimed
<1>2. /\ \/ UNCHANGED tx
         \/ owned[s] /\ \A u \in Txns : tx'[u] = IF u = t THEN "failed" ELSE tx[u]
      /\ UNCHANGED <<gpc, job, owned, debits>>
  BY <1>1 DEF TypeOK, callVars, history
<1>3. \A u \in Slots : wpc'[u] = IF u = s THEN "requeue" ELSE wpc[u]
  BY DEF TypeOK
<1>4. \A u \in Slots : owned[u] => job[u].tx \in Txns
  BY JobTyped DEF Core, OwnerClaimed
<1>5. SlotsBusy' /\ OwnerClaimed' /\ TryOwned' /\ SoleOwner'
  BY <1>1, <1>2, <1>3, <1>4 DEF Core, SlotsBusy, OwnerClaimed, TryOwned,
                                SoleOwner, InTry, Unclaimed
<1>6. DebitFollowsClaim' /\ CompletedMeansDebited'
  BY <1>1, <1>2, <1>3 DEF Core, DebitFollowsClaim, CompletedMeansDebited, Unclaimed
<1>7. CreatedOnce' /\ AtMostOneDebit'
  BY <1>1, <1>2 DEF Core, CreatedOnce, AtMostOneDebit, Unclaimed
<1> QED
  BY <1>5, <1>6, <1>7 DEF Core

LEMMA CoreVacate ==
    ASSUME TypeOK, Core, NEW s \in Slots, Vacate(s), UNCHANGED <<tx, gpc, debits>>
    PROVE  Core'
<1> USE DEF Vacate
<1>1. /\ \A u \in Slots : wpc'[u] = IF u = s THEN "idle" ELSE wpc[u]
      /\ \A u \in Slots : job'[u] = IF u = s THEN Nil ELSE job[u]
      /\ \A u \in Slots : owned'[u] = IF u = s THEN FALSE ELSE owned[u]
  BY DEF TypeOK
<1>2. SlotsBusy' /\ OwnerClaimed' /\ TryOwned' /\ SoleOwner'
  <2>1. SlotsBusy'
    BY <1>1 DEF Core, SlotsBusy
  <2>2. OwnerClaimed'
    BY <1>1 DEF Core, OwnerClaimed
  <2>3. TryOwned'
    BY <1>1 DEF Core, TryOwned, InTry
  <2>4. SoleOwner'
    <3>1. \A u \in Slots : owned'[u] => owned[u] /\ job'[u] = job[u]
      BY <1>1
    <3>2. SoleOwner
      BY DEF Core
    <3> HIDE DEF Vacate
    <3> QED
      BY <3>1, <3>2 DEF SoleOwner
  <2> QED
    BY <2>1, <2>2, <2>3, <2>4
<1>3. DebitFollowsClaim'
  BY <1>1 DEF Core, DebitFollowsClaim
<1>4. CreatedOnce' /\ AtMostOneDebit' /\ CompletedMeansDebited'
  BY DEF Core, CreatedOnce, AtMostOneDebit, CompletedMeansDebited
<1> QED
  BY <1>2, <1>3, <1>4 DEF Core

LEMMA CoreHandler ==
    ASSUME TypeOK, Core, NEW s \in Slots, HandlerStep(s) \/ HandlerFault(s)
    PROVE  Core'
<1>1. ASSUME Skip(s) \/ Recheck(s) \/ DeductRefused(s) \/ Sync(s)
             \/ Unlock(s) \/ Rollback(s) \/ HandlerFault(s)
      PROVE  Core'
  <2>1. PICK next \in {"ack", "deduct", "markFailed", "unlock", "rollback"} :
           wpc' = [wpc EXCEPT ![s] = next]
    BY <1>1 DEF Skip, Recheck, DeductRefused, Sync, Unlock, Rollback,
                HandlerFault, Answered, OnError, OnRefusal
  <2>2. wpc[s] # "idle" /\ UNCHANGED <<tx, gpc, job, owned, debits>>
    BY <1>1 DEF Skip, Recheck, DeductRefused, Sync, Unlock, Rollback,
                HandlerFault, InTry, mongoVars, callVars, history
  <2>3. wpc'[s] = next
    BY <2>1 DEF TypeOK
  <2>4. next = "deduct" => wpc[s] = "recheck"
    BY <1>1, <2>3 DEF Skip, Recheck, DeductRefused, Sync, Unlock, Rollback,
                      HandlerFault, Answered, OnError, OnRefusal, TypeOK
  <2>5. next = "unlock" => wpc[s] = "sync"
    BY <1>1, <2>3 DEF Skip, Recheck, DeductRefused, Sync, Unlock, Rollback,
                      HandlerFault, Answered, OnError, OnRefusal, TypeOK
  <2>6. next \in InTry => owned[s]
    BY <2>1, <2>4, <2>5 DEF Core, TryOwned, InTry
  <2>7. next \in {"recheck", "deduct"} => debits[job[s].tx] = 0
    BY <2>1, <2>4 DEF Core, DebitFollowsClaim
  <2>8. next \in SlotSteps /\ next \notin {"idle", "claim", "complete"}
    BY <2>1 DEF SlotSteps, InTry
  <2> QED
    BY <2>1, <2>2, <2>6, <2>7, <2>8, CoreMove
<1>2. ASSUME Ack(s) \/ HandleFailure(s)
      PROVE  Core'
  <2>1. Vacate(s) /\ UNCHANGED <<tx, gpc, debits>>
    BY <1>2 DEF Ack, HandleFailure, mongoVars, callVars, history
  <2> QED
    BY <2>1, CoreVacate
<1> QED
  BY <1>1, <1>2, CoreDeliver, CoreClaim, CoreDeduct, CoreComplete,
     CoreMarkFailed DEF HandlerStep

LEMMA CoreRestart ==
    ASSUME TypeOK, Core, NEW p \in Procs, Restart(p)
    PROVE  Core'
<1> USE DEF Restart
<1>1. /\ \A u \in Slots : wpc'[u] = IF ProcOf[u] = p THEN "idle" ELSE wpc[u]
      /\ \A u \in Slots : job'[u] = IF ProcOf[u] = p THEN Nil ELSE job[u]
      /\ \A u \in Slots : owned'[u] = IF ProcOf[u] = p THEN FALSE ELSE owned[u]
      /\ UNCHANGED <<tx, gpc, debits>>
  BY DEF mongoVars, callVars, history
<1>2. SlotsBusy' /\ OwnerClaimed' /\ TryOwned' /\ SoleOwner'
  BY <1>1 DEF Core, SlotsBusy, OwnerClaimed, TryOwned, SoleOwner, InTry
<1>3. DebitFollowsClaim'
  BY <1>1 DEF Core, DebitFollowsClaim
<1>4. CreatedOnce' /\ AtMostOneDebit' /\ CompletedMeansDebited'
  BY <1>1 DEF Core, CreatedOnce, AtMostOneDebit, CompletedMeansDebited
<1> QED
  BY <1>2, <1>3, <1>4 DEF Core

\* Everything else leaves the claim and the deduction alone.
LEMMA CoreOthers ==
    ASSUME Core,
           \/ \E p \in Procs : Republish(p) \/ LoseConnection(p)
           \/ \E r \in Readers : ReaderStep(r)
           \/ \E a \in Adjusters : AdjusterStep(a)
           \/ \E o \in Operations : OperationFault(o) \/ OperationCrash(o)
           \/ SetStatus \/ ExpireLock \/ EvictBalance
    PROVE  Core'
<1>1. UNCHANGED coreVars
  BY DEF coreVars, mongoVars, callVars, slotVars, history, Republish,
         LoseConnection, ReaderStep, AdjusterStep, ReadCached, ReadStored, Fill,
         AdjustRead, AdjustWrite, AdjustRedis, OperationFault, OperationCrash,
         SetStatus, ExpireLock, EvictBalance
<1> QED
  BY <1>1, CoreUntouched

-----------------------------------------------------------------------------
(* The invariant and what follows from it.                                 *)

LEMMA DebitInvInit == Init => DebitInv
<1> SUFFICES ASSUME Init PROVE DebitInv
  OBVIOUS
<1> USE DEF Init
<1>1. TypeOK
  BY DEF TypeOK, TxStatus, AwaitingCall, SlotSteps, OpSteps
<1>2. SlotsBusy /\ OwnerClaimed /\ TryOwned /\ SoleOwner /\ CreatedOnce
  BY DEF SlotsBusy, OwnerClaimed, TryOwned, SoleOwner, CreatedOnce, InTry
<1>3. DebitFollowsClaim /\ AtMostOneDebit /\ CompletedMeansDebited
  BY DEF DebitFollowsClaim, AtMostOneDebit, CompletedMeansDebited
<1> QED
  BY <1>1, <1>2, <1>3 DEF DebitInv

LEMMA DebitInvNext == DebitInv /\ [Next]_vars => DebitInv'
<1> SUFFICES ASSUME DebitInv, [Next]_vars PROVE DebitInv'
  OBVIOUS
<1>1. TypeOK /\ Core
  BY DEF DebitInv, Core
<1>2. SlotsBusy
  BY <1>1 DEF Core
<1>3. TypeOK' /\ Core' => DebitInv'
  BY DEF DebitInv, Core
<1>4. ASSUME NEW t \in Txns, GatewayStep(t) \/ CallFault(t) \/ CallCrash(t)
      PROVE  DebitInv'
  BY <1>1, <1>3, <1>4, GatewayTypes, CoreGateway
<1>5. ASSUME NEW s \in Slots, HandlerStep(s) \/ HandlerFault(s)
      PROVE  DebitInv'
  BY <1>1, <1>2, <1>3, <1>5, HandlerTypes, CoreHandler
<1>6. ASSUME NEW p \in Procs, Republish(p) \/ LoseConnection(p) \/ Restart(p)
      PROVE  DebitInv'
  <2>1. TypeOK'
    BY <1>1, <1>2, <1>6, ProcessTypes
  <2>2. Core'
    BY <1>1, <1>6, CoreRestart, CoreOthers
  <2> QED
    BY <1>3, <2>1, <2>2
<1>7. ASSUME NEW o \in Operations,
             \/ o \in Readers /\ ReaderStep(o)
             \/ o \in Adjusters /\ AdjusterStep(o)
             \/ OperationFault(o) \/ OperationCrash(o)
      PROVE  DebitInv'
  <2>1. TypeOK'
    BY <1>1, <1>7, OperationTypes
  <2>2. Core'
    BY <1>1, <1>7, CoreOthers
  <2> QED
    BY <1>3, <2>1, <2>2
<1>8. ASSUME SetStatus \/ ExpireLock \/ EvictBalance
      PROVE  DebitInv'
  BY <1>1, <1>3, <1>8, SurroundingsTypes, CoreOthers
<1>9. CASE UNCHANGED vars
  <2>1. TypeOK'
    BY <1>1, <1>9 DEF TypeOK, vars, mongoVars, redisVars, brokerVars, callVars,
                      slotVars, procVars, opVars, history
  <2>2. UNCHANGED coreVars
    BY <1>9 DEF vars, coreVars, mongoVars, callVars, slotVars, history
  <2> QED
    BY <1>1, <1>3, <2>1, <2>2, CoreUntouched
<1> QED
  BY <1>4, <1>5, <1>6, <1>7, <1>8, <1>9
     DEF Next, Progress, Environment, Rest, Operations

\* The state always has its declared types, whatever fails.
THEOREM TypeCorrect == Spec => []TypeOK
<1>1. DebitInv => TypeOK
  BY DEF DebitInv
<1> QED
  BY <1>1, DebitInvInit, DebitInvNext, PTL DEF Spec

\* No payout is deducted twice, for any number of workers, redeliveries,
\* retries, crashes and failed calls.
THEOREM DebitedAtMostOnce == Spec => []AtMostOneDebit
<1>1. DebitInv => AtMostOneDebit
  BY DEF DebitInv
<1> QED
  BY <1>1, DebitInvInit, DebitInvNext, PTL DEF Spec

\* A completed payout was deducted, exactly once.
THEOREM CompletedWasDebited == Spec => []CompletedMeansDebited
<1>1. DebitInv => CompletedMeansDebited
  BY DEF DebitInv
<1> QED
  BY <1>1, DebitInvInit, DebitInvNext, PTL DEF Spec

\* No two handlers ever own the same transaction.
THEOREM OwnerIsAlone == Spec => []SoleOwner
<1>1. DebitInv => SoleOwner
  BY DEF DebitInv
<1> QED
  BY <1>1, DebitInvInit, DebitInvNext, PTL DEF Spec

-----------------------------------------------------------------------------
(* No balance is negative: neither the two that are kept nor any a call or  *)
(* handler has read and may still write.                                   *)

MoneyInv ==
    /\ mongoBalance \in Nat
    /\ redisBalance \in Nat \cup {Nil}
    /\ \A t \in Txns : seen[t].balance \in Nat
    /\ \A s \in Slots : newBalance[s] \in Nat
    /\ \A o \in Operations : opBalance[o] \in Nat

moneyVars == <<mongoBalance, redisBalance, seen, newBalance, opBalance>>

LEMMA MoneyInvInit == Init => MoneyInv
  BY DEF Init, MoneyInv

LEMMA MoneyUntouched ==
    ASSUME MoneyInv, UNCHANGED moneyVars
    PROVE  MoneyInv'
  BY DEF MoneyInv, moneyVars

\* Cutting off the fraction leaves a balance that is not negative.
LEMMA WholeUnits ==
    ASSUME NEW n \in Nat
    PROVE  ScriptReply(n) \in Nat
<1>1. n \div Unit \in Nat
  OBVIOUS
<1>2. \A k, u \in Nat : k * u \in Nat
  OBVIOUS
<1> QED
  BY <1>1, <1>2 DEF ScriptReply

LEMMA GatewayMoney ==
    ASSUME TypeOK, MoneyInv, NEW t \in Txns,
           GatewayStep(t) \/ CallFault(t) \/ CallCrash(t)
    PROVE  MoneyInv'
<1> USE DEF mongoVars, redisVars, slotVars, opVars, callVars
<1>1. CASE ReadUser(t)
  BY <1>1 DEF ReadUser, MoneyInv, TypeOK
<1>2. CASE FillBalance(t)
  BY <1>2 DEF FillBalance, MoneyInv
<1>3. CASE \/ AcquireLock(t) \/ CheckAccountAndLimits(t) \/ ReadBalance(t)
           \/ CheckFunds(t) \/ Screen(t)
  BY <1>3, MoneyUntouched
     DEF AcquireLock, CheckAccountAndLimits, ReadBalance, CheckFunds, Screen, moneyVars
<1>4. CASE \/ CreateTransaction(t) \/ Publish(t) \/ ReleaseLock(t)
           \/ CallFault(t) \/ CallCrash(t)
  BY <1>4, MoneyUntouched
     DEF CreateTransaction, Publish, ReleaseLock, CallFault, CallCrash, moneyVars
<1> QED
  BY <1>1, <1>2, <1>3, <1>4 DEF GatewayStep

LEMMA HandlerMoney ==
    ASSUME TypeOK, SlotsBusy, MoneyInv, NEW s \in Slots,
           HandlerStep(s) \/ HandlerFault(s)
    PROVE  MoneyInv'
<1> USE DEF mongoVars, redisVars, slotVars, opVars, callVars
<1>1. wpc[s] # "idle" => job[s].tx \in Txns /\ Amount[job[s].tx] \in Nat
  BY DEF SlotsBusy, TypeOK, Messages
<1>2. CASE Deduct(s)
  <2>1. Deducted(redisBalance, Amount[job[s].tx]) \in Nat
    BY <1>1, <1>2 DEF Deduct, CanDeduct, Deducted, MoneyInv
  <2>2. ScriptReply(Deducted(redisBalance, Amount[job[s].tx])) \in Nat
    BY <2>1, WholeUnits
  <2> QED
    BY <1>2, <2>1, <2>2 DEF Deduct, MoneyInv, TypeOK
<1>3. CASE Sync(s)
  BY <1>3 DEF Sync, Synced, MoneyInv
<1>4. CASE Rollback(s)
  <2>1. Credited(redisBalance, Amount[job[s].tx]) \in Nat \cup {Nil}
    BY <1>1, <1>4 DEF Rollback, Credited, MoneyInv
  <2> QED
    BY <1>4, <2>1 DEF Rollback, MoneyInv
<1>5. CASE Ack(s) \/ HandleFailure(s)
  BY <1>5 DEF Ack, HandleFailure, Vacate, MoneyInv, TypeOK
<1>6. CASE Deliver(s) \/ Claim(s) \/ Skip(s) \/ Recheck(s) \/ DeductRefused(s)
  BY <1>6, MoneyUntouched
     DEF Deliver, Claim, Skip, Recheck, DeductRefused, moneyVars
<1>7. CASE Complete(s) \/ Unlock(s) \/ MarkFailed(s) \/ HandlerFault(s)
  BY <1>7, MoneyUntouched DEF Complete, Unlock, MarkFailed, HandlerFault, moneyVars
<1> QED
  BY <1>2, <1>3, <1>4, <1>5, <1>6, <1>7 DEF HandlerStep

\* A reader writes what it read; an adjustment computes a balance that is not
\* negative, or subtracts only what Redis has.
LEMMA OperationMoney ==
    ASSUME TypeOK, MoneyInv, NEW o \in Operations,
           \/ o \in Readers /\ ReaderStep(o)
           \/ o \in Adjusters /\ AdjusterStep(o)
           \/ OperationFault(o) \/ OperationCrash(o)
    PROVE  MoneyInv'
<1> USE DEF mongoVars, redisVars, slotVars, opVars, callVars, Goto
<1>1. CASE ReadStored(o)
  BY <1>1 DEF ReadStored, MoneyInv, TypeOK
<1>2. CASE Fill(o)
  BY <1>2 DEF Fill, MoneyInv
<1>3. CASE o \in Adjusters /\ AdjustRead(o)
  <2>1. AdjustBy[o] \in Int
    BY <1>3
  <2>2. mongoBalance + AdjustBy[o] < 0 \/ mongoBalance + AdjustBy[o] \in Nat
    BY <2>1 DEF TypeOK
  <2>3. UNCHANGED <<mongoBalance, redisBalance, seen, newBalance>>
    BY <1>3 DEF AdjustRead
  <2>4. \/ UNCHANGED opBalance
        \/ /\ mongoBalance + AdjustBy[o] \in Nat
           /\ opBalance' = [opBalance EXCEPT ![o] = mongoBalance + AdjustBy[o]]
    BY <1>3, <2>2 DEF AdjustRead
  <2>5. \A u \in Operations : opBalance'[u] \in Nat
    BY <2>4 DEF MoneyInv, TypeOK
  <2> QED
    BY <2>3, <2>5 DEF MoneyInv
<1>4. CASE AdjustWrite(o)
  BY <1>4 DEF AdjustWrite, MoneyInv
<1>5. CASE o \in Adjusters /\ AdjustRedis(o)
  <2>1. AdjustBy[o] \in Int
    BY <1>5
  <2> QED
    BY <1>5, <2>1 DEF AdjustRedis, CanDeduct, Deducted, MoneyInv
<1>6. CASE ReadCached(o) \/ OperationFault(o) \/ OperationCrash(o)
  BY <1>6, MoneyUntouched DEF ReadCached, OperationFault, OperationCrash, moneyVars
<1> QED
  BY <1>1, <1>2, <1>3, <1>4, <1>5, <1>6 DEF ReaderStep, AdjusterStep

LEMMA MoneyInvNext == DebitInv /\ MoneyInv /\ [Next]_vars => MoneyInv'
<1> SUFFICES ASSUME DebitInv, MoneyInv, [Next]_vars PROVE MoneyInv'
  OBVIOUS
<1>1. TypeOK /\ SlotsBusy
  BY DEF DebitInv
<1> USE DEF mongoVars, redisVars, slotVars, opVars, callVars
<1>2. ASSUME NEW p \in Procs, Republish(p) \/ LoseConnection(p)
      PROVE  MoneyInv'
  BY <1>2, MoneyUntouched DEF Republish, LoseConnection, moneyVars
<1>3. ASSUME NEW p \in Procs, Restart(p)
      PROVE  MoneyInv'
  BY <1>3 DEF Restart, MoneyInv
<1>4. CASE SetStatus \/ ExpireLock
  BY <1>4, MoneyUntouched DEF SetStatus, ExpireLock, moneyVars
<1>5. CASE EvictBalance
  BY <1>5 DEF EvictBalance, MoneyInv
<1>6. CASE UNCHANGED vars
  BY <1>6, MoneyUntouched DEF vars, moneyVars
<1> QED
  BY <1>1, <1>2, <1>3, <1>4, <1>5, <1>6, GatewayMoney, HandlerMoney, OperationMoney
     DEF Next, Progress, Environment, Rest, Operations

\* However handlers, rollbacks, cache fills and adjustments interleave, neither
\* balance goes below zero ("balance can never go below zero").
THEOREM NoOverdraft == Spec => []NeverOverdrawn
<1>1. MoneyInv => NeverOverdrawn
  BY DEF MoneyInv, NeverOverdrawn
<1> QED
  BY <1>1, DebitInvInit, DebitInvNext, MoneyInvInit, MoneyInvNext, PTL DEF Spec

-----------------------------------------------------------------------------
(* Who may remove the lock                                                 *)

LockStep ==
    lock # Nil /\ lock' # lock =>
       \/ spent'["expire"] > spent["expire"]
       \/ gpc[lock] = "release" /\ gpc'[lock] = "rejected"
       \/ \E s \in Slots : /\ wpc[s] = "unlock" /\ wpc'[s] # "unlock"
                           /\ job[s].tx = lock

LEMMA LockStepNext == TypeOK /\ [Next]_vars => LockStep
<1> SUFFICES ASSUME TypeOK, [Next]_vars, lock # Nil, lock' # lock PROVE LockStep
  BY DEF LockStep
<1> USE DEF redisVars
<1>1. ASSUME NEW t \in Txns, GatewayStep(t) PROVE LockStep
  <2>1. AcquireLock(t) \/ ReleaseLock(t)
    BY <1>1 DEF GatewayStep, ReadUser, CheckAccountAndLimits, ReadBalance, FillBalance,
                CheckFunds, Screen, CreateTransaction, Publish
  <2>2. ReleaseLock(t) /\ lock = t
    BY <2>1 DEF AcquireLock, SetNX, ReleaseLock, CompareAndDelete
  <2> QED
    BY <2>2 DEF ReleaseLock, LockStep, TypeOK
<1>2. ASSUME NEW s \in Slots, HandlerStep(s) PROVE LockStep
  <2>1. Unlock(s)
    BY <1>2 DEF HandlerStep, Deliver, Claim, Skip, Recheck, Deduct, DeductRefused,
                Complete, Sync, Rollback, MarkFailed, Ack, HandleFailure
  <2>2. lock = job[s].tx
    BY <2>1 DEF Unlock, CompareAndDelete
  <2>3. wpc[s] = "unlock" /\ wpc'[s] # "unlock"
    BY <2>1 DEF Unlock, Answered, OnError, TypeOK
  <2> QED
    BY <2>2, <2>3 DEF LockStep
<1>3. CASE ExpireLock
  BY <1>3 DEF ExpireLock, Spend, TypeOK, Kinds, LockStep
<1>4. ASSUME NEW t \in Txns, CallFault(t) \/ CallCrash(t) PROVE FALSE
  BY <1>4 DEF CallFault, CallCrash
<1>5. ASSUME NEW s \in Slots, HandlerFault(s) PROVE FALSE
  BY <1>5 DEF HandlerFault
<1>6. ASSUME NEW p \in Procs, Republish(p) \/ LoseConnection(p) \/ Restart(p) PROVE FALSE
  BY <1>6 DEF Republish, LoseConnection, Restart
<1>7. ASSUME NEW o, \/ ReaderStep(o) \/ AdjusterStep(o)
                    \/ OperationFault(o) \/ OperationCrash(o) PROVE FALSE
  BY <1>7 DEF ReaderStep, AdjusterStep, ReadCached, ReadStored, Fill, AdjustRead, AdjustWrite,
              AdjustRedis, OperationFault, OperationCrash
<1>8. ~SetStatus /\ ~EvictBalance /\ ~UNCHANGED vars
  BY DEF SetStatus, EvictBalance, vars
<1> QED
  BY <1>1, <1>2, <1>3, <1>4, <1>5, <1>6, <1>7, <1>8 DEF Next, Progress, Environment, Rest

\* A lock is removed by the payout that took it or by its TTL, however slow the
\* holder is (the compare-and-delete script of distributed-lock.service.js).
THEOREM LocksAreLeft == Spec => LockLeftByHolder
<1>1. TypeOK /\ [Next]_vars => LockStep
  BY LockStepNext
<1>2. Spec => [][LockStep]_vars
  BY <1>1, TypeCorrect, PTL DEF Spec
<1> QED
  BY <1>2 DEF LockLeftByHolder, LockStep

-----------------------------------------------------------------------------
(* A failed payout has its money back.                                     *)

\* The counters of the surroundings' events never go back.
LEMMA SpendGrows ==
    ASSUME TypeOK, NEW kind \in Kinds, Spend(kind)
    PROVE  /\ \A k \in Kinds : spent'[k] >= spent[k]
           /\ spent'[kind] >= 1
  BY DEF TypeOK, Spend

LEMMA SpentGrows ==
    ASSUME TypeOK, [Next]_vars
    PROVE  \A k \in Kinds : spent'[k] >= spent[k]
<1>1. \/ UNCHANGED spent
      \/ \E kind \in Kinds : Spend(kind)
  <2>1. ASSUME NEW t \in Txns, GatewayStep(t) \/ CallFault(t) \/ CallCrash(t)
        PROVE  UNCHANGED spent \/ \E kind \in Kinds : Spend(kind)
    BY <2>1 DEF GatewayStep, ReadUser, AcquireLock, CheckAccountAndLimits, ReadBalance,
                FillBalance, CheckFunds, Screen, CreateTransaction, Publish, ReleaseLock,
                CallFault, CallCrash, Answered, Kinds
  <2>2. ASSUME NEW s \in Slots, HandlerStep(s) \/ HandlerFault(s)
        PROVE  UNCHANGED spent \/ \E kind \in Kinds : Spend(kind)
    BY <2>2 DEF HandlerStep, Deliver, Claim, Skip, Recheck, Deduct, DeductRefused, Complete,
                Sync, Unlock, Rollback, MarkFailed, Ack, HandleFailure, HandlerFault,
                Answered, Kinds
  <2>3. ASSUME NEW p \in Procs, Republish(p) \/ LoseConnection(p) \/ Restart(p)
        PROVE  UNCHANGED spent \/ \E kind \in Kinds : Spend(kind)
    BY <2>3 DEF Republish, LoseConnection, Restart, Kinds
  <2>4. ASSUME NEW o \in Operations, \/ ReaderStep(o) \/ AdjusterStep(o)
                                      \/ OperationFault(o) \/ OperationCrash(o)
        PROVE  UNCHANGED spent \/ \E kind \in Kinds : Spend(kind)
    BY <2>4 DEF ReaderStep, AdjusterStep, ReadCached, ReadStored, Fill, AdjustRead,
                AdjustWrite, AdjustRedis, OperationFault, OperationCrash, Kinds
  <2>5. ASSUME SetStatus \/ ExpireLock \/ EvictBalance
        PROVE  \E kind \in Kinds : Spend(kind)
    BY <2>5 DEF SetStatus, ExpireLock, EvictBalance, Kinds
  <2>6. ASSUME UNCHANGED vars
        PROVE  UNCHANGED spent
    BY <2>6 DEF vars
  <2> QED
    BY <2>1, <2>2, <2>3, <2>4, <2>5, <2>6
       DEF Next, Progress, Environment, Rest, Operations
<1>2. CASE UNCHANGED spent
  BY <1>2 DEF TypeOK
<1> QED
  BY <1>1, <1>2, SpendGrows

\* As long as the refund itself cannot fail: what was deducted can be added
\* back, a handler in its catch block had the one failure there is, nobody
\* deducts for a payout that failed, and whoever is through with the rollback
\* has given back what was taken.
Refundable == spent["fault"] <= 1 /\ spent["evict"] = 0
KeyStays == \A t \in Txns : debits[t] > 0 => redisBalance # Nil
ErrorCounted == \A s \in Slots : wpc[s] = "rollback" => spent["fault"] >= 1
DeductsForOpen ==
    \A s \in Slots : wpc[s] \in {"recheck", "deduct"} => tx[job[s].tx] # "failed"
OwnerRefunded ==
    \A s \in Slots : owned[s] /\ wpc[s] \in {"markFailed", "requeue"}
                       => debits[job[s].tx] <= credits[job[s].tx]
FailedRefunded == \A t \in Txns : tx[t] = "failed" => debits[t] <= credits[t]
RefundParts ==
    /\ KeyStays /\ ErrorCounted /\ DeductsForOpen /\ OwnerRefunded /\ FailedRefunded
RefundInv == Refundable => RefundParts

LEMMA RefundInvInit == Init => RefundInv
  BY DEF Init, RefundInv, RefundParts, KeyStays, ErrorCounted, DeductsForOpen,
         OwnerRefunded, FailedRefunded

\* A step that neither deducts nor gives back, marks nothing as failed and brings
\* no handler to a step that RefundParts speaks of.
LEMMA RefundKept ==
    ASSUME TypeOK, SlotsBusy, RefundParts,
           UNCHANGED <<debits, credits>>,
           redisBalance # Nil => redisBalance' # Nil,
           \A t \in Txns : tx'[t] = "failed" => tx[t] = "failed",
           spent'["fault"] \in Nat, spent'["fault"] >= spent["fault"],
           \A s \in Slots :
              \/ wpc'[s] \notin {"rollback", "recheck", "deduct", "markFailed", "requeue"}
              \/ wpc'[s] = wpc[s] /\ job'[s] = job[s] /\ owned'[s] = owned[s]
    PROVE  RefundParts'
<1> USE DEF RefundParts
<1>1. \A s \in Slots : wpc[s] # "idle" => job[s].tx \in Txns
  BY JobTyped
<1>2. KeyStays'
  BY DEF KeyStays
<1>3. ErrorCounted'
  BY DEF ErrorCounted, TypeOK, Kinds
<1>4. DeductsForOpen'
  BY <1>1 DEF DeductsForOpen
<1>5. OwnerRefunded'
  BY DEF OwnerRefunded
<1>6. FailedRefunded'
  BY DEF FailedRefunded
<1> QED
  BY <1>2, <1>3, <1>4, <1>5, <1>6

LEMMA RefundGateway ==
    ASSUME TypeOK, Core, RefundParts, TypeOK', [Next]_vars, NEW t \in Txns,
           GatewayStep(t) \/ CallFault(t) \/ CallCrash(t)
    PROVE  RefundParts'
<1>1. /\ UNCHANGED <<debits, credits, wpc, job, owned>>
      /\ \A u \in Txns : tx'[u] = "failed" => tx[u] = "failed"
  BY DEF GatewayStep, ReadUser, AcquireLock, CheckAccountAndLimits, ReadBalance,
         FillBalance, CheckFunds, Screen, CreateTransaction, Publish, ReleaseLock,
         CallFault, CallCrash, mongoVars, slotVars, history, TypeOK
<1>2. redisBalance # Nil => redisBalance' # Nil
  BY DEF GatewayStep, ReadUser, AcquireLock, CheckAccountAndLimits, ReadBalance,
         FillBalance, CheckFunds, Screen, CreateTransaction, Publish, ReleaseLock,
         CallFault, CallCrash, redisVars, TypeOK
<1>3. spent'["fault"] \in Nat /\ spent'["fault"] >= spent["fault"]
  BY SpentGrows DEF TypeOK, Kinds
<1> QED
  BY <1>1, <1>2, <1>3, RefundKept DEF Core

\* A handler goes to its catch block only for a failure that was counted.
LEMMA RefundAnswered ==
    ASSUME TypeOK, NEW s \in Slots, NEW next \in SlotSteps,
           Answered(wpc, s, next, OnError)
    PROVE  /\ \A u \in Slots \ {s} : wpc'[u] = wpc[u]
           /\ \/ wpc'[s] = next
              \/ wpc'[s] = "rollback" /\ spent'["fault"] >= 1
<1>1. Spend("fault") => spent'["fault"] >= 1
  BY SpendGrows DEF Kinds
<1> QED
  BY <1>1 DEF Answered, OnError, TypeOK

LEMMA RefundHandler ==
    ASSUME TypeOK, Core, RefundParts, TypeOK', [Next]_vars, Refundable', NEW s \in Slots,
           HandlerStep(s) \/ HandlerFault(s)
    PROVE  RefundParts'
<1> DEFINE t == job[s].tx
<1>1. spent["fault"] \in Nat /\ spent'["fault"] \in Nat /\ spent'["fault"] >= spent["fault"]
  BY SpentGrows DEF TypeOK, Kinds
<1>2. \A u \in Slots : wpc[u] # "idle" => job[u].tx \in Txns
  BY JobTyped DEF Core
<1>3. ErrorCounted
  BY DEF RefundParts
<1>4. CASE Deliver(s) \/ Skip(s) \/ Ack(s) \/ HandleFailure(s)
  <2>1. /\ UNCHANGED <<debits, credits, tx, redisBalance>>
        /\ \A u \in Slots \ {s} : wpc'[u] = wpc[u] /\ job'[u] = job[u] /\ owned'[u] = owned[u]
        /\ wpc'[s] \in {"claim", "ack", "idle"}
    BY <1>4 DEF Deliver, Skip, Ack, HandleFailure, Vacate, TypeOK, mongoVars, redisVars,
                history
  <2> QED
    BY <1>1, <2>1, RefundKept DEF Core
<1>5. CASE Claim(s)
  <2>1. /\ UNCHANGED <<debits, credits, redisBalance, job>>
        /\ t \in Txns /\ tx' = [tx EXCEPT ![t] = "processing"]
        /\ \A u \in Slots \ {s} : owned'[u] = owned[u]
    BY <1>2, <1>5 DEF Claim, TypeOK, redisVars, history
  <2>2. /\ \A u \in Slots \ {s} : wpc'[u] = wpc[u]
        /\ \/ wpc'[s] = "recheck"
           \/ wpc'[s] = "rollback" /\ spent'["fault"] >= 1
    BY <1>5, RefundAnswered DEF Claim, SlotSteps, InTry
  <2>3. ErrorCounted'
    BY <1>1, <1>3, <2>2 DEF ErrorCounted
  <2>4. DeductsForOpen'
    BY <1>2, <2>1, <2>2 DEF RefundParts, DeductsForOpen, TypeOK
  <2>5. KeyStays' /\ OwnerRefunded' /\ FailedRefunded'
    BY <2>1, <2>2 DEF RefundParts, KeyStays, OwnerRefunded, FailedRefunded, TypeOK
  <2> QED
    BY <2>3, <2>4, <2>5 DEF RefundParts
<1>6. CASE Recheck(s) \/ DeductRefused(s)
  <2>1. /\ UNCHANGED <<debits, credits, redisBalance, job, tx, owned, spent>>
        /\ \A u \in Slots \ {s} : wpc'[u] = wpc[u]
        /\ wpc'[s] \in {"deduct", "markFailed"} /\ wpc[s] \in {"recheck", "deduct"}
    BY <1>6 DEF Recheck, DeductRefused, OnRefusal, TypeOK, mongoVars, redisVars, history
  <2>2. debits[t] = 0 /\ credits[t] \in Nat
    BY <1>2, <2>1 DEF Core, DebitFollowsClaim, TypeOK
  <2>3. ErrorCounted' /\ DeductsForOpen' /\ OwnerRefunded'
    BY <1>2, <2>1, <2>2 DEF RefundParts, ErrorCounted, DeductsForOpen, OwnerRefunded
  <2>4. KeyStays' /\ FailedRefunded'
    BY <2>1 DEF RefundParts, KeyStays, FailedRefunded
  <2> QED
    BY <2>3, <2>4 DEF RefundParts
<1>7. CASE Deduct(s)
  <2>1. /\ UNCHANGED <<credits, job, tx, owned>>
        /\ t \in Txns /\ debits' = [debits EXCEPT ![t] = @ + 1]
        /\ redisBalance' # Nil
    <3>1. redisBalance \in Int /\ Amount[t] \in Int
      BY <1>2, <1>7 DEF Deduct, CanDeduct, TypeOK
    <3> QED
      BY <1>2, <1>7, <3>1 DEF Deduct, Deducted, mongoVars
  <2>2. /\ \A u \in Slots \ {s} : wpc'[u] = wpc[u]
        /\ \/ wpc'[s] = "complete"
           \/ wpc'[s] = "rollback" /\ spent'["fault"] >= 1
    BY <1>7, RefundAnswered DEF Deduct, SlotSteps, InTry
  <2>3. tx[t] # "failed" /\ owned[s]
    BY <1>7 DEF Deduct, RefundParts, DeductsForOpen, Core, TryOwned, InTry
  <2>4. \A u \in Slots \ {s} : owned[u] => job[u].tx # t
    BY <2>3 DEF Core, SoleOwner
  <2>5. ErrorCounted' /\ DeductsForOpen' /\ KeyStays'
    BY <1>1, <2>1, <2>2 DEF RefundParts, ErrorCounted, DeductsForOpen, KeyStays
  <2>6. OwnerRefunded'
    BY <2>1, <2>2, <2>4 DEF RefundParts, OwnerRefunded, TypeOK
  <2>7. FailedRefunded'
    BY <2>1, <2>3 DEF RefundParts, FailedRefunded, TypeOK
  <2> QED
    BY <2>5, <2>6, <2>7 DEF RefundParts
<1>8. CASE Complete(s) \/ Sync(s) \/ Unlock(s) \/ HandlerFault(s)
  <2>1. /\ UNCHANGED <<debits, credits, redisBalance, job, owned>>
        /\ wpc[s] # "idle"
        /\ \A u \in Txns : tx'[u] = "failed" => tx[u] = "failed"
        /\ \A u \in Txns : tx'[u] = tx[u] \/ tx'[u] = "completed"
    BY <1>8 DEF Complete, Sync, Unlock, HandlerFault, TypeOK, InTry, mongoVars, redisVars,
                slotVars, history
  <2>2. /\ \A u \in Slots \ {s} : wpc'[u] = wpc[u]
        /\ \/ wpc'[s] \in {"sync", "unlock", "ack"}
           \/ wpc'[s] = "rollback" /\ spent'["fault"] >= 1
    <3>1. CASE HandlerFault(s)
      BY <3>1, SpendGrows DEF HandlerFault, OnError, Kinds, TypeOK
    <3>2. CASE Complete(s) \/ Sync(s) \/ Unlock(s)
      BY <3>2, RefundAnswered DEF Complete, Sync, Unlock, SlotSteps, InTry
    <3> QED
      BY <1>8, <3>1, <3>2
  <2>3. ErrorCounted'
    BY <1>1, <1>3, <2>2 DEF ErrorCounted
  <2>4. DeductsForOpen'
    BY <1>2, <2>1, <2>2 DEF RefundParts, DeductsForOpen
  <2>5. KeyStays' /\ OwnerRefunded' /\ FailedRefunded'
    BY <2>1, <2>2 DEF RefundParts, KeyStays, OwnerRefunded, FailedRefunded
  <2> QED
    BY <2>3, <2>4, <2>5 DEF RefundParts
<1>9. CASE Rollback(s)
  <2>1. spent["fault"] >= 1
    BY <1>3, <1>9 DEF Rollback, ErrorCounted
  <2>2. ~Spend("fault")
    BY <1>1, <2>1 DEF Spend, Refundable, Kinds, TypeOK
  <2>3. /\ UNCHANGED <<debits, job, tx, owned>>
        /\ t \in Txns /\ redisBalance' = Credited(redisBalance, Amount[t])
        /\ credits' = [credits EXCEPT ![t] = IF redisBalance = Nil THEN @ ELSE @ + 1]
        /\ \A u \in Slots : wpc'[u] = IF u = s THEN "markFailed" ELSE wpc[u]
    BY <1>2, <1>9, <2>2 DEF Rollback, TypeOK, mongoVars
  <2>4. redisBalance # Nil => redisBalance' # Nil
    BY <2>3 DEF Credited, TypeOK
  <2>5. \A u \in Txns : credits[u] \in Nat /\ credits'[u] \in Nat /\ credits'[u] >= credits[u]
    BY <2>3 DEF TypeOK
  <2>6. debits[t] <= credits'[t]
    <3>1. CASE redisBalance = Nil
      <4>1. debits[t] = 0
        BY <2>3, <3>1 DEF RefundParts, KeyStays, TypeOK
      <4> QED
        BY <2>3, <2>5, <4>1
    <3>2. CASE redisBalance # Nil
      BY <2>3, <2>5, <3>2 DEF Core, AtMostOneDebit, TypeOK
    <3> QED
      BY <3>1, <3>2
  <2>7. \A u \in Txns : debits[u] <= credits[u] => debits[u] <= credits'[u]
    BY <2>5 DEF TypeOK
  <2>8. OwnerRefunded'
    BY <1>2, <2>3, <2>6, <2>7 DEF RefundParts, OwnerRefunded
  <2>9. ErrorCounted' /\ DeductsForOpen'
    BY <1>1, <2>3 DEF RefundParts, ErrorCounted, DeductsForOpen
  <2>10. KeyStays' /\ FailedRefunded'
    BY <2>3, <2>4, <2>7 DEF RefundParts, KeyStays, FailedRefunded
  <2> QED
    BY <2>8, <2>9, <2>10 DEF RefundParts
<1>10. CASE MarkFailed(s)
  <2>1. /\ UNCHANGED <<debits, credits, redisBalance, job, owned>>
        /\ t \in Txns
        /\ \A u \in Slots : wpc'[u] = IF u = s THEN "requeue" ELSE wpc[u]
        /\ wpc[s] = "markFailed"
    BY <1>2, <1>10 DEF MarkFailed, TypeOK, redisVars, history
  <2>2. \/ UNCHANGED tx
        \/ owned[s] /\ tx' = [tx EXCEPT ![t] = "failed"]
    BY <1>10 DEF MarkFailed, TypeOK
  <2>3. ErrorCounted' /\ OwnerRefunded' /\ KeyStays'
    BY <1>1, <2>1 DEF RefundParts, ErrorCounted, OwnerRefunded, KeyStays
  <2>4. DeductsForOpen'
    <3>1. \A u \in Slots \ {s} : owned[s] /\ wpc[u] \in {"recheck", "deduct"} => job[u].tx # t
      BY DEF Core, SoleOwner, TryOwned, InTry
    <3> QED
      BY <1>2, <2>1, <2>2, <3>1 DEF RefundParts, DeductsForOpen, TypeOK
  <2>5. FailedRefunded'
    BY <2>1, <2>2 DEF RefundParts, OwnerRefunded, FailedRefunded, TypeOK
  <2> QED
    BY <2>3, <2>4, <2>5 DEF RefundParts
<1> QED
  BY <1>4, <1>5, <1>6, <1>7, <1>8, <1>9, <1>10 DEF HandlerStep

LEMMA RefundOthers ==
    ASSUME TypeOK, Core, RefundParts, TypeOK', [Next]_vars, Refundable',
           \/ \E p \in Procs : Republish(p) \/ LoseConnection(p) \/ Restart(p)
           \/ \E r \in Readers : ReaderStep(r)
           \/ \E a \in Adjusters : AdjusterStep(a)
           \/ \E o \in Operations : OperationFault(o) \/ OperationCrash(o)
           \/ SetStatus \/ ExpireLock \/ EvictBalance
           \/ UNCHANGED vars
    PROVE  RefundParts'
<1>1. spent'["fault"] \in Nat /\ spent'["fault"] >= spent["fault"]
  BY SpentGrows DEF TypeOK, Kinds
<1>2. ~EvictBalance
  BY SpendGrows DEF EvictBalance, Refundable, TypeOK, Kinds
<1>3. UNCHANGED <<debits, credits, tx>>
  BY <1>2 DEF Republish, LoseConnection, Restart, ReaderStep, AdjusterStep, ReadCached,
       ReadStored, Fill, AdjustRead, AdjustWrite, AdjustRedis, OperationFault, OperationCrash,
       SetStatus, ExpireLock, vars, mongoVars, history
<1>4. redisBalance # Nil => redisBalance' # Nil
  <2>1. ASSUME NEW a \in Adjusters, redisBalance # Nil, AdjustRedis(a)
        PROVE  redisBalance' # Nil
    <3>1. AdjustBy[a] \in Int /\ redisBalance \in Int
      BY <2>1 DEF TypeOK
    <3> QED
      BY <2>1, <3>1 DEF AdjustRedis, Deducted
  <2>2. ASSUME NEW o \in Operations, Fill(o)
        PROVE  redisBalance' # Nil
    BY <2>2 DEF Fill, TypeOK
  <2> QED
    BY <1>2, <2>1, <2>2 DEF Republish, LoseConnection, Restart, ReaderStep, AdjusterStep,
       ReadCached, ReadStored, AdjustRead, AdjustWrite, OperationFault, OperationCrash,
       SetStatus, ExpireLock, vars, redisVars, Operations
<1>5. \A s \in Slots : \/ wpc'[s] = "idle"
                       \/ wpc'[s] = wpc[s] /\ job'[s] = job[s] /\ owned'[s] = owned[s]
  <2>1. ASSUME NEW p \in Procs, Restart(p), NEW s \in Slots
        PROVE  \/ wpc'[s] = "idle"
               \/ wpc'[s] = wpc[s] /\ job'[s] = job[s] /\ owned'[s] = owned[s]
    BY <2>1 DEF Restart
  <2> QED
    BY <1>2, <2>1 DEF Republish, LoseConnection, ReaderStep, AdjusterStep, ReadCached,
       ReadStored, Fill, AdjustRead, AdjustWrite, AdjustRedis, OperationFault, OperationCrash,
       SetStatus, ExpireLock, vars, slotVars
<1> QED
  BY <1>1, <1>3, <1>4, <1>5, RefundKept DEF Core

LEMMA RefundInvNext == DebitInv /\ RefundInv /\ [Next]_vars => RefundInv'
<1> SUFFICES ASSUME DebitInv, RefundInv, [Next]_vars, Refundable' PROVE RefundParts'
  BY DEF RefundInv
<1>1. TypeOK /\ Core /\ TypeOK'
  BY DebitInvNext DEF DebitInv, Core
<1>2. RefundParts
  <2>1. /\ spent["fault"] \in Nat /\ spent'["fault"] \in Nat
        /\ spent["evict"] \in Nat /\ spent'["evict"] \in Nat
    BY <1>1 DEF TypeOK, Kinds
  <2>2. spent'["fault"] >= spent["fault"] /\ spent'["evict"] >= spent["evict"]
    BY <1>1, SpentGrows DEF Kinds
  <2> QED
    BY <2>1, <2>2 DEF RefundInv, Refundable
<1> QED
  BY <1>1, <1>2, RefundGateway, RefundHandler, RefundOthers
     DEF Next, Progress, Environment, Rest

\* "If anything fails, it rolls back the balance and marks the transaction as
\* failed" (worker/index.js): unless a second store call failed, which may be the
\* refund itself, or the balance key was evicted, a failed payout has its money
\* back, for any number of payouts, handlers, redeliveries, crashes, readers and
\* adjustments.
THEOREM FailureRefunds == Spec => []FailedIsRefunded
<1>1. RefundInv => FailedIsRefunded
  BY DEF RefundInv, RefundParts, FailedRefunded, Refundable, FailedIsRefunded
<1> QED
  BY <1>1, DebitInvInit, DebitInvNext, RefundInvInit, RefundInvNext, PTL DEF Spec

-----------------------------------------------------------------------------
(* A message is in one place.                                              *)

\* A slot whose message the broker has not taken back.
Live(s) == wpc[s] # "idle" /\ Open(ProcOf[s])

QueuedOnce == \A m, n \in queue : m.tx = n.tx => m = n
HandledOnce ==
    \A s, u \in Slots : Live(s) /\ Live(u) /\ job[s].tx = job[u].tx => s = u
TimedOnce ==
    \A p, q \in Procs : \A m \in timers[p], n \in timers[q] :
       m.tx = n.tx => p = q /\ m = n
QueuedOrHandled == \A m \in queue, s \in Slots : Live(s) => m.tx # job[s].tx
QueuedOrTimed == \A m \in queue, p \in Procs : \A n \in timers[p] : m.tx # n.tx
HandledOrTimed ==
    \A s \in Slots, p \in Procs : \A n \in timers[p] : Live(s) => job[s].tx # n.tx
Unsent == {t \in Txns : gpc[t] \in BeforeCreate \cup {"publish"}}
NotYetSent ==
    /\ \A m \in queue : m.tx \notin Unsent
    /\ \A s \in Slots : Live(s) => job[s].tx \notin Unsent
    /\ \A p \in Procs : \A n \in timers[p] : n.tx \notin Unsent
CopyInv ==
    /\ QueuedOnce /\ HandledOnce /\ TimedOnce
    /\ QueuedOrHandled /\ QueuedOrTimed /\ HandledOrTimed /\ NotYetSent

LEMMA CopyInvInit == Init => CopyInv
  BY DEF Init, CopyInv, QueuedOnce, HandledOnce, TimedOnce, QueuedOrHandled,
         QueuedOrTimed, HandledOrTimed, NotYetSent, Live

\* Where nothing is added, nothing is there twice.
LEMMA CopyLess ==
    ASSUME CopyInv,
           queue' \subseteq queue, Unsent' \subseteq Unsent,
           \A p \in Procs : timers'[p] \subseteq timers[p],
           \A s \in Slots : Live(s)' => Live(s) /\ job'[s] = job[s]
    PROVE  CopyInv'
<1> USE DEF CopyInv
<1>1. QueuedOnce'
  BY DEF QueuedOnce
<1>2. HandledOnce'
  BY DEF HandledOnce
<1>3. TimedOnce'
  BY DEF TimedOnce
<1>4. QueuedOrHandled' /\ QueuedOrTimed'
  BY DEF QueuedOrHandled, QueuedOrTimed
<1>5. HandledOrTimed'
  BY DEF HandledOrTimed
<1>6. NotYetSent'
  BY DEF NotYetSent
<1> QED
  BY <1>1, <1>2, <1>3, <1>4, <1>5, <1>6

\* The one message of a payout: published where there was none.
LEMMA CopyPublish ==
    ASSUME TypeOK, CopyInv, NEW t \in Txns, Publish(t)
    PROVE  CopyInv'
<1> DEFINE m == [tx |-> t, retry |-> 0]
<1> USE DEF CopyInv
<1>1. /\ queue' = queue \cup {m} /\ m.tx = t
      /\ UNCHANGED <<wpc, job, channel, timers>>
      /\ \A s \in Slots : Live(s)' = Live(s)
  BY DEF Publish, slotVars, procVars, Live, Open
<1>2. t \in Unsent /\ Unsent' \subseteq Unsent \ {t}
  BY DEF Publish, Unsent, BeforeCreate, AwaitingCall, TypeOK
<1>3. QueuedOnce' /\ QueuedOrHandled' /\ QueuedOrTimed'
  BY <1>1, <1>2 DEF NotYetSent, QueuedOnce, QueuedOrHandled, QueuedOrTimed
<1>4. HandledOnce' /\ TimedOnce' /\ HandledOrTimed'
  BY <1>1 DEF HandledOnce, TimedOnce, HandledOrTimed
<1>5. NotYetSent'
  BY <1>1, <1>2 DEF NotYetSent
<1> QED
  BY <1>3, <1>4, <1>5

LEMMA CopyDeliver ==
    ASSUME TypeOK, CopyInv, NEW s \in Slots, Deliver(s)
    PROVE  CopyInv'
<1> USE DEF CopyInv
<1>1. PICK m \in queue : queue' = queue \ {m} /\ job' = [job EXCEPT ![s] = m]
  BY DEF Deliver
<1>2. /\ UNCHANGED <<channel, timers, gpc>> /\ Unsent' = Unsent
      /\ job'[s] = m /\ ~Live(s)
      /\ \A u \in Slots \ {s} : job'[u] = job[u] /\ Live(u)' = Live(u)
  BY <1>1 DEF Deliver, procVars, callVars, Live, Open, Unsent, TypeOK
<1>3. \A n \in queue' : n \in queue /\ n.tx # m.tx
  BY <1>1 DEF QueuedOnce
<1>4. QueuedOnce' /\ TimedOnce' /\ QueuedOrTimed'
  BY <1>2, <1>3 DEF QueuedOnce, TimedOnce, QueuedOrTimed
<1>5. HandledOnce'
  BY <1>1, <1>2 DEF HandledOnce, QueuedOrHandled
<1>6. QueuedOrHandled'
  BY <1>2, <1>3 DEF QueuedOrHandled
<1>7. HandledOrTimed'
  BY <1>1, <1>2 DEF HandledOrTimed, QueuedOrTimed
<1>8. NotYetSent'
  BY <1>1, <1>2, <1>3 DEF NotYetSent
<1> QED
  BY <1>4, <1>5, <1>6, <1>7, <1>8

\* A timer takes over the only copy of a message, which leaves its slot.
LEMMA CopyTimed ==
    ASSUME CopyInv, NEW s \in Slots, Live(s), NEW p \in Procs, NEW n, n.tx = job[s].tx,
           \A q \in Procs : \A k \in timers'[q] : k \in timers[q] \/ (q = p /\ k = n),
           queue' = queue, Unsent' = Unsent, ~Live(s)',
           \A u \in Slots \ {s} : job'[u] = job[u] /\ Live(u)' = Live(u)
    PROVE  CopyInv'
<1> USE DEF CopyInv
<1>1. /\ \A q \in Procs : \A k \in timers[q] : k.tx # n.tx
      /\ \A k \in queue : k.tx # n.tx
      /\ \A u \in Slots \ {s} : Live(u) => job[u].tx # n.tx
      /\ n.tx \notin Unsent
  BY DEF HandledOrTimed, QueuedOrHandled, HandledOnce, NotYetSent
<1>2. QueuedOnce' /\ QueuedOrHandled'
  BY DEF QueuedOnce, QueuedOrHandled
<1>3. HandledOnce'
  BY DEF HandledOnce
<1>4. TimedOnce'
  BY <1>1 DEF TimedOnce
<1>5. QueuedOrTimed'
  BY <1>1 DEF QueuedOrTimed
<1>6. HandledOrTimed'
  BY <1>1 DEF HandledOrTimed
<1>7. NotYetSent'
  BY <1>1 DEF NotYetSent
<1> QED
  BY <1>2, <1>3, <1>4, <1>5, <1>6, <1>7

\* A failed message leaves the slot for a timer, or for good.
LEMMA CopyFailure ==
    ASSUME TypeOK, SlotsBusy, CopyInv, NEW s \in Slots, HandleFailure(s)
    PROVE  CopyInv'
<1> DEFINE m == job[s]
           p == ProcOf[s]
<1>1. /\ UNCHANGED <<queue, channel, gpc>> /\ Unsent' = Unsent
      /\ ~Live(s)'
      /\ \A u \in Slots \ {s} : job'[u] = job[u] /\ Live(u)' = Live(u)
  BY DEF HandleFailure, Requeued, Vacate, callVars, Live, Open, Unsent, TypeOK
<1>2. CASE Open(p) /\ RetriesLeft(m)
  <2>1. PICK n : n = [m EXCEPT !.retry = @ + 1]
    OBVIOUS
  <2>2. Live(s) /\ p \in Procs /\ n.tx = m.tx
    BY <1>2, <2>1, JobTyped DEF HandleFailure, Live, Messages
  <2>3. \A q \in Procs : \A k \in timers'[q] : k \in timers[q] \/ (q = p /\ k = n)
    BY <1>2, <2>1 DEF HandleFailure, TypeOK
  <2> QED
    BY <1>1, <2>2, <2>3, CopyTimed
<1>3. CASE ~(Open(p) /\ RetriesLeft(m))
  <2>1. UNCHANGED timers
    BY <1>3 DEF HandleFailure
  <2> QED
    BY <1>1, <2>1, CopyLess
<1> QED
  BY <1>2, <1>3

LEMMA CopyRepublish ==
    ASSUME TypeOK, CopyInv, NEW p \in Procs, Republish(p)
    PROVE  CopyInv'
<1>1. PICK m \in timers[p] :
         /\ timers' = [timers EXCEPT ![p] = @ \ {m}]
         /\ queue' = IF Open(p) THEN queue \cup {m} ELSE queue
  BY DEF Republish
<1>2. /\ UNCHANGED <<wpc, job, channel>> /\ Unsent' = Unsent
      /\ \A s \in Slots : Live(s)' = Live(s) /\ job'[s] = job[s]
  BY DEF Republish, slotVars, callVars, Live, Open, Unsent
<1>3. /\ \A q \in Procs : timers'[q] \subseteq timers[q]
      /\ m \notin timers'[p]
  BY <1>1 DEF TypeOK
<1>4. CASE ~Open(p)
  BY <1>1, <1>2, <1>3, <1>4, CopyLess
<1>5. CASE Open(p)
  <2> USE DEF CopyInv
  <2>1. queue' = queue \cup {m}
    BY <1>1, <1>5
  <2>2. QueuedOnce'
    BY <2>1 DEF QueuedOnce, QueuedOrTimed
  <2>3. HandledOnce'
    BY <1>2 DEF HandledOnce
  <2>4. TimedOnce'
    BY <1>3 DEF TimedOnce
  <2>5. QueuedOrHandled'
    BY <1>2, <2>1 DEF QueuedOrHandled, HandledOrTimed
  <2>6. QueuedOrTimed'
    BY <1>3, <2>1 DEF QueuedOrTimed, TimedOnce
  <2>7. HandledOrTimed'
    BY <1>2, <1>3 DEF HandledOrTimed
  <2>8. NotYetSent'
    BY <1>2, <1>3, <2>1 DEF NotYetSent
  <2> QED
    BY <2>2, <2>3, <2>4, <2>5, <2>6, <2>7, <2>8
<1> QED
  BY <1>4, <1>5

\* What a lost connection or a dead process had in its slots is in the queue
\* again, and no slot of it is live.
LEMMA CopyTakenBack ==
    ASSUME TypeOK, CopyInv, NEW p \in Procs, LoseConnection(p) \/ Restart(p)
    PROVE  CopyInv'
<1> USE DEF CopyInv
<1>1. /\ \A q \in Procs : timers'[q] \subseteq timers[q]
      /\ Unsent' = Unsent
  BY DEF LoseConnection, Restart, callVars, Unsent, TypeOK
<1>2. \A m \in queue' : \/ m \in queue
                        \/ \E s \in Slots : ProcOf[s] = p /\ Live(s) /\ m = job[s]
  <2>1. \A m \in Unacked(p) : \E s \in Slots : ProcOf[s] = p /\ wpc[s] # "idle" /\ m = job[s]
    BY DEF Unacked
  <2>2. queue' = queue \/ (Open(p) /\ queue' = queue \cup Unacked(p))
    BY DEF LoseConnection, Restart
  <2> QED
    BY <2>1, <2>2 DEF Live
<1>3. \A s \in Slots : /\ ProcOf[s] = p => ~Live(s)'
                       /\ ProcOf[s] # p => Live(s)' = Live(s) /\ job'[s] = job[s]
  <2>1. CASE LoseConnection(p)
    BY <2>1 DEF LoseConnection, slotVars, Live, Open, TypeOK
  <2>2. CASE Restart(p)
    BY <2>2 DEF Restart, Live, Open, TypeOK
  <2> QED
    BY <2>1, <2>2
<1>4. QueuedOnce'
  BY <1>2 DEF QueuedOnce, HandledOnce, QueuedOrHandled
<1>5. HandledOnce'
  BY <1>3 DEF HandledOnce
<1>6. TimedOnce'
  BY <1>1 DEF TimedOnce
<1>7. QueuedOrHandled'
  BY <1>2, <1>3 DEF QueuedOrHandled, HandledOnce
<1>8. QueuedOrTimed'
  BY <1>1, <1>2 DEF QueuedOrTimed, HandledOrTimed
<1>9. HandledOrTimed'
  BY <1>1, <1>3 DEF HandledOrTimed
<1>10. NotYetSent'
  BY <1>1, <1>2, <1>3 DEF NotYetSent
<1> QED
  BY <1>4, <1>5, <1>6, <1>7, <1>8, <1>9, <1>10

LEMMA CopyInvNext == DebitInv /\ CopyInv /\ [Next]_vars => CopyInv'
<1> SUFFICES ASSUME DebitInv, CopyInv, [Next]_vars PROVE CopyInv'
  OBVIOUS
<1>1. TypeOK /\ SlotsBusy
  BY DEF DebitInv
<1>2. ASSUME UNCHANGED <<queue, channel, timers>>, Unsent' \subseteq Unsent,
             \A s \in Slots : wpc'[s] # "idle" => wpc[s] # "idle" /\ job'[s] = job[s]
      PROVE  CopyInv'
  BY <1>2, CopyLess DEF Live, Open
<1>3. ASSUME NEW t \in Txns, GatewayStep(t) \/ CallFault(t) \/ CallCrash(t)
      PROVE  CopyInv'
  <2>1. CASE Publish(t)
    BY <1>1, <2>1, CopyPublish
  <2>2. CASE ~Publish(t)
    <3>1. UNCHANGED <<queue, channel, timers, wpc, job>>
      BY <1>3, <2>2 DEF GatewayStep, ReadUser, AcquireLock, CheckAccountAndLimits,
         ReadBalance, FillBalance, CheckFunds, Screen, CreateTransaction, ReleaseLock,
         CallFault, CallCrash, brokerVars, slotVars, procVars
    <3>2. PICK next : gpc' = [gpc EXCEPT ![t] = next]
      BY <1>3, <2>2 DEF GatewayStep, ReadUser, AcquireLock, CheckAccountAndLimits,
         ReadBalance, FillBalance, CheckFunds, Screen, CreateTransaction, ReleaseLock,
         CallFault, CallCrash, Answered
    <3>3. gpc'[t] \in BeforeCreate \cup {"publish"} => gpc[t] \in BeforeCreate
      BY <1>1, <1>3, <2>2 DEF GatewayStep, ReadUser, AcquireLock, CheckAccountAndLimits,
         ReadBalance, FillBalance, CheckFunds, Screen, CreateTransaction, ReleaseLock,
         CallFault, CallCrash, Catch, Answered, BeforeCreate, AwaitingCall, TypeOK, CallOver
    <3>4. Unsent' \subseteq Unsent
      BY <1>1, <3>2, <3>3 DEF Unsent, TypeOK
    <3> QED
      BY <1>2, <3>1, <3>4
  <2> QED
    BY <2>1, <2>2
<1>4. ASSUME NEW s \in Slots, HandlerStep(s) \/ HandlerFault(s)
      PROVE  CopyInv'
  <2>1. CASE Deliver(s) \/ HandleFailure(s)
    BY <1>1, <2>1, CopyDeliver, CopyFailure
  <2>2. CASE ~(Deliver(s) \/ HandleFailure(s))
    <3>1. UNCHANGED <<queue, channel, timers, gpc>>
      BY <1>4, <2>2 DEF HandlerStep, Claim, Skip, Recheck, Deduct, DeductRefused, Complete,
         Sync, Unlock, Rollback, MarkFailed, Ack, HandlerFault, brokerVars, procVars, callVars
    <3>2. \A u \in Slots : wpc'[u] # "idle" => wpc[u] # "idle" /\ job'[u] = job[u]
      <4>1. CASE Ack(s)
        BY <1>1, <4>1 DEF Ack, Vacate, TypeOK
      <4>2. CASE ~Ack(s)
        <5>1. wpc[s] # "idle" /\ UNCHANGED job
          BY <1>4, <2>2, <4>2 DEF HandlerStep, Claim, Skip, Recheck, Deduct, DeductRefused,
             Complete, Sync, Unlock, Rollback, MarkFailed, HandlerFault, InTry, slotVars
        <5>2. \A u \in Slots \ {s} : wpc'[u] = wpc[u]
          BY <1>1, <1>4, <2>2, <4>2 DEF HandlerStep, Claim, Skip, Recheck, Deduct,
             DeductRefused, Complete, Sync, Unlock, Rollback, MarkFailed, HandlerFault,
             Answered, TypeOK
        <5> QED
          BY <5>1, <5>2
      <4> QED
        BY <4>1, <4>2
    <3> QED
      BY <1>2, <3>1, <3>2 DEF Unsent
  <2> QED
    BY <2>1, <2>2
<1>5. ASSUME NEW p \in Procs, Republish(p) \/ LoseConnection(p) \/ Restart(p)
      PROVE  CopyInv'
  BY <1>1, <1>5, CopyRepublish, CopyTakenBack
<1>6. ASSUME \/ \E o \in Operations : \/ ReaderStep(o) \/ AdjusterStep(o)
                                      \/ OperationFault(o) \/ OperationCrash(o)
             \/ SetStatus \/ ExpireLock \/ EvictBalance \/ UNCHANGED vars
      PROVE  CopyInv'
  <2>1. UNCHANGED <<queue, channel, timers, wpc, job, gpc>>
    BY <1>6 DEF ReaderStep, AdjusterStep, ReadCached, ReadStored, Fill, AdjustRead,
       AdjustWrite, AdjustRedis, OperationFault, OperationCrash, SetStatus, ExpireLock,
       EvictBalance, vars, brokerVars, procVars, slotVars, callVars
  <2> QED
    BY <1>2, <2>1 DEF Unsent
<1> QED
  BY <1>3, <1>4, <1>5, <1>6 DEF Next, Progress, Environment, Rest, Operations

\* At most one place, counted.
LEMMA AtMostOne ==
    ASSUME NEW S, \A x, y \in S : x = y
    PROVE  Cardinality(S) = IF S = {} THEN 0 ELSE 1
<1>1. CASE S = {}
  BY <1>1, FS_EmptySet
<1>2. ASSUME NEW x \in S PROVE Cardinality(S) = 1
  <2>1. S = {x}
    OBVIOUS
  <2> QED
    BY <2>1, FS_Singleton
<1> QED
  BY <1>1, <1>2

\* However often the broker redelivers, the consumer retries and processes die or
\* lose their connections, a payout's message is alive in one place at most: the
\* queue, a slot that may still acknowledge it, or a retry timer.
THEOREM MessageIsUnique == Spec => []OneLiveCopy
<1>1. CopyInv => OneLiveCopy
  <2> SUFFICES ASSUME CopyInv, NEW t \in Txns PROVE LiveCopies(t) <= 1
    BY DEF OneLiveCopy
  <2> DEFINE Q == {m \in queue : m.tx = t}
             S == {s \in Slots : wpc[s] # "idle" /\ job[s].tx = t /\ Open(ProcOf[s])}
             T == {p \in Procs : \E m \in timers[p] : m.tx = t}
  <2>1. Cardinality(Q) = IF Q = {} THEN 0 ELSE 1
    BY AtMostOne DEF CopyInv, QueuedOnce
  <2>2. Cardinality(S) = IF S = {} THEN 0 ELSE 1
    BY AtMostOne DEF CopyInv, HandledOnce, Live
  <2>3. Cardinality(T) = IF T = {} THEN 0 ELSE 1
    BY AtMostOne DEF CopyInv, TimedOnce
  <2>4. (Q = {} \/ S = {}) /\ (Q = {} \/ T = {}) /\ (S = {} \/ T = {})
    BY DEF CopyInv, QueuedOrHandled, QueuedOrTimed, HandledOrTimed, Live
  <2>5. LiveCopies(t) = Cardinality(Q) + Cardinality(S) + Cardinality(T)
    BY DEF LiveCopies
  <2> HIDE DEF Q, S, T
  <2> QED
    BY <2>1, <2>2, <2>3, <2>4, <2>5
<1> QED
  BY <1>1, DebitInvInit, DebitInvNext, CopyInvInit, CopyInvNext, PTL DEF Spec

-----------------------------------------------------------------------------
(* What the lock protects.                                                 *)

\* Who holds the lock: a call from its acceptance by the lock to its end, a
\* created payout until a handler claims it, and that handler until it is done.
Holding == AwaitingCall \ {"start", "lock"}
CallHolds == \A t \in Txns : gpc[t] \in Holding => lock = t
CreatedHolds ==
    \A t \in Txns : tx[t] = "initiated" => gpc[t] \in {"publish", "accepted"} /\ lock = t
HandlerHolds == \A s \in Slots : Handling(s) => lock = job[s].tx

\* Messages are of accepted payouts, no handler fails, and an accepted payout
\* that was not deducted yet waits for its handler or has one about to deduct.
MessagesAccepted ==
    /\ \A m \in queue : gpc[m.tx] = "accepted"
    /\ \A s \in Slots : wpc[s] # "idle" => gpc[job[s].tx] = "accepted"
    /\ \A p \in Procs : timers[p] = {}
AllWell ==
    /\ \A s \in Slots : wpc[s] \in InTry \cup {"idle", "ack"}
    /\ \A t \in Txns : tx[t] # "failed" /\ credits[t] = 0
PublishedIsCreated == \A t \in Txns : gpc[t] = "publish" => tx[t] = "initiated"
DebitedIsAccepted == \A t \in Txns : debits[t] > 0 => gpc[t] = "accepted"
Deducting(s) == wpc[s] \in {"recheck", "deduct"}
AcceptedIsPending ==
    \A t \in Txns : gpc[t] = "accepted" /\ debits[t] = 0 =>
       tx[t] = "initiated" \/ \E s \in Slots : Deducting(s) /\ job[s].tx = t

\* The balance is filled once, from a document nobody has written; the funds a
\* call counted on stay there until its handler has taken them; what a handler
\* is about to copy to MongoDB is what Redis holds.
OpeningBalance ==
    redisBalance = Nil =>
       /\ mongoBalance = InitialBalance
       /\ \A t \in Txns : /\ debits[t] = 0
                          /\ gpc[t] # "start" => seen[t].balance = InitialBalance
FillNeeded == \A t \in Txns : gpc[t] = "fill" => redisBalance = Nil
CountsOnFunds(t) ==
    \/ gpc[t] \in {"screen", "create", "publish"}
    \/ tx[t] = "initiated"
    \/ \E s \in Slots : Deducting(s) /\ job[s].tx = t
FundsKept ==
    \A t \in Txns : CountsOnFunds(t) => CanDeduct(redisBalance, Amount[t])
Copying(s) == wpc[s] \in {"complete", "sync"}
ReportedIsKept == \A s \in Slots : Copying(s) => newBalance[s] = redisBalance
BooksAgree ==
    redisBalance # Nil /\ (\A s \in Slots : ~Copying(s)) => mongoBalance = redisBalance
WholeBalance == redisBalance # Nil => Whole(redisBalance)

Locking ==
    /\ CallHolds /\ CreatedHolds /\ HandlerHolds /\ MessagesAccepted /\ AllWell
    /\ PublishedIsCreated /\ DebitedIsAccepted /\ AcceptedIsPending
Funding ==
    /\ OpeningBalance /\ FillNeeded /\ FundsKept /\ ReportedIsKept /\ BooksAgree
    /\ WholeBalance /\ LedgerExact
LockInv == WholeAmounts /\ Undisturbed => Locking /\ Funding

\* What the payouts took is an integer, changes by the amount of a deduction,
\* and is nothing as long as none was made.
LEMMA TakenChanges ==
    ASSUME TypeOK, NEW t \in Txns,
           debits' = [debits EXCEPT ![t] = @ + 1], UNCHANGED credits
    PROVE  TakenOut \in Int /\ TakenOut' = TakenOut + Amount[t]
<1>1. Taken \in [Txns -> Int] /\ Taken' \in [Txns -> Int]
  <2>1. \A u \in Txns : /\ Amount[u] * (debits[u] - credits[u]) \in Int
                        /\ Amount[u] * (debits'[u] - credits[u]) \in Int
    BY DEF TypeOK
  <2> QED
    BY <2>1 DEF Taken
<1>2. \A u \in Txns \ {t} : Taken'[u] = Taken[u]
  BY DEF Taken, TypeOK
<1>3. Taken'[t] - Taken[t] = Amount[t]
  <2>1. \A a, d, c \in Int : a * ((d + 1) - c) - a * (d - c) = a
    OBVIOUS
  <2>2. debits'[t] = debits[t] + 1 /\ Amount[t] \in Int /\ debits[t] \in Int /\ credits[t] \in Int
    BY DEF TypeOK
  <2>3. /\ Taken[t] = Amount[t] * (debits[t] - credits[t])
        /\ Taken'[t] = Amount[t] * ((debits[t] + 1) - credits[t])
    BY <2>2 DEF Taken
  <2> QED
    BY <2>1, <2>2, <2>3
<1>4. TakenOut' = TakenOut + Taken'[t] - Taken[t]
  BY <1>1, <1>2, SumChange DEF TakenOut
<1>5. TakenOut \in Int
  BY <1>1, SumType DEF TakenOut
<1> QED
  BY <1>1, <1>3, <1>4, <1>5

LEMMA NothingTaken ==
    ASSUME \A t \in Txns : debits[t] = 0 /\ credits[t] = 0
    PROVE  TakenOut = 0
<1>1. Taken = [t \in Txns |-> 0]
  BY DEF Taken
<1> QED
  BY <1>1, SumZero DEF TakenOut

\* Whole units less whole units are whole units.
LEMMA WholeLess ==
    ASSUME NEW n \in Int, NEW m \in Int, Whole(n), Whole(m)
    PROVE  Whole(n - m)
<1> DEFINE j == n \div Unit
           k == m \div Unit
<1>1. n = j * Unit /\ m = k * Unit /\ j \in Int /\ k \in Int
  BY DEF Whole, ScriptReply
<1> HIDE DEF j, k
<1>2. PICK i \in Int : i = j - k
  BY <1>1
<1>3. n - m = i * Unit
  BY <1>1, <1>2
<1>4. (i * Unit) \div Unit = i
  OBVIOUS
<1> QED
  BY <1>3, <1>4 DEF Whole, ScriptReply

LEMMA LockInvInit == Init => LockInv
<1> SUFFICES ASSUME Init PROVE Locking /\ Funding
  BY DEF LockInv
<1>1. Locking
  BY DEF Init, Locking, CallHolds, CreatedHolds, HandlerHolds, Handling, MessagesAccepted,
         AllWell, PublishedIsCreated, DebitedIsAccepted, AcceptedIsPending, Holding
<1>2. Funding
  BY DEF Init, Funding, OpeningBalance, FillNeeded, FundsKept, CountsOnFunds, Deducting,
         ReportedIsKept, Copying, BooksAgree, WholeBalance, LedgerExact
<1> QED
  BY <1>1, <1>2

\* A step that leaves everything undisturbed was undisturbed before, and is none
\* of those that spend an event that disturbs.
LEMMA QuietStep ==
    ASSUME TypeOK, TypeOK', [Next]_vars, Undisturbed'
    PROVE  Undisturbed /\ \A k \in Troubles : ~Spend(k)
<1>1. \A k \in Kinds : spent[k] \in Nat /\ spent'[k] \in Nat /\ spent'[k] >= spent[k]
  BY SpentGrows DEF TypeOK
<1>2. Troubles \subseteq Kinds
  BY DEF Troubles, Kinds
<1>3. \A k \in Troubles : spent[k] = 0 /\ ~Spend(k)
  BY <1>1, <1>2, SpendGrows DEF Undisturbed
<1>4. ASSUME NEW o \in Operations
      PROVE  opc[o] = "start"
  <2>1. opc'[o] = opc[o] \/ opc'[o] \in {"redis", "done", "fill", "write"}
    <3>1. ASSUME NEW u \in Operations, \/ ReaderStep(u) \/ AdjusterStep(u)
                                       \/ OperationFault(u) \/ OperationCrash(u)
          PROVE  \E step \in {"redis", "done", "fill", "write"} : opc' = [opc EXCEPT ![u] = step]
      BY <3>1 DEF ReaderStep, AdjusterStep, ReadCached, ReadStored, Fill, AdjustRead,
         AdjustWrite, AdjustRedis, OperationFault, OperationCrash, Goto
    <3>2. ASSUME NEW t \in Txns, GatewayStep(t) \/ CallFault(t) \/ CallCrash(t)
          PROVE  UNCHANGED opc
      BY <3>2 DEF GatewayStep, ReadUser, AcquireLock, CheckAccountAndLimits, ReadBalance,
         FillBalance, CheckFunds, Screen, CreateTransaction, Publish, ReleaseLock, CallFault,
         CallCrash, opVars
    <3>3. ASSUME NEW s \in Slots, HandlerStep(s) \/ HandlerFault(s)
          PROVE  UNCHANGED opc
      BY <3>3 DEF HandlerStep, Deliver, Claim, Skip, Recheck, Deduct, DeductRefused, Complete,
         Sync, Unlock, Rollback, MarkFailed, Ack, HandleFailure, HandlerFault, opVars
    <3>4. ASSUME NEW p \in Procs, Republish(p) \/ LoseConnection(p) \/ Restart(p)
          PROVE  UNCHANGED opc
      BY <3>4 DEF Republish, LoseConnection, Restart, opVars
    <3>5. ASSUME SetStatus \/ ExpireLock \/ EvictBalance \/ UNCHANGED vars
          PROVE  UNCHANGED opc
      BY <3>5 DEF SetStatus, ExpireLock, EvictBalance, vars, opVars
    <3>6. (\E u \in Operations : \E step \in {"redis", "done", "fill", "write"} :
             opc' = [opc EXCEPT ![u] = step]) \/ UNCHANGED opc
      BY <3>1, <3>2, <3>3, <3>4, <3>5 DEF Next, Progress, Environment, Rest, Operations
    <3> QED
      BY <3>6 DEF TypeOK
  <2> QED
    BY <2>1 DEF Undisturbed
<1> QED
  BY <1>3, <1>4 DEF Undisturbed

\* A call moves on, before its transaction is created or after it was refused:
\* nothing but its place and what it has read changes.
LEMMA LockCallMoves ==
    ASSUME TypeOK, Locking, Funding, NEW t \in Txns, NEW next,
           gpc' = [gpc EXCEPT ![t] = next],
           gpc[t] \notin {"publish", "accepted"},
           next \notin {"start", "publish", "accepted"},
           next \in Holding => lock = t,
           next = "fill" => redisBalance = Nil,
           next \in {"screen", "create"} => CanDeduct(redisBalance, Amount[t]),
           redisBalance = Nil => seen'[t].balance = InitialBalance,
           \A u \in Txns \ {t} : seen'[u] = seen[u],
           UNCHANGED <<mongoBalance, tx, redisBalance, lock, queue, wpc, job, owned,
                       newBalance, timers, debits, credits>>
    PROVE  Locking' /\ Funding'
<1>1. gpc'[t] = next /\ \A u \in Txns \ {t} : gpc'[u] = gpc[u]
  BY DEF TypeOK
<1>2. \A u \in Txns : gpc'[u] \in {"accepted", "publish"} <=> gpc[u] \in {"accepted", "publish"}
  BY <1>1
<1>3. \A u \in Txns : gpc'[u] = "accepted" <=> gpc[u] = "accepted"
  BY <1>1
<1>4. /\ \A m \in queue : m.tx \in Txns
      /\ \A s \in Slots : job[s] # Nil => job[s].tx \in Txns
  BY DEF TypeOK, Messages
<1>5. Locking'
  <2>1. CallHolds' /\ CreatedHolds' /\ HandlerHolds'
    BY <1>1, <1>2 DEF Locking, CallHolds, CreatedHolds, HandlerHolds, Handling
  <2>2. MessagesAccepted'
    <3>1. \A m \in queue : gpc[m.tx] = "accepted" => gpc'[m.tx] = "accepted"
      BY <1>3, <1>4
    <3>2. \A s \in Slots : gpc[job[s].tx] = "accepted" => gpc'[job[s].tx] = "accepted"
      BY <1>1
    <3> QED
      BY <3>1, <3>2 DEF Locking, MessagesAccepted
  <2>3. AllWell' /\ PublishedIsCreated' /\ DebitedIsAccepted' /\ AcceptedIsPending'
    BY <1>1, <1>3 DEF Locking, AllWell, PublishedIsCreated, DebitedIsAccepted,
       AcceptedIsPending, Deducting
  <2> QED
    BY <2>1, <2>2, <2>3 DEF Locking
<1>6. Funding'
  <2>1. OpeningBalance' /\ FillNeeded'
    BY <1>1 DEF Funding, OpeningBalance, FillNeeded
  <2>2. FundsKept'
    BY <1>1 DEF Funding, FundsKept, CountsOnFunds, Deducting
  <2>3. ReportedIsKept' /\ BooksAgree' /\ WholeBalance' /\ LedgerExact'
    BY DEF Funding, ReportedIsKept, BooksAgree, WholeBalance, LedgerExact, Copying,
           TakenOut, Taken
  <2> QED
    BY <2>1, <2>2, <2>3 DEF Funding
<1> QED
  BY <1>5, <1>6

\* Taking the lock when it is free: no call, created payout or handler held it.
LEMMA LockTaken ==
    ASSUME TypeOK, Core, Locking, Funding, NEW t \in Txns, ~Spend("fault"), AcquireLock(t)
    PROVE  Locking' /\ Funding'
<1> USE DEF AcquireLock, mongoVars, brokerVars, slotVars, procVars, history
<1>1. redisBalance = Nil => seen[t].balance = InitialBalance
  BY DEF Funding, OpeningBalance
<1>2. CASE lock' = lock
  <2>1. PICK next \in {"account", "rejected", "lock"} :
           /\ gpc' = [gpc EXCEPT ![t] = next]
           /\ next = "account" => lock = t
    BY <1>2 DEF Answered
  <2>2. /\ next \notin {"start", "publish", "accepted", "fill", "screen", "create"}
        /\ next \in Holding => lock = t
        /\ gpc[t] \notin {"publish", "accepted"}
    BY <2>1 DEF Holding, AwaitingCall
  <2>3. UNCHANGED <<mongoBalance, tx, redisBalance, lock, queue, wpc, job, owned,
                    newBalance, timers, debits, credits, seen>>
    BY <1>2
  <2> QED
    BY <1>1, <2>1, <2>2, <2>3, LockCallMoves
<1>3. CASE lock' # lock
  <2>1. lock = Nil /\ lock' = t
    BY <1>3 DEF SetNX
  <2>2. /\ gpc'[t] = "account" /\ gpc[t] = "lock"
        /\ \A u \in Txns \ {t} : gpc'[u] = gpc[u]
    BY <2>1 DEF Answered, TypeOK
  <2>3. UNCHANGED <<mongoBalance, tx, redisBalance, queue, wpc, job, owned,
                    newBalance, timers, debits, credits, seen>>
    OBVIOUS
  <2>4. /\ \A u \in Txns : gpc[u] \notin Holding /\ tx[u] # "initiated"
        /\ \A s \in Slots : ~Handling(s)
    <3>1. \A s \in Slots : Handling(s) => job[s].tx \in Txns
      BY JobTyped DEF Handling, InTry, Core
    <3> QED
      BY <2>1, <3>1 DEF Locking, CallHolds, CreatedHolds, HandlerHolds
  <2>5. /\ \A m \in queue : m.tx \in Txns
        /\ \A s \in Slots : wpc[s] # "idle" => job[s].tx \in Txns
    BY JobTyped DEF TypeOK, Messages, Core
  <2>6. CallHolds' /\ CreatedHolds' /\ HandlerHolds'
    BY <2>1, <2>2, <2>3, <2>4 DEF CallHolds, CreatedHolds, HandlerHolds, Handling
  <2>7. MessagesAccepted' /\ AllWell'
    BY <2>2, <2>3, <2>5 DEF Locking, MessagesAccepted, AllWell
  <2>8. PublishedIsCreated' /\ DebitedIsAccepted' /\ AcceptedIsPending'
    BY <2>2, <2>3 DEF Locking, PublishedIsCreated, DebitedIsAccepted, AcceptedIsPending,
       Deducting
  <2>9. OpeningBalance' /\ FillNeeded' /\ FundsKept'
    BY <2>2, <2>3 DEF Funding, OpeningBalance, FillNeeded, FundsKept, CountsOnFunds, Deducting
  <2>10. ReportedIsKept' /\ BooksAgree' /\ WholeBalance' /\ LedgerExact'
    BY <2>3 DEF Funding, ReportedIsKept, BooksAgree, WholeBalance, LedgerExact, Copying,
       TakenOut, Taken
  <2> QED
    BY <2>6, <2>7, <2>8, <2>9, <2>10 DEF Locking, Funding
<1> QED
  BY <1>2, <1>3

\* The catch block gives the lock back: the call held it, so no one else did.
LEMMA LockReturned ==
    ASSUME TypeOK, Core, Locking, Funding, NEW t \in Txns, ReleaseLock(t)
    PROVE  Locking' /\ Funding'
<1> USE DEF ReleaseLock, mongoVars, brokerVars, slotVars, procVars, history
<1>1. /\ gpc'[t] = "rejected" /\ gpc[t] = "release" /\ lock = t
      /\ \A u \in Txns \ {t} : gpc'[u] = gpc[u]
  BY DEF TypeOK, Locking, CallHolds, Holding, AwaitingCall
<1>2. UNCHANGED <<mongoBalance, tx, redisBalance, queue, wpc, job, owned,
                  newBalance, timers, debits, credits, seen>>
  OBVIOUS
<1>3. /\ \A u \in Txns : tx[u] # "initiated" /\ gpc'[u] \notin Holding
      /\ \A s \in Slots : ~Handling(s)
  <2>1. \A s \in Slots : Handling(s) => gpc[job[s].tx] = "accepted"
    BY DEF Handling, InTry, Locking, MessagesAccepted
  <2> QED
    BY <1>1, <2>1 DEF Locking, CallHolds, CreatedHolds, HandlerHolds, Holding, AwaitingCall
<1>4. /\ \A m \in queue : m.tx \in Txns
      /\ \A s \in Slots : wpc[s] # "idle" => job[s].tx \in Txns
  BY JobTyped DEF TypeOK, Messages, Core
<1>5. CallHolds' /\ CreatedHolds' /\ HandlerHolds'
  BY <1>2, <1>3 DEF CallHolds, CreatedHolds, HandlerHolds, Handling
<1>6. MessagesAccepted' /\ AllWell'
  BY <1>1, <1>2, <1>4 DEF Locking, MessagesAccepted, AllWell
<1>7. PublishedIsCreated' /\ DebitedIsAccepted' /\ AcceptedIsPending'
  BY <1>1, <1>2 DEF Locking, PublishedIsCreated, DebitedIsAccepted, AcceptedIsPending,
     Deducting
<1>8. OpeningBalance' /\ FillNeeded' /\ FundsKept'
  BY <1>1, <1>2 DEF Funding, OpeningBalance, FillNeeded, FundsKept, CountsOnFunds, Deducting
<1>9. ReportedIsKept' /\ BooksAgree' /\ WholeBalance' /\ LedgerExact'
  BY <1>2 DEF Funding, ReportedIsKept, BooksAgree, WholeBalance, LedgerExact, Copying,
     TakenOut, Taken
<1> QED
  BY <1>5, <1>6, <1>7, <1>8, <1>9 DEF Locking, Funding

\* Nobody counts on funds that are not in Redis, and what is filled in is the
\* opening balance.
LEMMA LockFill ==
    ASSUME TypeOK, Core, WholeAmounts, Locking, Funding, NEW t \in Txns,
           ~Spend("fault"), FillBalance(t)
    PROVE  Locking' /\ Funding'
<1> USE DEF FillBalance, mongoVars, brokerVars, slotVars, procVars, history
<1>1. /\ gpc'[t] = "funds" /\ gpc[t] = "fill" /\ lock = t
      /\ \A u \in Txns \ {t} : gpc'[u] = gpc[u]
  BY DEF Answered, TypeOK, Locking, CallHolds, Holding, AwaitingCall
<1>2. UNCHANGED <<mongoBalance, tx, lock, queue, wpc, job, owned,
                  newBalance, timers, debits, credits, seen>>
  OBVIOUS
<1>3. /\ redisBalance = Nil /\ redisBalance' = InitialBalance
      /\ mongoBalance = InitialBalance /\ \A u \in Txns : debits[u] = 0
  BY <1>1 DEF Funding, FillNeeded, OpeningBalance
<1>4. /\ \A u \in Txns : ~CountsOnFunds(u)
      /\ \A s \in Slots : ~Copying(s)
  BY <1>3 DEF Funding, FundsKept, CanDeduct, ReportedIsKept, TypeOK
<1>5. /\ \A m \in queue : m.tx \in Txns
      /\ \A s \in Slots : wpc[s] # "idle" => job[s].tx \in Txns
  BY JobTyped DEF TypeOK, Messages, Core
<1>6. CallHolds' /\ CreatedHolds' /\ HandlerHolds'
  BY <1>1, <1>2 DEF Locking, CallHolds, CreatedHolds, HandlerHolds, Handling
<1>7. MessagesAccepted' /\ AllWell'
  BY <1>1, <1>2, <1>5 DEF Locking, MessagesAccepted, AllWell
<1>8. PublishedIsCreated' /\ DebitedIsAccepted' /\ AcceptedIsPending'
  BY <1>1, <1>2 DEF Locking, PublishedIsCreated, DebitedIsAccepted, AcceptedIsPending,
     Deducting
<1>9. OpeningBalance' /\ FillNeeded'
  BY <1>1, <1>3 DEF FillNeeded, OpeningBalance, Locking, CallHolds, Holding, AwaitingCall
<1>10. FundsKept' /\ ReportedIsKept'
  BY <1>1, <1>2, <1>4 DEF FundsKept, CountsOnFunds, Deducting, ReportedIsKept, Copying
<1>11. BooksAgree' /\ WholeBalance'
  BY <1>2, <1>3 DEF BooksAgree, WholeBalance, WholeAmounts
<1>12. LedgerExact'
  <2>1. TakenOut' = 0
    BY <1>2, <1>3, NothingTaken DEF TakenOut, Taken, Locking, AllWell
  <2> QED
    BY <1>3, <2>1 DEF LedgerExact
<1> QED
  BY <1>6, <1>7, <1>8, <1>9, <1>10, <1>11, <1>12 DEF Locking, Funding

LEMMA LockCreate ==
    ASSUME TypeOK, Core, Locking, Funding, NEW t \in Txns,
           ~Spend("fault"), CreateTransaction(t)
    PROVE  Locking' /\ Funding'
<1> USE DEF CreateTransaction, redisVars, brokerVars, slotVars, procVars, history
<1>1. /\ gpc'[t] = "publish" /\ gpc[t] = "create" /\ lock = t
      /\ \A u \in Txns \ {t} : gpc'[u] = gpc[u]
  BY DEF Answered, TypeOK, Locking, CallHolds, Holding, AwaitingCall
<1>2. /\ UNCHANGED <<mongoBalance, redisBalance, lock, queue, wpc, job, owned,
                     newBalance, timers, debits, credits, seen>>
      /\ tx[t] = "absent" /\ tx'[t] = "initiated"
      /\ \A u \in Txns \ {t} : tx'[u] = tx[u]
  BY <1>1 DEF TypeOK, Core, CreatedOnce, BeforeCreate, AwaitingCall
<1>3. /\ \A m \in queue : m.tx \in Txns
      /\ \A s \in Slots : wpc[s] # "idle" => job[s].tx \in Txns
  BY JobTyped DEF TypeOK, Messages, Core
<1>4. CallHolds' /\ CreatedHolds' /\ HandlerHolds'
  BY <1>1, <1>2 DEF Locking, CallHolds, CreatedHolds, HandlerHolds, Handling
<1>5. MessagesAccepted' /\ AllWell'
  BY <1>1, <1>2, <1>3 DEF Locking, MessagesAccepted, AllWell
<1>6. PublishedIsCreated' /\ DebitedIsAccepted' /\ AcceptedIsPending'
  BY <1>1, <1>2 DEF Locking, PublishedIsCreated, DebitedIsAccepted, AcceptedIsPending,
     Deducting
<1>7. OpeningBalance' /\ FillNeeded' /\ FundsKept'
  BY <1>1, <1>2 DEF Funding, OpeningBalance, FillNeeded, FundsKept, CountsOnFunds, Deducting
<1>8. ReportedIsKept' /\ BooksAgree' /\ WholeBalance' /\ LedgerExact'
  BY <1>2 DEF Funding, ReportedIsKept, BooksAgree, WholeBalance, LedgerExact, Copying,
     TakenOut, Taken
<1> QED
  BY <1>4, <1>5, <1>6, <1>7, <1>8 DEF Locking, Funding

LEMMA LockPublish ==
    ASSUME TypeOK, Core, Locking, Funding, NEW t \in Txns,
           ~Spend("refuse"), Publish(t)
    PROVE  Locking' /\ Funding'
<1> USE DEF Publish, mongoVars, redisVars, slotVars, procVars, history
<1>1. /\ gpc'[t] = "accepted" /\ gpc[t] = "publish" /\ lock = t /\ tx[t] = "initiated"
      /\ \A u \in Txns \ {t} : gpc'[u] = gpc[u]
  BY DEF TypeOK, Locking, CallHolds, PublishedIsCreated, Holding, AwaitingCall
<1>2. UNCHANGED <<mongoBalance, redisBalance, lock, tx, wpc, job, owned,
                  newBalance, timers, debits, credits, seen>>
  OBVIOUS
<1>3. /\ \A m \in queue' : m \in queue \/ m.tx = t
      /\ \A m \in queue : m.tx \in Txns
      /\ \A s \in Slots : wpc[s] # "idle" => job[s].tx \in Txns
  BY JobTyped DEF TypeOK, Messages, Core
<1>4. CallHolds' /\ CreatedHolds' /\ HandlerHolds'
  BY <1>1, <1>2 DEF Locking, CallHolds, CreatedHolds, HandlerHolds, Handling, Holding,
     AwaitingCall
<1>5. MessagesAccepted' /\ AllWell'
  BY <1>1, <1>2, <1>3 DEF Locking, MessagesAccepted, AllWell
<1>6. PublishedIsCreated' /\ DebitedIsAccepted' /\ AcceptedIsPending'
  BY <1>1, <1>2 DEF Locking, PublishedIsCreated, DebitedIsAccepted, AcceptedIsPending,
     Deducting
<1>7. OpeningBalance' /\ FillNeeded' /\ FundsKept'
  BY <1>1, <1>2 DEF Funding, OpeningBalance, FillNeeded, FundsKept, CountsOnFunds, Deducting
<1>8. ReportedIsKept' /\ BooksAgree' /\ WholeBalance' /\ LedgerExact'
  BY <1>2 DEF Funding, ReportedIsKept, BooksAgree, WholeBalance, LedgerExact, Copying,
     TakenOut, Taken
<1> QED
  BY <1>4, <1>5, <1>6, <1>7, <1>8 DEF Locking, Funding

LEMMA LockGateway ==
    ASSUME TypeOK, Core, WholeAmounts, Locking, Funding,
           \A k \in Troubles : ~Spend(k), NEW t \in Txns,
           GatewayStep(t) \/ CallFault(t) \/ CallCrash(t)
    PROVE  Locking' /\ Funding'
<1>1. ~Spend("fault") /\ ~Spend("crash") /\ ~Spend("refuse")
  BY DEF Troubles
<1>2. CASE AcquireLock(t) \/ ReleaseLock(t)
  BY <1>1, <1>2, LockTaken, LockReturned
<1>3. CASE FillBalance(t) \/ CreateTransaction(t) \/ Publish(t)
  BY <1>1, <1>3, LockFill, LockCreate, LockPublish
<1>4. CASE ReadUser(t)
  <2>1. PICK next \in {"lock", "rejected"} : gpc' = [gpc EXCEPT ![t] = next]
    BY <1>4 DEF ReadUser
  <2>2. /\ next \notin Holding /\ gpc[t] = "start"
        /\ UNCHANGED <<mongoBalance, tx, redisBalance, lock, queue, wpc, job, owned,
                       newBalance, timers, debits, credits>>
    BY <1>4 DEF ReadUser, Holding, AwaitingCall, mongoVars, redisVars, brokerVars, slotVars,
       procVars, history
  <2>3. /\ seen'[t].balance = mongoBalance
        /\ \A u \in Txns \ {t} : seen'[u] = seen[u]
    BY <1>4 DEF ReadUser, TypeOK
  <2>4. redisBalance = Nil => seen'[t].balance = InitialBalance
    BY <2>3 DEF Funding, OpeningBalance
  <2>5. /\ gpc[t] \notin {"publish", "accepted"}
        /\ next \notin {"start", "publish", "accepted", "fill", "screen", "create"}
    BY <2>1, <2>2
  <2> QED
    BY <2>1, <2>2, <2>3, <2>4, <2>5, LockCallMoves
<1>5. CASE CheckAccountAndLimits(t) \/ ReadBalance(t) \/ CheckFunds(t) \/ Screen(t)
  <2>1. PICK next : gpc' = [gpc EXCEPT ![t] = next]
    BY <1>5 DEF CheckAccountAndLimits, ReadBalance, CheckFunds, Screen
  <2>2. /\ gpc[t] \in {"account", "balance", "funds", "screen"}
        /\ UNCHANGED <<mongoBalance, tx, redisBalance, lock, queue, wpc, job, owned,
                       newBalance, timers, debits, credits, seen>>
    BY <1>5 DEF CheckAccountAndLimits, ReadBalance, CheckFunds, Screen, mongoVars, redisVars,
       brokerVars, slotVars, procVars, history
  <2>3. gpc'[t] = next
    BY <2>1 DEF TypeOK
  <2>4. /\ next \in {"balance", "release", "fill", "funds", "screen", "create"}
        /\ next = "fill" => redisBalance = Nil
        /\ next = "screen" => CanDeduct(redisBalance, Amount[t])
        /\ next = "create" => gpc[t] = "screen"
    BY <1>5, <2>3 DEF CheckAccountAndLimits, ReadBalance, CheckFunds, Screen, Covers, TypeOK
  <2>5. lock = t
    BY <2>2 DEF Locking, CallHolds, Holding, AwaitingCall
  <2>6. next \in {"screen", "create"} => CanDeduct(redisBalance, Amount[t])
    BY <2>4 DEF Funding, FundsKept, CountsOnFunds
  <2>7. /\ redisBalance = Nil => seen'[t].balance = InitialBalance
        /\ \A u \in Txns \ {t} : seen'[u] = seen[u]
    BY <2>2 DEF Funding, OpeningBalance
  <2>8. /\ gpc[t] \notin {"publish", "accepted"}
        /\ next \notin {"start", "publish", "accepted"}
    BY <2>2, <2>4
  <2> QED
    BY <2>1, <2>2, <2>4, <2>5, <2>6, <2>7, <2>8, LockCallMoves
<1> QED
  BY <1>1, <1>2, <1>3, <1>4, <1>5 DEF GatewayStep, CallFault, CallCrash

\* Only one slot handles anything, and whoever handles a payout keeps all the
\* others from counting on the funds.
LEMMA HandlerAlone ==
    ASSUME TypeOK, Core, Locking, NEW s \in Slots, Handling(s)
    PROVE  /\ job[s].tx \in Txns /\ lock = job[s].tx
           /\ gpc[job[s].tx] = "accepted" /\ tx[job[s].tx] # "initiated"
           /\ \A u \in Slots : Handling(u) => u = s
           /\ \A u \in Txns : gpc[u] \notin Holding /\ tx[u] # "initiated"
           /\ \A u \in Slots \ {s} : ~Deducting(u) /\ ~Copying(u)
<1>1. wpc[s] # "idle" /\ owned[s] /\ lock = job[s].tx /\ job[s].tx \in Txns
  BY JobTyped DEF Handling, InTry, Core, Locking, HandlerHolds
<1>2. gpc[job[s].tx] = "accepted" /\ tx[job[s].tx] # "initiated"
  BY <1>1 DEF Locking, MessagesAccepted, Core, OwnerClaimed, Unclaimed
<1>3. \A u \in Slots : Handling(u) => u = s
  BY <1>1 DEF Locking, HandlerHolds, Handling, Core, SoleOwner
<1>4. \A u \in Txns : gpc[u] \notin Holding /\ tx[u] # "initiated"
  BY <1>1, <1>2 DEF Locking, CallHolds, CreatedHolds, Holding, AwaitingCall
<1>5. \A u \in Slots : Deducting(u) \/ Copying(u) => Handling(u)
  BY DEF Deducting, Copying, Handling, InTry, Core, TryOwned
<1> QED
  BY <1>1, <1>2, <1>3, <1>4, <1>5

\* A slot takes a message, gives up at the claim or acknowledges: it handles
\* nothing before and after.
LEMMA LockPassive ==
    ASSUME TypeOK, Core, Locking, Funding, NEW s \in Slots,
           Deliver(s) \/ Skip(s) \/ Ack(s)
    PROVE  Locking' /\ Funding'
<1> USE DEF Deliver, Skip, Ack, Vacate, mongoVars, redisVars, brokerVars, callVars, procVars,
            history
<1>1. /\ \A u \in Slots \ {s} : /\ wpc'[u] = wpc[u] /\ job'[u] = job[u]
                                /\ owned'[u] = owned[u] /\ newBalance'[u] = newBalance[u]
      /\ wpc[s] \in {"idle", "claim", "ack"} /\ wpc'[s] \in {"idle", "claim", "ack"}
  BY DEF TypeOK
<1>2. wpc'[s] # "idle" => gpc[job'[s].tx] = "accepted" /\ ~owned'[s]
  <2>1. CASE Deliver(s)
    BY <2>1 DEF TypeOK, Locking, MessagesAccepted, Core, OwnerClaimed
  <2>2. CASE Skip(s)
    BY <2>2 DEF Locking, MessagesAccepted, Core, OwnerClaimed
  <2>3. CASE Ack(s)
    BY <2>3 DEF TypeOK
  <2> QED
    BY <2>1, <2>2, <2>3
<1>3. /\ UNCHANGED <<mongoBalance, tx, redisBalance, lock, gpc, seen, timers, debits, credits>>
      /\ \A m \in queue' : m \in queue
  BY DEF TypeOK
<1>4. \A u \in Slots : wpc'[u] \in InTry \ {"claim"} => u # s
  BY <1>1 DEF InTry
<1>5. CallHolds' /\ CreatedHolds'
  BY <1>3 DEF Locking, CallHolds, CreatedHolds
<1>6. HandlerHolds'
  BY <1>1, <1>2, <1>3, <1>4 DEF Locking, HandlerHolds, Handling, InTry
<1>7. MessagesAccepted' /\ AllWell'
  BY <1>1, <1>2, <1>3 DEF Locking, MessagesAccepted, AllWell, InTry
<1>8. PublishedIsCreated' /\ DebitedIsAccepted' /\ AcceptedIsPending'
  BY <1>1, <1>3 DEF Locking, PublishedIsCreated, DebitedIsAccepted, AcceptedIsPending,
     Deducting
<1>9. OpeningBalance' /\ FillNeeded' /\ FundsKept'
  BY <1>1, <1>3 DEF Funding, OpeningBalance, FillNeeded, FundsKept, CountsOnFunds, Deducting
<1>10. ReportedIsKept' /\ BooksAgree' /\ WholeBalance' /\ LedgerExact'
  BY <1>1, <1>3 DEF Funding, ReportedIsKept, BooksAgree, WholeBalance, LedgerExact, Copying,
     TakenOut, Taken
<1> QED
  BY <1>5, <1>6, <1>7, <1>8, <1>9, <1>10 DEF Locking, Funding

\* The claim hands the lock from the created payout to its handler.
LEMMA LockClaim ==
    ASSUME TypeOK, Core, Locking, Funding, NEW s \in Slots, ~Spend("fault"), Claim(s)
    PROVE  Locking' /\ Funding'
<1> DEFINE t == job[s].tx
<1> USE DEF Claim, redisVars, brokerVars, callVars, procVars, history
<1>1. /\ t \in Txns /\ tx[t] = "initiated" /\ lock = t /\ wpc[s] = "claim"
      /\ gpc[t] = "accepted"
  BY JobTyped DEF Core, Claimable, Locking, CreatedHolds, MessagesAccepted
<1>2. /\ tx'[t] = "processing" /\ \A u \in Txns \ {t} : tx'[u] = tx[u]
      /\ wpc'[s] = "recheck" /\ owned'[s]
      /\ \A u \in Slots \ {s} : wpc'[u] = wpc[u] /\ owned'[u] = owned[u]
  BY <1>1 DEF Answered, TypeOK
<1>3. UNCHANGED <<mongoBalance, redisBalance, lock, gpc, seen, queue, timers, job,
                  newBalance, debits, credits>>
  OBVIOUS
<1>4. \A u \in Slots : wpc[u] # "idle" => job[u].tx \in Txns
  BY JobTyped DEF Core
<1> HIDE DEF t
<1>5. t = job[s].tx
  BY DEF t
<1>6. CallHolds' /\ CreatedHolds' /\ HandlerHolds'
  BY <1>1, <1>2, <1>3, <1>5 DEF Locking, CallHolds, CreatedHolds, HandlerHolds, Handling
<1>7. MessagesAccepted' /\ AllWell'
  BY <1>1, <1>2, <1>3, <1>5 DEF Locking, MessagesAccepted, AllWell, InTry
<1>8. PublishedIsCreated' /\ DebitedIsAccepted'
  BY <1>1, <1>2, <1>3 DEF Locking, PublishedIsCreated, DebitedIsAccepted
<1>9. AcceptedIsPending'
  BY <1>1, <1>2, <1>3, <1>5 DEF Locking, AcceptedIsPending, Deducting
<1>10. OpeningBalance' /\ FillNeeded'
  BY <1>3 DEF Funding, OpeningBalance, FillNeeded
<1>11. FundsKept'
  BY <1>1, <1>2, <1>3, <1>5 DEF Funding, FundsKept, CountsOnFunds, Deducting
<1>12. ReportedIsKept' /\ BooksAgree' /\ WholeBalance' /\ LedgerExact'
  BY <1>1, <1>2, <1>3 DEF Funding, ReportedIsKept, BooksAgree, WholeBalance, LedgerExact,
     Copying, TakenOut, Taken
<1> QED
  BY <1>6, <1>7, <1>8, <1>9, <1>10, <1>11, <1>12 DEF Locking, Funding

\* The funds are there: the second look at the balance never refuses.
LEMMA LockRecheck ==
    ASSUME TypeOK, Core, Locking, Funding, NEW s \in Slots, Recheck(s)
    PROVE  Locking' /\ Funding'
<1> USE DEF Recheck, mongoVars, redisVars, brokerVars, callVars, procVars, history
<1>1. job[s].tx \in Txns /\ CanDeduct(redisBalance, Amount[job[s].tx])
  BY JobTyped DEF Core, Funding, FundsKept, CountsOnFunds, Deducting
<1>2. /\ wpc[s] = "recheck" /\ wpc'[s] = "deduct"
      /\ \A u \in Slots \ {s} : wpc'[u] = wpc[u]
  BY <1>1 DEF TypeOK
<1>3. UNCHANGED <<mongoBalance, tx, redisBalance, lock, gpc, seen, queue, timers, job,
                  owned, newBalance, debits, credits>>
  OBVIOUS
<1>4. CallHolds' /\ CreatedHolds' /\ HandlerHolds'
  BY <1>2, <1>3 DEF Locking, CallHolds, CreatedHolds, HandlerHolds, Handling, InTry
<1>5. MessagesAccepted' /\ AllWell'
  BY <1>2, <1>3 DEF Locking, MessagesAccepted, AllWell, InTry
<1>6. PublishedIsCreated' /\ DebitedIsAccepted' /\ AcceptedIsPending'
  BY <1>2, <1>3 DEF Locking, PublishedIsCreated, DebitedIsAccepted, AcceptedIsPending,
     Deducting
<1>7. OpeningBalance' /\ FillNeeded' /\ FundsKept'
  BY <1>2, <1>3 DEF Funding, OpeningBalance, FillNeeded, FundsKept, CountsOnFunds, Deducting
<1>8. ReportedIsKept' /\ BooksAgree' /\ WholeBalance' /\ LedgerExact'
  BY <1>2, <1>3 DEF Funding, ReportedIsKept, BooksAgree, WholeBalance, LedgerExact, Copying,
     TakenOut, Taken
<1> QED
  BY <1>4, <1>5, <1>6, <1>7, <1>8 DEF Locking, Funding

\* The deduction leaves every other payout out of pocket: none counts on funds.
LEMMA LockDeduct ==
    ASSUME TypeOK, Core, WholeAmounts, Locking, Funding, NEW s \in Slots,
           ~Spend("fault"), Deduct(s)
    PROVE  Locking' /\ Funding'
<1> USE DEF Deduct, mongoVars, brokerVars, callVars, procVars, history
<1>1. wpc[s] = "deduct" /\ Handling(s) /\ job[s].tx \in Txns
  BY JobTyped DEF Core, TryOwned, InTry, Handling
<1>2. PICK t \in Txns : t = job[s].tx
  BY <1>1
<1>3. /\ lock = t /\ gpc[t] = "accepted"
      /\ \A u \in Txns : gpc[u] \notin Holding /\ tx[u] # "initiated"
      /\ \A u \in Slots \ {s} : ~Deducting(u) /\ ~Copying(u)
  BY <1>1, <1>2, HandlerAlone
<1>4. /\ wpc'[s] = "complete" /\ newBalance'[s] = ScriptReply(redisBalance - Amount[t])
      /\ \A u \in Slots \ {s} : wpc'[u] = wpc[u] /\ newBalance'[u] = newBalance[u]
      /\ debits' = [debits EXCEPT ![t] = @ + 1]
      /\ redisBalance # Nil /\ redisBalance \in Int /\ redisBalance' = redisBalance - Amount[t]
  BY <1>1, <1>2 DEF Answered, TypeOK, CanDeduct, Deducted, ScriptReply
<1>5. /\ UNCHANGED <<mongoBalance, tx, lock, gpc, seen, queue, timers, job, owned, credits>>
      /\ debits'[t] = debits[t] + 1 /\ debits[t] \in Nat
      /\ \A u \in Txns \ {t} : debits'[u] = debits[u]
  BY <1>4 DEF TypeOK
<1>6. /\ redisBalance' \in Int /\ redisBalance' # Nil /\ Whole(redisBalance')
  <2>1. Amount[t] \in Int /\ Whole(Amount[t]) /\ Whole(redisBalance)
    BY <1>4 DEF WholeAmounts, Funding, WholeBalance
  <2>2. Whole(redisBalance - Amount[t])
    BY <1>4, <2>1, WholeLess
  <2> QED
    BY <1>4, <2>1, <2>2
<1>7. CallHolds' /\ CreatedHolds' /\ HandlerHolds'
  BY <1>1, <1>3, <1>4, <1>5 DEF Locking, CallHolds, CreatedHolds, HandlerHolds, Handling, InTry
<1>8. MessagesAccepted' /\ AllWell'
  BY <1>1, <1>4, <1>5 DEF Locking, MessagesAccepted, AllWell, InTry
<1>9. PublishedIsCreated' /\ DebitedIsAccepted'
  BY <1>3, <1>5 DEF Locking, PublishedIsCreated, DebitedIsAccepted
<1>10. AcceptedIsPending'
  BY <1>2, <1>3, <1>4, <1>5 DEF Locking, AcceptedIsPending, Deducting
<1>11. OpeningBalance' /\ FillNeeded'
  BY <1>3, <1>5, <1>6 DEF OpeningBalance, FillNeeded, Holding, AwaitingCall
<1>12. FundsKept'
  <2>1. ASSUME NEW u \in Txns PROVE ~CountsOnFunds(u)'
    BY <1>3, <1>4, <1>5 DEF CountsOnFunds, Holding, AwaitingCall, Deducting
  <2> QED
    BY <2>1 DEF FundsKept
<1>13. ReportedIsKept' /\ BooksAgree' /\ WholeBalance'
  BY <1>3, <1>4, <1>6 DEF ReportedIsKept, BooksAgree, WholeBalance, Copying, Whole
<1>14. LedgerExact'
  <2>1. TakenOut \in Int /\ TakenOut' = TakenOut + Amount[t]
    BY <1>4, <1>5, TakenChanges
  <2>2. redisBalance = InitialBalance - TakenOut
    BY <1>4 DEF Funding, LedgerExact
  <2>3. redisBalance' = InitialBalance - TakenOut'
    BY <1>4, <2>1, <2>2
  <2> QED
    BY <2>3 DEF LedgerExact
<1> QED
  BY <1>7, <1>8, <1>9, <1>10, <1>11, <1>12, <1>13, <1>14 DEF Locking, Funding

LEMMA LockComplete ==
    ASSUME TypeOK, Core, Locking, Funding, NEW s \in Slots, ~Spend("fault"), Complete(s)
    PROVE  Locking' /\ Funding'
<1> USE DEF Complete, redisVars, brokerVars, callVars, procVars, history
<1>1. /\ wpc[s] = "complete" /\ job[s].tx \in Txns /\ debits[job[s].tx] = 1
      /\ tx[job[s].tx] # "initiated"
  BY JobTyped DEF Core, DebitFollowsClaim, TryOwned, OwnerClaimed, Unclaimed, InTry
<1>2. PICK t \in Txns : t = job[s].tx
  BY <1>1
<1>3. /\ tx'[t] = "completed" /\ \A u \in Txns \ {t} : tx'[u] = tx[u]
      /\ wpc'[s] = "sync" /\ \A u \in Slots \ {s} : wpc'[u] = wpc[u]
  BY <1>1, <1>2 DEF Answered, TypeOK
<1>4. UNCHANGED <<mongoBalance, redisBalance, lock, gpc, seen, queue, timers, job, owned,
                  newBalance, debits, credits>>
  OBVIOUS
<1>5. gpc[t] = "accepted"
  BY <1>1, <1>2 DEF Locking, MessagesAccepted
<1>6. CallHolds' /\ CreatedHolds' /\ HandlerHolds'
  BY <1>1, <1>2, <1>3, <1>4 DEF Locking, CallHolds, CreatedHolds, HandlerHolds, Handling, InTry
<1>7. MessagesAccepted' /\ AllWell'
  BY <1>1, <1>3, <1>4 DEF Locking, MessagesAccepted, AllWell, InTry
<1>8. PublishedIsCreated' /\ DebitedIsAccepted'
  BY <1>3, <1>4, <1>5 DEF Locking, PublishedIsCreated, DebitedIsAccepted
<1>9. AcceptedIsPending'
  BY <1>1, <1>2, <1>3, <1>4 DEF Locking, AcceptedIsPending, Deducting
<1>10. OpeningBalance' /\ FillNeeded' /\ FundsKept'
  BY <1>1, <1>2, <1>3, <1>4 DEF Funding, OpeningBalance, FillNeeded, FundsKept,
     CountsOnFunds, Deducting
<1>11. ReportedIsKept' /\ BooksAgree' /\ WholeBalance' /\ LedgerExact'
  BY <1>1, <1>3, <1>4 DEF Funding, ReportedIsKept, BooksAgree, WholeBalance, LedgerExact,
     Copying, TakenOut, Taken
<1> QED
  BY <1>6, <1>7, <1>8, <1>9, <1>10, <1>11 DEF Locking, Funding

\* What the handler copies to MongoDB is what Redis holds.
LEMMA LockSync ==
    ASSUME TypeOK, Core, Locking, Funding, NEW s \in Slots, ~Spend("fault"), Sync(s)
    PROVE  Locking' /\ Funding'
<1> USE DEF Sync, redisVars, brokerVars, callVars, procVars, history
<1>1. wpc[s] = "sync" /\ mongoBalance' = redisBalance /\ redisBalance # Nil
  BY DEF Synced, Funding, ReportedIsKept, Copying, TypeOK
<1>2. /\ wpc'[s] = "unlock" /\ \A u \in Slots \ {s} : wpc'[u] = wpc[u]
      /\ UNCHANGED <<tx, redisBalance, lock, gpc, seen, queue, timers, job, owned,
                     newBalance, debits, credits>>
  BY DEF Answered, TypeOK
<1>3. CallHolds' /\ CreatedHolds' /\ HandlerHolds'
  BY <1>1, <1>2 DEF Locking, CallHolds, CreatedHolds, HandlerHolds, Handling, InTry
<1>4. MessagesAccepted' /\ AllWell'
  BY <1>1, <1>2 DEF Locking, MessagesAccepted, AllWell, InTry
<1>5. PublishedIsCreated' /\ DebitedIsAccepted' /\ AcceptedIsPending'
  BY <1>1, <1>2 DEF Locking, PublishedIsCreated, DebitedIsAccepted, AcceptedIsPending,
     Deducting
<1>6. OpeningBalance' /\ FillNeeded' /\ FundsKept'
  BY <1>1, <1>2 DEF Funding, OpeningBalance, FillNeeded, FundsKept, CountsOnFunds, Deducting
<1>7. ReportedIsKept' /\ BooksAgree' /\ WholeBalance' /\ LedgerExact'
  BY <1>1, <1>2 DEF Funding, ReportedIsKept, BooksAgree, WholeBalance, LedgerExact, Copying,
     TakenOut, Taken
<1> QED
  BY <1>3, <1>4, <1>5, <1>6, <1>7 DEF Locking, Funding

\* The handler held the lock it gives up, and no one else did.
LEMMA LockGivenUp ==
    ASSUME TypeOK, Core, Locking, Funding, NEW s \in Slots, ~Spend("fault"), Unlock(s)
    PROVE  Locking' /\ Funding'
<1> USE DEF Unlock, mongoVars, brokerVars, callVars, procVars, history
<1>1. wpc[s] = "unlock" /\ Handling(s)
  BY DEF Core, TryOwned, InTry, Handling
<1>2. /\ \A u \in Slots : Handling(u) => u = s
      /\ \A u \in Txns : gpc[u] \notin Holding /\ tx[u] # "initiated"
  BY <1>1, HandlerAlone
<1>3. /\ wpc'[s] = "ack" /\ \A u \in Slots \ {s} : wpc'[u] = wpc[u]
      /\ UNCHANGED <<mongoBalance, tx, redisBalance, gpc, seen, queue, timers, job, owned,
                     newBalance, debits, credits>>
  BY DEF Answered, TypeOK
<1>4. CallHolds' /\ CreatedHolds' /\ HandlerHolds'
  BY <1>1, <1>2, <1>3 DEF CallHolds, CreatedHolds, HandlerHolds, Handling, InTry
<1>5. MessagesAccepted' /\ AllWell'
  BY <1>1, <1>3 DEF Locking, MessagesAccepted, AllWell
<1>6. PublishedIsCreated' /\ DebitedIsAccepted' /\ AcceptedIsPending'
  BY <1>1, <1>3 DEF Locking, PublishedIsCreated, DebitedIsAccepted, AcceptedIsPending,
     Deducting
<1>7. OpeningBalance' /\ FillNeeded' /\ FundsKept'
  BY <1>1, <1>3 DEF Funding, OpeningBalance, FillNeeded, FundsKept, CountsOnFunds, Deducting
<1>8. ReportedIsKept' /\ BooksAgree' /\ WholeBalance' /\ LedgerExact'
  BY <1>1, <1>3 DEF Funding, ReportedIsKept, BooksAgree, WholeBalance, LedgerExact, Copying,
     TakenOut, Taken
<1> QED
  BY <1>4, <1>5, <1>6, <1>7, <1>8 DEF Locking, Funding

\* The other steps of a handler start from a failure, and there was none.
LEMMA LockHandler ==
    ASSUME TypeOK, Core, WholeAmounts, Locking, Funding,
           \A k \in Troubles : ~Spend(k), NEW s \in Slots,
           HandlerStep(s) \/ HandlerFault(s)
    PROVE  Locking' /\ Funding'
<1>1. ~Spend("fault")
  BY DEF Troubles
<1>2. CASE Deliver(s) \/ Skip(s) \/ Ack(s)
  BY <1>2, LockPassive
<1>3. CASE Claim(s) \/ Recheck(s) \/ Deduct(s)
  BY <1>1, <1>3, LockClaim, LockRecheck, LockDeduct
<1>4. CASE Complete(s) \/ Sync(s) \/ Unlock(s)
  BY <1>1, <1>4, LockComplete, LockSync, LockGivenUp
<1>5. ~DeductRefused(s)
  BY JobTyped DEF DeductRefused, Core, Funding, FundsKept, CountsOnFunds, Deducting
<1>6. ~Rollback(s) /\ ~MarkFailed(s) /\ ~HandleFailure(s)
  BY DEF Rollback, MarkFailed, HandleFailure, Locking, AllWell, InTry
<1> QED
  BY <1>1, <1>2, <1>3, <1>4, <1>5, <1>6 DEF HandlerStep, HandlerFault

\* What is left of the pipeline's steps: the connections and the account's status.
LEMMA LockOthers ==
    ASSUME TypeOK, Core, Locking, Funding,
           \/ SetStatus \/ UNCHANGED vars
           \/ \E p \in Procs : LoseConnection(p)
    PROVE  Locking' /\ Funding'
<1>1. /\ UNCHANGED <<mongoBalance, tx, redisBalance, lock, gpc, seen, timers, wpc, job, owned,
                     newBalance, debits, credits>>
      /\ \A m \in queue' : m \in queue \/ \E s \in Slots : wpc[s] # "idle" /\ m = job[s]
  BY DEF SetStatus, LoseConnection, Unacked, vars, mongoVars, redisVars, brokerVars, callVars,
         slotVars, procVars, history
<1>2. CallHolds' /\ CreatedHolds' /\ HandlerHolds'
  BY <1>1 DEF Locking, CallHolds, CreatedHolds, HandlerHolds, Handling
<1>3. MessagesAccepted' /\ AllWell'
  BY <1>1 DEF Locking, MessagesAccepted, AllWell
<1>4. PublishedIsCreated' /\ DebitedIsAccepted' /\ AcceptedIsPending'
  BY <1>1 DEF Locking, PublishedIsCreated, DebitedIsAccepted, AcceptedIsPending, Deducting
<1>5. OpeningBalance' /\ FillNeeded' /\ FundsKept'
  BY <1>1 DEF Funding, OpeningBalance, FillNeeded, FundsKept, CountsOnFunds, Deducting
<1>6. ReportedIsKept' /\ BooksAgree' /\ WholeBalance' /\ LedgerExact'
  BY <1>1 DEF Funding, ReportedIsKept, BooksAgree, WholeBalance, LedgerExact, Copying,
     TakenOut, Taken
<1> QED
  BY <1>2, <1>3, <1>4, <1>5, <1>6 DEF Locking, Funding

\* Undisturbed, neither readers nor adjusters take a step.
LEMMA NoOperation ==
    ASSUME TypeOK, Undisturbed, Undisturbed', NEW o \in Operations
    PROVE  ~ReaderStep(o) /\ ~AdjusterStep(o)
<1>1. opc[o] = "start" /\ opc'[o] = "start"
  BY DEF Undisturbed
<1> QED
  BY <1>1 DEF ReaderStep, AdjusterStep, ReadCached, ReadStored, Fill, AdjustRead, AdjustWrite,
     AdjustRedis, Goto, TypeOK

LEMMA LockInvNext == DebitInv /\ LockInv /\ [Next]_vars => LockInv'
<1> SUFFICES ASSUME DebitInv, LockInv, [Next]_vars, WholeAmounts', Undisturbed'
             PROVE  Locking' /\ Funding'
  BY DEF LockInv
<1>1. TypeOK /\ Core /\ TypeOK' /\ WholeAmounts
  BY DebitInvNext DEF DebitInv, Core, WholeAmounts, Whole, ScriptReply
<1>2. Undisturbed /\ \A k \in Troubles : ~Spend(k)
  BY <1>1, QuietStep
<1>3. Locking /\ Funding
  BY <1>1, <1>2 DEF LockInv
<1>4. ASSUME NEW t \in Txns, GatewayStep(t) \/ CallFault(t) \/ CallCrash(t)
      PROVE  Locking' /\ Funding'
  BY <1>1, <1>2, <1>3, <1>4, LockGateway
<1>5. ASSUME NEW s \in Slots, HandlerStep(s) \/ HandlerFault(s)
      PROVE  Locking' /\ Funding'
  BY <1>1, <1>2, <1>3, <1>5, LockHandler
<1>6. ASSUME SetStatus \/ Rest \/ UNCHANGED vars \/ \E p \in Procs : LoseConnection(p)
      PROVE  Locking' /\ Funding'
  BY <1>1, <1>3, <1>6, LockOthers DEF Rest
<1>7. /\ \A p \in Procs : ~Republish(p) /\ ~Restart(p)
      /\ ~ExpireLock /\ ~EvictBalance
  BY <1>2, <1>3 DEF Republish, Restart, ExpireLock, EvictBalance, Troubles, Locking,
     MessagesAccepted
<1>8. /\ \A r \in Readers : ~ReaderStep(r)
      /\ \A a \in Adjusters : ~AdjusterStep(a)
      /\ \A o \in Operations : ~OperationFault(o) /\ ~OperationCrash(o)
  BY <1>1, <1>2, NoOperation DEF Operations, OperationFault, OperationCrash, Troubles
<1> QED
  BY <1>4, <1>5, <1>6, <1>7, <1>8 DEF Next, Progress, Environment

\* As long as the lock, the balance key and the processes live and no call to a
\* store fails, the user's lock does what it is for: handlers never meet, an
\* accepted payout has its funds, Redis holds exactly what the payouts left, and
\* at rest MongoDB holds the same.
THEOREM LockWorks == Spec => []LockProtects
<1>1. DebitInv /\ LockInv => LockProtects
  <2> SUFFICES ASSUME DebitInv, LockInv, WholeAmounts, Undisturbed
               PROVE  LedgerExact /\ LoneHandler /\ AcceptedIsFunded /\ BooksAgreeAtRest
    BY DEF LockProtects
  <2>1. TypeOK /\ Core /\ Locking /\ Funding
    BY DEF DebitInv, Core, LockInv
  <2>2. LoneHandler
    BY <2>1, HandlerAlone DEF LoneHandler
  <2>3. AcceptedIsFunded
    BY <2>1 DEF Locking, AllWell, AcceptedIsFunded
  <2>4. BooksAgreeAtRest
    BY <2>1 DEF Funding, BooksAgree, BooksAgreeAtRest, AtRest, Copying
  <2> QED
    BY <2>1, <2>2, <2>3, <2>4 DEF Funding
<1> QED
  BY <1>1, DebitInvInit, DebitInvNext, LockInvInit, LockInvNext, PTL DEF Spec

-----------------------------------------------------------------------------
(* Undisturbed, the pipeline implements the ledger.                        *)

\* The ledger's sum is the sum over the pipeline's states.
LEMMA LedgerSum ==
    Ledger!SetAside = Sum(Amount, {t \in Txns : LedgerState[t] = "accepted"})
<1>1. ASSUME NEW w, NEW S
      PROVE  Ledger!Sum(w, S) = (CHOOSE g : Adds(g, w, S))[S]
  BY DEF Ledger!Sum, Ledger!MapThenSumSet, Ledger!MapThenFoldSet, Adds, First
<1>2. \A w, S : Ledger!Sum(w, S) = Sum(w, S)
  BY <1>1, SumIs
<1> QED
  BY <1>2 DEF Ledger!SetAside

LEMMA LedgerStates ==
    LedgerState \in [Txns -> {"asked", "accepted", "refused", "paid"}]
  BY DEF LedgerState

\* Steps that pay nothing and neither end nor accept a call do not show.
LEMMA LedgerUnmoved ==
    ASSUME UNCHANGED debits,
           \A t \in Txns : /\ gpc'[t] = "accepted" <=> gpc[t] = "accepted"
                           /\ gpc'[t] \in {"rejected", "crashed"}
                                 <=> gpc[t] \in {"rejected", "crashed"},
           LedgerBalance' = LedgerBalance
    PROVE  UNCHANGED Ledger!ledger
<1>1. \A t \in Txns : LedgerState'[t] = LedgerState[t]
  BY DEF LedgerState
<1>2. LedgerState' = LedgerState
  BY <1>1 DEF LedgerState
<1> QED
  BY <1>2 DEF Ledger!ledger

\* One call's step, before the publication: a refusal or nothing.
LEMMA LedgerCall ==
    ASSUME TypeOK, Locking, NEW t \in Txns, NEW next, gpc' = [gpc EXCEPT ![t] = next],
           gpc[t] \in AwaitingCall, next \in AwaitingCall \cup {"rejected"},
           UNCHANGED debits, LedgerBalance' = LedgerBalance
    PROVE  Ledger!Refuse(t) \/ UNCHANGED Ledger!ledger
<1>1. gpc'[t] = next /\ \A u \in Txns \ {t} : gpc'[u] = gpc[u]
  BY DEF TypeOK
<1>2. CASE next # "rejected"
  BY <1>1, <1>2, LedgerUnmoved DEF AwaitingCall
<1>3. CASE next = "rejected"
  <2>1. debits[t] = 0
    BY DEF TypeOK, Locking, DebitedIsAccepted, AwaitingCall
  <2>2. LedgerState[t] = "asked" /\ LedgerState'[t] = "refused"
    BY <1>1, <1>3, <2>1 DEF LedgerState, AwaitingCall
  <2>3. \A u \in Txns \ {t} : LedgerState'[u] = LedgerState[u]
    BY <1>1 DEF LedgerState
  <2>4. LedgerState' = [LedgerState EXCEPT ![t] = "refused"]
    BY <2>2, <2>3 DEF LedgerState
  <2> QED
    BY <2>2, <2>4 DEF Ledger!Refuse
<1> QED
  BY <1>2, <1>3

\* Accepting a call whose funds Redis covers; nothing else is set aside, since
\* whoever is accepted and not yet paid would hold the lock.
LEMMA LedgerAccepts ==
    ASSUME TypeOK, Core, Locking, Funding, NEW t \in Txns, ~Spend("refuse"), Publish(t)
    PROVE  Ledger!Accept(t)
<1> USE DEF Publish, mongoVars, redisVars, history
<1>1. /\ gpc[t] = "publish" /\ gpc'[t] = "accepted" /\ lock = t
      /\ \A u \in Txns \ {t} : gpc'[u] = gpc[u]
  BY DEF TypeOK, Locking, CallHolds, Holding, AwaitingCall
<1>2. debits[t] = 0
  BY <1>1 DEF TypeOK, Locking, DebitedIsAccepted
<1>3. LedgerState[t] = "asked" /\ LedgerState'[t] = "accepted"
  BY <1>1, <1>2 DEF LedgerState
<1>4. LedgerState' = [LedgerState EXCEPT ![t] = "accepted"]
  <2>1. \A u \in Txns \ {t} : LedgerState'[u] = LedgerState[u]
    BY <1>1 DEF LedgerState
  <2> QED
    BY <1>3, <2>1 DEF LedgerState
<1>5. \A u \in Txns : LedgerState[u] # "accepted"
  <2> SUFFICES ASSUME NEW u \in Txns, LedgerState[u] = "accepted" PROVE FALSE
    OBVIOUS
  <2>1. gpc[u] = "accepted" /\ debits[u] = 0
    BY DEF LedgerState
  <2>2. tx[u] # "initiated"
    BY <1>1, <2>1 DEF Locking, CreatedHolds
  <2>3. PICK s \in Slots : Deducting(s) /\ job[s].tx = u
    BY <2>1, <2>2 DEF Locking, AcceptedIsPending
  <2>4. Handling(s)
    BY <2>3 DEF Deducting, Handling, InTry, Core, TryOwned
  <2> QED
    BY <1>1, <2>4, HandlerAlone DEF Holding, AwaitingCall
<1>6. Ledger!SetAside = 0
  <2>1. {u \in Txns : LedgerState[u] = "accepted"} = {}
    BY <1>5
  <2> QED
    BY <2>1, LedgerSum, SumEmpty
<1>7. Amount[t] <= LedgerBalance /\ LedgerBalance' = LedgerBalance
  BY <1>1 DEF Funding, FundsKept, CountsOnFunds, CanDeduct, LedgerBalance
<1> QED
  BY <1>3, <1>4, <1>6, <1>7 DEF Ledger!Accept

LEMMA LedgerGateway ==
    ASSUME TypeOK, Core, Locking, Funding, \A k \in Troubles : ~Spend(k), NEW t \in Txns,
           GatewayStep(t) \/ CallFault(t) \/ CallCrash(t)
    PROVE  Ledger!Accept(t) \/ Ledger!Refuse(t) \/ UNCHANGED Ledger!ledger
<1>1. ~Spend("fault") /\ ~Spend("crash") /\ ~Spend("refuse")
  BY DEF Troubles
<1>2. CASE Publish(t)
  BY <1>1, <1>2, LedgerAccepts
<1>3. CASE GatewayStep(t) /\ ~Publish(t)
  <2>1. PICK next \in AwaitingCall \cup {"rejected"} : gpc' = [gpc EXCEPT ![t] = next]
    BY <1>1, <1>3 DEF GatewayStep, ReadUser, AcquireLock, CheckAccountAndLimits, ReadBalance,
       FillBalance, CheckFunds, Screen, CreateTransaction, ReleaseLock, Answered, AwaitingCall
  <2>2. gpc[t] \in AwaitingCall /\ UNCHANGED <<debits, mongoBalance>>
    BY <1>3 DEF GatewayStep, ReadUser, AcquireLock, CheckAccountAndLimits, ReadBalance,
       FillBalance, CheckFunds, Screen, CreateTransaction, ReleaseLock, AwaitingCall, history,
       mongoVars
  <2>3. LedgerBalance' = LedgerBalance
    <3>1. CASE FillBalance(t)
      <4>1. redisBalance = Nil /\ mongoBalance = InitialBalance
        BY <3>1 DEF FillBalance, Funding, FillNeeded, OpeningBalance
      <4>2. redisBalance' = InitialBalance
        BY <3>1, <4>1 DEF FillBalance, Funding, OpeningBalance
      <4> QED
        BY <4>1, <4>2 DEF LedgerBalance
    <3>2. CASE ~FillBalance(t)
      BY <1>3, <2>2, <3>2 DEF GatewayStep, ReadUser, AcquireLock, CheckAccountAndLimits,
         ReadBalance, CheckFunds, Screen, CreateTransaction, ReleaseLock, redisVars,
         LedgerBalance
    <3> QED
      BY <3>1, <3>2
  <2> QED
    BY <2>1, <2>2, <2>3, LedgerCall
<1> QED
  BY <1>1, <1>2, <1>3 DEF CallFault, CallCrash

\* The deduction is the payment.
LEMMA LedgerPays ==
    ASSUME TypeOK, Core, Locking, NEW s \in Slots, Deduct(s)
    PROVE  \E t \in Txns : Ledger!Pay(t)
<1> USE DEF Deduct, mongoVars, callVars
<1>1. PICK t \in Txns : t = job[s].tx
  BY JobTyped DEF Core
<1>2. gpc[t] = "accepted" /\ debits[t] = 0 /\ UNCHANGED gpc
  BY <1>1 DEF Locking, MessagesAccepted, Core, DebitFollowsClaim
<1>3. debits'[t] = 1 /\ \A u \in Txns \ {t} : debits'[u] = debits[u]
  BY <1>1, <1>2 DEF TypeOK
<1>4. LedgerState[t] = "accepted" /\ LedgerState'[t] = "paid"
  BY <1>2, <1>3 DEF LedgerState
<1>5. LedgerState' = [LedgerState EXCEPT ![t] = "paid"]
  <2>1. \A u \in Txns \ {t} : LedgerState'[u] = LedgerState[u]
    BY <1>2, <1>3 DEF LedgerState
  <2>2. LedgerState' \in [Txns -> {"asked", "accepted", "refused", "paid"}]
    BY DEF LedgerState
  <2> QED
    BY <1>4, <2>1, <2>2, LedgerStates
<1>6. LedgerBalance' = LedgerBalance - Amount[t]
  <2>1. redisBalance \in Int /\ redisBalance' = redisBalance - Amount[t] /\ redisBalance # Nil
    BY <1>1 DEF CanDeduct, Deducted, TypeOK
  <2>2. redisBalance' \in Int
    BY <2>1
  <2> QED
    BY <2>1, <2>2 DEF LedgerBalance
<1> QED
  BY <1>4, <1>5, <1>6 DEF Ledger!Pay

\* No other step of a handler touches the account or the user's view of it.
LEMMA LedgerHandler ==
    ASSUME TypeOK, Core, Locking, Funding, \A k \in Troubles : ~Spend(k), NEW s \in Slots,
           HandlerStep(s) \/ HandlerFault(s)
    PROVE  (\E t \in Txns : Ledger!Pay(t)) \/ UNCHANGED Ledger!ledger
<1>1. ~Spend("fault")
  BY DEF Troubles
<1>2. CASE Deduct(s)
  BY <1>2, LedgerPays
<1>3. ~DeductRefused(s)
  BY JobTyped DEF DeductRefused, Core, Funding, FundsKept, CountsOnFunds, Deducting
<1>4. ~Rollback(s) /\ ~MarkFailed(s) /\ ~HandleFailure(s)
  BY DEF Rollback, MarkFailed, HandleFailure, Locking, AllWell, InTry
<1>5. CASE \/ Deliver(s) \/ Claim(s) \/ Skip(s) \/ Recheck(s)
           \/ Complete(s) \/ Sync(s) \/ Unlock(s) \/ Ack(s)
  <2>1. UNCHANGED <<debits, gpc, redisBalance>>
    BY <1>5 DEF Deliver, Claim, Skip, Recheck, Complete, Sync, Unlock, Ack, history, callVars,
       redisVars
  <2>2. LedgerBalance' = LedgerBalance
    <3>1. CASE Sync(s)
      <4>1. redisBalance # Nil
        BY <3>1 DEF Sync, Funding, ReportedIsKept, Copying, TypeOK
      <4> QED
        BY <2>1, <4>1 DEF LedgerBalance
    <3>2. CASE ~Sync(s)
      BY <1>5, <2>1, <3>2 DEF Deliver, Claim, Skip, Recheck, Complete, Unlock, Ack, mongoVars,
         LedgerBalance
    <3> QED
      BY <3>1, <3>2
  <2> QED
    BY <2>1, <2>2, LedgerUnmoved
<1> QED
  BY <1>1, <1>2, <1>3, <1>4, <1>5 DEF HandlerStep, HandlerFault

LEMMA LedgerStep ==
    ASSUME DebitInv, LockInv, WholeAmounts, Undisturbed, Undisturbed', [Next]_vars
    PROVE  [Ledger!LedgerNext]_Ledger!ledger
<1>1. TypeOK /\ Core /\ TypeOK' /\ Locking /\ Funding
  BY DebitInvNext DEF DebitInv, Core, LockInv
<1>2. \A k \in Troubles : ~Spend(k)
  BY <1>1, QuietStep
<1>3. ASSUME NEW t \in Txns, GatewayStep(t) \/ CallFault(t) \/ CallCrash(t)
      PROVE  [Ledger!LedgerNext]_Ledger!ledger
  BY <1>1, <1>2, <1>3, LedgerGateway DEF Ledger!LedgerNext
<1>4. ASSUME NEW s \in Slots, HandlerStep(s) \/ HandlerFault(s)
      PROVE  [Ledger!LedgerNext]_Ledger!ledger
  BY <1>1, <1>2, <1>4, LedgerHandler DEF Ledger!LedgerNext
<1>5. ASSUME SetStatus \/ Rest \/ UNCHANGED vars \/ \E p \in Procs : LoseConnection(p)
      PROVE  UNCHANGED Ledger!ledger
  <2>1. UNCHANGED <<debits, gpc, redisBalance, mongoBalance>>
    BY <1>5 DEF SetStatus, Rest, LoseConnection, vars, mongoVars, redisVars, callVars, history
  <2> QED
    BY <2>1, LedgerUnmoved DEF LedgerBalance
<1>6. /\ \A p \in Procs : ~Republish(p) /\ ~Restart(p)
      /\ ~ExpireLock /\ ~EvictBalance
  BY <1>1, <1>2 DEF Republish, Restart, ExpireLock, EvictBalance, Troubles, Locking,
     MessagesAccepted
<1>7. /\ \A r \in Readers : ~ReaderStep(r)
      /\ \A a \in Adjusters : ~AdjusterStep(a)
      /\ \A o \in Operations : ~OperationFault(o) /\ ~OperationCrash(o)
  BY <1>1, <1>2, NoOperation DEF Operations, OperationFault, OperationCrash, Troubles
<1> QED
  BY <1>3, <1>4, <1>5, <1>6, <1>7 DEF Next, Progress, Environment

\* Every behaviour in which the lock, the balance key and the processes live and
\* no call to a store fails is one of the ledger's: acceptance sets the funds
\* aside, an accepted payout is paid once and in full, a refused one never.
THEOREM LedgerImplemented ==
    ASSUME WholeAmounts
    PROVE  Spec /\ []Undisturbed => Ledger!LedgerSafety
<1>1. Init => Ledger!LedgerInit
  BY DEF Init, Ledger!LedgerInit, LedgerState, LedgerBalance
<1>2. DebitInv /\ LockInv /\ Undisturbed /\ Undisturbed' /\ [Next]_vars
        => [Ledger!LedgerNext]_Ledger!ledger
  BY LedgerStep
<1> QED
  BY <1>1, <1>2, DebitInvInit, DebitInvNext, LockInvInit, LockInvNext, PTL
     DEF Spec, Ledger!LedgerSafety
=============================================================================
