---------------------------- MODULE PayoutState ----------------------------
(***************************************************************************)
(* The state of the payout pipeline of one user.  Everything in the code   *)
(* is keyed by userId (lock:<userId>, balance:<userId>, the PayoutUser     *)
(* document), so users do not interact and one is enough.                  *)
(*                                                                         *)
(* A transaction id stands for one call of initiatePayout; it also stands  *)
(* for the random lock value that call generates.                          *)
(***************************************************************************)
EXTENDS RedisStore, FiniteSets

CONSTANTS
    Txns,            \* calls of initiatePayout
    Readers,         \* calls of getUserBalance
    Adjusters,       \* calls of the admin's adjustBalance
    Procs,           \* payout worker processes
    Slots,           \* in-flight messages they may hold (channel prefetch)
    ProcOf,          \* the process a slot belongs to
    Amount,          \* what each payout asks for
    AdjustBy,        \* what each adjustment adds (credit) or takes (debit)
    InitialBalance,  \* PayoutUser.balance at the start
    LockAttempts,    \* tries of acquireWithRetry
    MaxRetries,      \* MAX_RETRY_ATTEMPTS of the consumer
    Budget           \* bound on every kind of environment event, see Kinds

\* fault: a store call rejects, before or after its effect.   crash: a process
\* dies.   expire: the lock reaches its TTL.   evict: the balance key leaves
\* Redis.   conn: a worker's broker connection drops.   refuse: sendToQueue
\* reports a full buffer.   admin: an operator toggles the account's status.
Kinds == {"fault", "crash", "expire", "evict", "conn", "refuse", "admin"}

\* What travels through payout_queue, retry being the x-retry-count header.
Messages == [tx : Txns, retry : 0..MaxRetries]

ASSUME PayoutAssumption ==
    /\ IsFiniteSet(Txns)
    /\ Nil \notin Txns /\ Nil \notin Messages
    /\ ProcOf \in [Slots -> Procs]
    /\ Amount \in [Txns -> Nat \ {0}]
    /\ AdjustBy \in [Adjusters -> Int \ {0}]
    /\ InitialBalance \in Nat
    /\ LockAttempts \in Nat \ {0}
    /\ MaxRetries \in Nat
    /\ Budget \in [Kinds -> Nat]

VARIABLES
    mongoBalance, active, tx,              \* MongoDB: PayoutUser, Transaction
    redisBalance, lock,                    \* Redis: balance:<u>, lock:<u>
    queue, dlq,                            \* RabbitMQ: payout_queue, payout_dlq
    gpc, seen, tries, held,                \* calls of initiatePayout
    wpc, job, owned, newBalance,           \* worker slots: handler locals
    channel, timers,                       \* per worker process
    opc, opBalance,                        \* readers and adjusters
    spent,                                 \* environment events so far
    debits, credits                        \* history: Lua calls that took effect

mongoVars  == <<mongoBalance, active, tx>>
redisVars  == <<redisBalance, lock>>
brokerVars == <<queue, dlq>>
callVars   == <<gpc, seen, tries, held>>
slotVars   == <<wpc, job, owned, newBalance>>
procVars   == <<channel, timers>>
opVars     == <<opc, opBalance>>
history    == <<debits, credits>>
vars == <<mongoVars, redisVars, brokerVars, callVars, slotVars, procVars,
          opVars, spent, history>>

-----------------------------------------------------------------------------
(* Types *)

Operations == Readers \cup Adjusters
TxStatus == {"absent", "initiated", "processing", "completed", "failed"}

\* Where a call of initiatePayout is between two awaits.
AwaitingCall == {"start", "lock", "account", "balance", "fill", "funds",
                 "screen", "create", "publish", "release"}
CallOver == {"accepted", "rejected", "crashed"}

\* Where processMessage is; the last three are its catch block and the
\* consumer's _handleFailure.
InTry == {"claim", "recheck", "deduct", "complete", "sync", "unlock"}
SlotSteps == InTry \cup {"idle", "ack", "rollback", "markFailed", "requeue"}

OpSteps == {"start", "write", "redis", "fill", "done"}

TypeOK ==
    /\ mongoBalance \in Int
    /\ active \in BOOLEAN
    /\ tx \in [Txns -> TxStatus]
    /\ redisBalance \in Int \cup {Nil}
    /\ lock \in Txns \cup {Nil}
    /\ queue \subseteq Messages
    /\ dlq \subseteq Messages
    /\ gpc \in [Txns -> AwaitingCall \cup CallOver]
    /\ seen \in [Txns -> [balance : Int, active : BOOLEAN]]
    /\ tries \in [Txns -> Nat]
    /\ held \in [Txns -> BOOLEAN]
    /\ wpc \in [Slots -> SlotSteps]
    /\ job \in [Slots -> Messages \cup {Nil}]
    /\ owned \in [Slots -> BOOLEAN]
    /\ newBalance \in [Slots -> Int]
    /\ channel \in [Procs -> {"open", "closed"}]
    /\ timers \in [Procs -> SUBSET Messages]
    /\ opc \in [Operations -> OpSteps]
    /\ opBalance \in [Operations -> Int]
    /\ spent \in [Kinds -> Nat]
    /\ debits \in [Txns -> Nat]
    /\ credits \in [Txns -> Nat]

-----------------------------------------------------------------------------
(* Shared pieces of the actions *)

\* One more event of the kind, as long as its bound allows it.
Spend(kind) == /\ spent[kind] < Budget[kind]
               /\ spent' = [spent EXCEPT ![kind] = @ + 1]

\* An awaited store call that took effect either answers, or its answer is
\* lost and the await rejects.
Answered(pc, who, next, onError) ==
    \/ pc' = [pc EXCEPT ![who] = next] /\ UNCHANGED spent
    \/ pc' = [pc EXCEPT ![who] = onError] /\ Spend("fault")
=============================================================================
