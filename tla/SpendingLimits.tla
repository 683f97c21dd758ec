-------------------------- MODULE SpendingLimits --------------------------
(***************************************************************************)
(* The spending limits of one user: the check each payout passes under the *)
(* user's lock, the counters the worker raises after the payout is         *)
(* complete and the lock is free again, and the operations on the limits.  *)
(* What else a payout goes through is the subject of Payout; here it is    *)
(* admitted, and then completes or fails.                                  *)
(***************************************************************************)
EXTENDS Integers, FiniteSets, FiniteSums

CONSTANTS
    Periods,     \* daily, weekly, monthly
    Payouts,
    AmountOf,    \* the amount of each payout
    Limits,      \* amounts a limit may be set to
    Nil,
    Budget       \* bound on each kind of event of the surroundings

\* set, remove, clear: the operations on limits.   reset: a period ends.
\* fault: a store call rejects.   crash: a process dies in the midst of a
\* payout.   expire: the user's lock reaches its TTL.
Kinds == {"set", "remove", "clear", "reset", "fault", "crash", "expire"}

ASSUME SpendingAssumption ==
    /\ IsFiniteSet(Payouts)
    /\ Limits \subseteq Nat
    /\ Nil \notin Nat \cup Periods \cup Payouts
    /\ AmountOf \in [Payouts -> Nat]
    /\ Budget \in [Kinds -> Nat]

VARIABLES
    limit,       \* the SpendingLimit documents
    counter,     \* spending:<user>:<period>
    ttl,         \* that key has a TTL
    lock,        \* lock:<user>
    pc,          \* where each payout is
    limits,      \* the documents its check found
    left,        \* the periods it has still to check, or to record
    at,          \* the period whose key it is about to give a TTL
    clearing,    \* deleteLimit calls about to delete a counter
    spent,
    before,      \* history, per period: payouts completed before it began,
    unchecked    \* and payouts admitted without knowing all that counts today

limitVars == <<limit, clearing>>
counterVars == <<counter, ttl>>
payoutVars == <<lock, pc, limits, left, at>>
history == <<before, unchecked>>
spendingVars == <<limitVars, counterVars, payoutVars, spent, history>>

Steps == {"start", "find", "check", "admitted", "record", "incr", "ttl",
          "expire", "done", "refused", "dead"}

TypeOK ==
    /\ limit \in [Periods -> Limits \cup {Nil}]
    /\ counter \in [Periods -> Nat \cup {Nil}]
    /\ ttl \in [Periods -> BOOLEAN]
    /\ lock \in Payouts \cup {Nil}
    /\ pc \in [Payouts -> Steps]
    /\ limits \in [Payouts -> [Periods -> Limits \cup {Nil}]]
    /\ left \in [Payouts -> SUBSET Periods]
    /\ at \in [Payouts -> Periods \cup {Nil}]
    /\ clearing \in SUBSET Periods
    /\ spent \in [Kinds -> Nat]
    /\ before \in [Periods -> SUBSET Payouts]
    /\ unchecked \in [Periods -> SUBSET Payouts]

Spend(kind) == /\ spent[kind] < Budget[kind]
               /\ spent' = [spent EXCEPT ![kind] = @ + 1]

Goto(p, step) == pc' = [pc EXCEPT ![p] = step]
Free(p) == lock' = IF lock = p THEN Nil ELSE lock
NoLimits == [t \in Periods |-> Nil]
Limited(docs) == {t \in Periods : docs[t] # Nil}

Completed == {p \in Payouts : pc[p] \in {"record", "incr", "ttl", "expire", "done"}}

\* Payouts whose amount is still to be added to the counter of period t.
Recording == {"incr", "ttl", "expire"}
Unrecorded(t) ==
    {p \in Payouts : \/ pc[p] \in {"check", "admitted", "record"}
                     \/ pc[p] \in Recording /\ t \in left[p]}

-----------------------------------------------------------------------------
(* The check, in the gateway *)

\* acquireWithRetry succeeds; a payout that never gets the lock takes no part.
Acquire(p) ==
    /\ pc[p] = "start" /\ lock = Nil
    /\ lock' = p
    /\ Goto(p, "find")
    /\ UNCHANGED <<limitVars, counterVars, limits, left, at, spent, history>>

\* SpendingLimit.find
FindLimits(p) ==
    /\ pc[p] = "find"
    /\ limits' = [limits EXCEPT ![p] = limit]
    /\ left' = [left EXCEPT ![p] = Limited(limit)]
    /\ Goto(p, "check")
    /\ UNCHANGED <<limitVars, counterVars, lock, at, spent, history>>

Exceeds_AmountForgotten(p, t) == counter[t] > limits[p][t]
Exceeds(p, t) == counter[t] + AmountOf[p] > limits[p][t]

\* getCurrentUsage and the comparison, for the limits in any order.
CheckPasses(p) ==
    /\ pc[p] = "check"
    /\ \E t \in left[p] :
          /\ counter[t] # Nil /\ ~Exceeds(p, t)
          /\ left' = [left EXCEPT ![p] = @ \ {t}]
          /\ unchecked' = IF Unrecorded(t) \subseteq {p} THEN unchecked
                          ELSE [unchecked EXCEPT ![t] = @ \cup {p}]
    /\ UNCHANGED <<limitVars, counterVars, lock, pc, limits, at, spent, before>>

\* Over a limit; or no counter, which the service works out from MongoDB and
\* hands to redis.setEx, a method ioredis has not: the call throws.
CheckFails(p) ==
    /\ pc[p] = "check"
    /\ \E t \in left[p] : counter[t] # Nil => Exceeds(p, t)
    /\ Goto(p, "refused")
    /\ Free(p)
    /\ UNCHANGED <<limitVars, counterVars, limits, left, at, spent, history>>

\* All limits that were found are kept; the check forgets them.
Admit(p) ==
    /\ pc[p] = "check" /\ left[p] = {}
    /\ Goto(p, "admitted")
    /\ unchecked' = [t \in Periods |-> IF limits[p][t] # limit[t]
                                       THEN unchecked[t] \cup {p} ELSE unchecked[t]]
    /\ limits' = [limits EXCEPT ![p] = NoLimits]
    /\ UNCHANGED <<limitVars, counterVars, lock, left, at, spent, before>>

-----------------------------------------------------------------------------
(* The worker *)

\* markAsCompleted and the lock's release.
Complete(p) ==
    /\ pc[p] = "admitted"
    /\ Goto(p, "record")
    /\ Free(p)
    /\ UNCHANGED <<limitVars, counterVars, limits, left, at, spent, history>>

\* Any failure between the check and the completion.
Fail(p) ==
    /\ pc[p] \in {"find", "check", "admitted"}
    /\ Goto(p, "refused")
    /\ Free(p)
    /\ UNCHANGED <<limitVars, counterVars, limits, left, at, spent, history>>

\* recordSpend, which nobody waits for: SpendingLimit.find again.
Record(p) ==
    /\ pc[p] = "record"
    /\ left' = [left EXCEPT ![p] = Limited(limit)]
    /\ Goto(p, "incr")
    /\ UNCHANGED <<limitVars, counterVars, lock, limits, at, spent, history>>

\* INCRBYFLOAT: a key that did not exist has no TTL.
Increment(p) ==
    /\ pc[p] = "incr"
    /\ \E t \in left[p] :
          /\ counter' = [counter EXCEPT ![t] = AmountOf[p] + (IF @ = Nil THEN 0 ELSE @)]
          /\ left' = [left EXCEPT ![p] = @ \ {t}]
          /\ at' = [at EXCEPT ![p] = t]
    /\ Goto(p, "ttl")
    /\ UNCHANGED <<limitVars, ttl, lock, limits, spent, history>>

\* TTL, negative for a key without one and for a missing key.
LacksTtl_OnlyMissing(t) == counter[t] = Nil
LacksTtl(t) == ~ttl[t]

ReadTtl(p) ==
    /\ pc[p] = "ttl"
    /\ Goto(p, IF LacksTtl(at[p]) THEN "expire" ELSE "incr")
    /\ UNCHANGED <<limitVars, counterVars, lock, limits, left, at, spent, history>>

\* EXPIRE does nothing to a missing key.
SetTtl(p) ==
    /\ pc[p] = "expire"
    /\ ttl' = [ttl EXCEPT ![at[p]] = counter[at[p]] # Nil]
    /\ Goto(p, "incr")
    /\ UNCHANGED <<limitVars, counter, lock, limits, left, at, spent, history>>

Recorded(p) ==
    /\ pc[p] = "incr" /\ left[p] = {}
    /\ Goto(p, "done")
    /\ UNCHANGED <<limitVars, counterVars, lock, limits, left, at, spent, history>>

\* A store call of recordSpend rejects: what is left is not recorded.  A crash
\* of the worker has the same effect.
RecordLost(p) ==
    /\ pc[p] \in {"record", "incr", "ttl", "expire"}
    /\ Spend("fault") \/ Spend("crash")
    /\ Goto(p, "done")
    /\ UNCHANGED <<limitVars, counterVars, lock, limits, left, at, history>>

\* A process dies before the payout is complete; the lock stays.
Crash(p) ==
    /\ pc[p] \in {"find", "check", "admitted"}
    /\ Spend("crash")
    /\ Goto(p, "dead")
    /\ UNCHANGED <<limitVars, counterVars, lock, limits, left, at, history>>

-----------------------------------------------------------------------------
(* The limits, and time *)

\* setLimit or setUserSpendingLimit: an upsert.
SetLimit(t, a) ==
    /\ Spend("set")
    /\ limit' = [limit EXCEPT ![t] = a]
    /\ unchecked' = IF limit[t] = a THEN unchecked
                    ELSE [unchecked EXCEPT ![t] = @ \cup Completed \cup
                             {p \in Payouts : pc[p] = "admitted"}]
    /\ UNCHANGED <<clearing, counterVars, payoutVars, before>>

\* removeUserSpendingLimit: the counter stays.
RemoveLimit(t) ==
    /\ limit[t] # Nil
    /\ Spend("remove")
    /\ limit' = [limit EXCEPT ![t] = Nil]
    /\ UNCHANGED <<clearing, counterVars, payoutVars, history>>

\* deleteLimit: first the document, then the counter.
DeleteLimit(t) ==
    /\ limit[t] # Nil
    /\ Spend("clear")
    /\ limit' = [limit EXCEPT ![t] = Nil]
    /\ clearing' = clearing \cup {t}
    /\ UNCHANGED <<counterVars, payoutVars, history>>

ClearCounter(t) ==
    /\ t \in clearing
    /\ clearing' = clearing \ {t}
    /\ counter' = [counter EXCEPT ![t] = Nil]
    /\ ttl' = [ttl EXCEPT ![t] = FALSE]
    /\ UNCHANGED <<limit, payoutVars, spent, history>>

\* A period ends, and with it the life of a counter that has a TTL.
Reset(t) ==
    /\ Spend("reset")
    /\ counter' = IF ttl[t] THEN [counter EXCEPT ![t] = Nil] ELSE counter
    /\ ttl' = [ttl EXCEPT ![t] = FALSE]
    /\ before' = [before EXCEPT ![t] = Completed]
    /\ UNCHANGED <<limitVars, payoutVars, unchecked>>

ExpireLock ==
    /\ lock # Nil
    /\ Spend("expire")
    /\ lock' = Nil
    /\ UNCHANGED <<limitVars, counterVars, pc, limits, left, at, history>>

SpendingInit ==
    /\ limit = NoLimits
    /\ counter = [t \in Periods |-> Nil]
    /\ ttl = [t \in Periods |-> FALSE]
    /\ lock = Nil
    /\ pc = [p \in Payouts |-> "start"]
    /\ limits = [p \in Payouts |-> NoLimits]
    /\ left = [p \in Payouts |-> {}]
    /\ at = [p \in Payouts |-> Nil]
    /\ clearing = {}
    /\ spent = [kind \in Kinds |-> 0]
    /\ before = [t \in Periods |-> {}]
    /\ unchecked = [t \in Periods |-> {}]

PayoutStep(p) ==
    \/ Acquire(p) \/ FindLimits(p) \/ CheckPasses(p) \/ CheckFails(p) \/ Admit(p)
    \/ Complete(p) \/ Fail(p) \/ Record(p) \/ Increment(p) \/ ReadTtl(p)
    \/ SetTtl(p) \/ Recorded(p)

LimitStep(t) ==
    \/ \E a \in Limits : SetLimit(t, a)
    \/ RemoveLimit(t) \/ DeleteLimit(t) \/ ClearCounter(t) \/ Reset(t)

SpendingNext ==
    \/ \E p \in Payouts : PayoutStep(p) \/ RecordLost(p) \/ Crash(p)
    \/ \E t \in Periods : LimitStep(t)
    \/ ExpireLock

SpendingSpec == SpendingInit /\ [][SpendingNext]_spendingVars

-----------------------------------------------------------------------------
(* Properties *)

Total(S) == Sum(AmountOf, S)

\* "No more than $500 per day": what completes within a period stays within
\* the limit, but for the payouts admitted before the limit was set or while
\* another payout's amount was still to be recorded.  So recording in the
\* background costs no more than the payouts that overtook it.
CountsIn(t) == (Completed \ before[t]) \ unchecked[t]
LimitEnforced ==
    spent["crash"] + spent["fault"] + spent["clear"] = 0 =>
       \A t \in Limited(limit) : Total(CountsIn(t)) <= limit[t]

\* A counter without a TTL would outlive its period and, once over the limit,
\* refuse every payout for ever: there is one only while some recordSpend is
\* about to give it its TTL, or after one was cut short.
NoImmortalCounter ==
    \A t \in Periods :
       counter[t] # Nil /\ ~ttl[t] =>
          \/ \E p \in Payouts : pc[p] \in {"ttl", "expire"} /\ at[p] = t
          \/ spent["crash"] + spent["fault"] > 0

\* The inductive invariant behind NoImmortalCounter.
TtlNeedsCounter == \A t \in Periods : ttl[t] => counter[t] # Nil
TtlOfPeriod == \A p \in Payouts : pc[p] \in {"ttl", "expire"} => at[p] \in Periods
SpendingInv == TypeOK /\ TtlNeedsCounter /\ TtlOfPeriod /\ NoImmortalCounter
=============================================================================
