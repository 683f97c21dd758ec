------------------------ MODULE SchedulerProperties ------------------------
(***************************************************************************)
(* What scheduled payouts promise.                                         *)
(***************************************************************************)
EXTENDS Scheduler

\* However many instances tick, however often the leader key expires under a
\* slow tick, and whatever is cancelled, edited, lost or crashes meanwhile, a
\* scheduled payout is published to the worker at most once.
RunsOnce == \A d \in Plans : initiated[d] <= 1

\* Two ticks never work on the same plan.
SoleTick == \A j, k \in Ticks : plan[j] = plan[k] /\ plan[j] # Nil => j = k

\* A plan shown as completed was handed over, once.  One shown as failed was
\* not, with one exception for each rejected store call and each full write
\* buffer, which is all that such an event may falsify
\* (_executeScheduledPayout's catch block records a failure for a payout that
\* initiatePayout had published).
FalselyFailed == {d \in Plans : status[d] = "failed" /\ initiated[d] > 0}

OutcomeIsTrue ==
    /\ \A d \in Plans : status[d] = "completed" => initiated[d] = 1
    /\ Cardinality(FalselyFailed) <= spent["fault"] + spent["refuse"]

\* The inductive invariant behind RunsOnce: a plan nobody has claimed was never
\* handed over, and nothing makes a claimed plan pending again.
Busy == {"execute", "complete", "fail"}
BusyHasPlan == \A k \in Ticks : tpc[k] \in Busy <=> plan[k] # Nil
UnclaimedIsNew ==
    \A d \in Plans : status[d] \in {"absent", "pending"} =>
        initiated[d] = 0 /\ \A k \in Ticks : plan[k] # d
ExecutesNew == \A k \in Ticks : tpc[k] = "execute" => initiated[plan[k]] = 0
CompletesPaid ==
    /\ \A k \in Ticks : tpc[k] = "complete" => initiated[plan[k]] = 1
    /\ \A d \in Plans : status[d] = "completed" => initiated[d] = 1

RunInv == /\ TypeOK /\ SoleTick /\ BusyHasPlan /\ UnclaimedIsNew
          /\ ExecutesNew /\ CompletesPaid /\ RunsOnce

\* Every due plan is picked up, although ticks claim one plan each and mostly
\* find the leader key taken (it may also be cancelled, or put off).
DueIsPickedUp ==
    \A d \in Plans :
       status[d] = "pending" /\ due[d] ~> status[d] # "pending" \/ ~due[d]

\* A plan taken into processing ends, unless a store call failed or an instance
\* died on the way.
ProcessingEnds ==
    \A d \in Plans :
       status[d] = "processing" ~>
          \/ status[d] \in {"completed", "failed", "cancelled"}
          \/ spent["fault"] > 0 \/ spent["crash"] > 0

\* No plan is left behind: neither a due one nor one that is taken.
PlansMove == DueIsPickedUp /\ ProcessingEnds

\* A plan whose cancellation is confirmed is taken up by no tick any more: it
\* is paid only when a tick had claimed it between the cancellation's read and
\* its save, which the save does not notice (scheduler.controller.js:95 "Can
\* only cancel payouts that haven't started yet").  Nothing is said of the
\* status: a tick that had claimed the plan writes its outcome over "cancelled".
CancelledIsLeftAlone ==
    [][\A r \in Cancels, k \in Ticks :
          rpc[r] = "done" /\ plan[k] # PlanOf[r] => plan'[k] # PlanOf[r]]_vars
=============================================================================
