----------------------------- MODULE Scheduler -----------------------------
(***************************************************************************)
(* Scheduled payouts: the ticks of SchedulerService in any number of       *)
(* gateway instances, and the requests of SchedulerController that create, *)
(* cancel and edit a scheduled payout while they run.                      *)
(*                                                                         *)
(* A plan is one ScheduledPayout document.  Its amount is the one it was   *)
(* created with or the one an edit gave it.                                *)
(***************************************************************************)
EXTENDS Naturals, FiniteSets

CONSTANTS
    Plans,       \* documents that may be created
    Ticks,       \* ticks that may run at once, of one instance or of several
    Cancels,     \* calls of cancel
    Edits,       \* calls of update
    PlanOf,      \* the plan each of these calls is about
    Nil,
    Budget       \* bound on each kind of event of the surroundings

\* fault: a MongoDB call of a tick rejects.   crash: the instance running a
\* tick dies.   refuse: the broker's write buffer is full.
Kinds == {"fault", "crash", "refuse"}
Requests == Cancels \cup Edits

ASSUME SchedulerAssumption ==
    /\ Nil \notin Plans
    /\ Cancels \cap Edits = {}
    /\ PlanOf \in [Requests -> Plans]
    /\ Budget \in [Kinds -> Nat]

VARIABLES
    status, amount, due,   \* the documents; due: scheduledAt has passed
    leader,                \* the key scheduler:leader exists
    tpc, plan, asked,      \* ticks: step, claimed document and its amount
    rpc,                   \* requests: step
    spent,                 \* events so far
    initiated, paid        \* history: payouts handed to the worker, and the
                           \* amount of the last one

planVars == <<status, amount, due>>
tickVars == <<tpc, plan, asked>>
history  == <<initiated, paid>>
vars == <<planVars, leader, tickVars, rpc, spent, history>>

PlanStatus == {"absent", "pending", "processing", "completed", "failed",
               "cancelled"}
Amounts == {"first", "edited"}
Working == {"find", "execute", "complete", "fail"}

TypeOK ==
    /\ status \in [Plans -> PlanStatus]
    /\ amount \in [Plans -> Amounts]
    /\ due \in [Plans -> BOOLEAN]
    /\ leader \in BOOLEAN
    /\ tpc \in [Ticks -> {"off", "elect"} \cup Working]
    /\ plan \in [Ticks -> Plans \cup {Nil}]
    /\ asked \in [Ticks -> Amounts]
    /\ rpc \in [Requests -> {"start", "save", "done", "refused"}]
    /\ spent \in [Kinds -> Nat]
    /\ initiated \in [Plans -> Nat]
    /\ paid \in [Plans -> Amounts]

Spend(kind) == /\ spent[kind] < Budget[kind]
               /\ spent' = [spent EXCEPT ![kind] = @ + 1]

-----------------------------------------------------------------------------
(* One tick *)

\* setInterval (or start) calls _tick.
Fire(k) ==
    /\ tpc[k] = "off"
    /\ tpc' = [tpc EXCEPT ![k] = "elect"]
    /\ UNCHANGED <<planVars, leader, plan, asked, rpc, spent, history>>

\* SET scheduler:leader PX NX; a tick that loses returns.
Elect(k) ==
    /\ tpc[k] = "elect"
    /\ leader' = TRUE
    /\ tpc' = [tpc EXCEPT ![k] = IF leader THEN "off" ELSE "find"]
    /\ UNCHANGED <<planVars, plan, asked, rpc, spent, history>>

\* findOneAndUpdate: any one pending plan that is due becomes "processing".
Claimable_Cancelled(d) == due[d] /\ status[d] \in {"pending", "cancelled"}
Claimable(d) == due[d] /\ status[d] = "pending"

ClaimedStatus_Unchanged(d) == status[d]
ClaimedStatus(d) == "processing"

Claim(k) ==
    /\ tpc[k] = "find"
    /\ \E d \in Plans :
          /\ Claimable(d)
          /\ status' = [status EXCEPT ![d] = ClaimedStatus(d)]
          /\ plan' = [plan EXCEPT ![k] = d]
          /\ asked' = [asked EXCEPT ![k] = amount[d]]
    /\ tpc' = [tpc EXCEPT ![k] = "execute"]
    /\ UNCHANGED <<amount, due, leader, rpc, spent, history>>

\* Nothing is due: the tick is over, the leader key stays.
FindNothing(k) ==
    /\ tpc[k] = "find"
    /\ \A d \in Plans : ~Claimable(d)
    /\ tpc' = [tpc EXCEPT ![k] = "off"]
    /\ UNCHANGED <<planVars, leader, plan, asked, rpc, spent, history>>

\* initiatePayout, with the amount of the document as it was claimed.  When it
\* rejects, the catch block records the failure: without a payout, or with one,
\* when the write buffer was full and the message went into it all the same
\* (publish returns false).
OnRejected == "fail"

HandOver(d, a) ==
    /\ initiated' = [initiated EXCEPT ![d] = @ + 1]
    /\ paid' = [paid EXCEPT ![d] = a]

Execute(k) ==
    /\ tpc[k] = "execute"
    /\ \/ /\ HandOver(plan[k], asked[k])
          /\ tpc' = [tpc EXCEPT ![k] = "complete"]
          /\ UNCHANGED spent
       \/ /\ tpc' = [tpc EXCEPT ![k] = OnRejected]
          /\ UNCHANGED <<spent, history>>
       \/ /\ HandOver(plan[k], asked[k])
          /\ tpc' = [tpc EXCEPT ![k] = OnRejected]
          /\ Spend("refuse")
    /\ UNCHANGED <<planVars, leader, plan, asked, rpc>>

\* Where an executed plan's tick goes on: setImmediate calls _tick again.
Free(k, next) ==
    /\ tpc' = [tpc EXCEPT ![k] = next]
    /\ plan' = [plan EXCEPT ![k] = Nil]

\* updateOne by _id: "completed" whatever the status is by now.  The catch
\* block around it takes a lost answer for a failed payout.
RecordCompleted(k) ==
    /\ tpc[k] = "complete"
    /\ status' = [status EXCEPT ![plan[k]] = "completed"]
    /\ \/ Free(k, "elect") /\ UNCHANGED spent
       \/ /\ tpc' = [tpc EXCEPT ![k] = "fail"]
          /\ Spend("fault") /\ UNCHANGED plan
    /\ UNCHANGED <<amount, due, leader, asked, rpc, history>>

\* The same for "failed"; a rejection here ends in _tick's catch block.
RecordFailed(k) ==
    /\ tpc[k] = "fail"
    /\ status' = [status EXCEPT ![plan[k]] = "failed"]
    /\ \/ Free(k, "elect") /\ UNCHANGED spent
       \/ Free(k, "off") /\ Spend("fault")
    /\ UNCHANGED <<amount, due, leader, asked, rpc, history>>

\* A MongoDB call of the tick rejects before it had any effect.
TickFault(k) ==
    /\ Spend("fault")
    /\ \/ tpc[k] = "complete" /\ tpc' = [tpc EXCEPT ![k] = "fail"] /\ UNCHANGED plan
       \/ tpc[k] \in {"find", "fail"} /\ Free(k, "off")
    /\ UNCHANGED <<planVars, leader, asked, rpc, history>>

\* The claim took effect and its answer is lost: nobody has the plan.
ClaimLost(k) ==
    /\ tpc[k] = "find"
    /\ Spend("fault")
    /\ \E d \in Plans : /\ Claimable(d)
                        /\ status' = [status EXCEPT ![d] = ClaimedStatus(d)]
    /\ tpc' = [tpc EXCEPT ![k] = "off"]
    /\ UNCHANGED <<amount, due, leader, plan, asked, rpc, history>>

\* The instance dies: also what a rejected SET of the leader key leads to,
\* which no catch block handles.
TickCrash(k) ==
    /\ tpc[k] # "off"
    /\ Spend("crash")
    /\ Free(k, "off")
    /\ UNCHANGED <<planVars, leader, asked, rpc, history>>

TickStep(k) ==
    \/ Fire(k) \/ Elect(k) \/ Claim(k) \/ FindNothing(k) \/ Execute(k)
    \/ RecordCompleted(k) \/ RecordFailed(k)

-----------------------------------------------------------------------------
(* Requests about a plan *)

Create(d) ==
    /\ status[d] = "absent"
    /\ status' = [status EXCEPT ![d] = "pending"]
    /\ UNCHANGED <<amount, due, leader, tickVars, rpc, spent, history>>

\* findOne and the check of the status.
Look(r) ==
    /\ rpc[r] = "start"
    /\ status[PlanOf[r]] # "absent"
    /\ rpc' = [rpc EXCEPT ![r] = IF status[PlanOf[r]] = "pending"
                                 THEN "save" ELSE "refused"]
    /\ UNCHANGED <<planVars, leader, tickVars, spent, history>>

\* cancel's save writes the field it changed, over whatever is there by now.
Cancel(r) ==
    /\ rpc[r] = "save"
    /\ status' = [status EXCEPT ![PlanOf[r]] = "cancelled"]
    /\ rpc' = [rpc EXCEPT ![r] = "done"]
    /\ UNCHANGED <<amount, due, leader, tickVars, spent, history>>

\* update's save writes the amount, the time (which may move into the future
\* again), or both.
Edit(r) ==
    LET d == PlanOf[r] IN
    /\ rpc[r] = "save"
    /\ \E a \in {amount[d], "edited"}, later \in BOOLEAN :
          /\ amount' = [amount EXCEPT ![d] = a]
          /\ due' = [due EXCEPT ![d] = @ /\ ~later]
    /\ rpc' = [rpc EXCEPT ![r] = "done"]
    /\ UNCHANGED <<status, leader, tickVars, spent, history>>

-----------------------------------------------------------------------------
(* Time *)

\* scheduledAt passes.
Due(d) ==
    /\ status[d] # "absent" /\ ~due[d]
    /\ due' = [due EXCEPT ![d] = TRUE]
    /\ UNCHANGED <<status, amount, leader, tickVars, rpc, spent, history>>

\* The leader key reaches its TTL (PX); nothing else removes it, and nothing
\* keeps a tick from running longer.
HasTtl_Never == FALSE
HasTtl == leader

LeaderExpires ==
    /\ HasTtl
    /\ leader' = FALSE
    /\ UNCHANGED <<planVars, tickVars, rpc, spent, history>>

Init ==
    /\ status = [d \in Plans |-> "absent"]
    /\ amount = [d \in Plans |-> "first"]
    /\ due = [d \in Plans |-> FALSE]
    /\ leader = FALSE
    /\ tpc = [k \in Ticks |-> "off"]
    /\ plan = [k \in Ticks |-> Nil]
    /\ asked = [k \in Ticks |-> "first"]
    /\ rpc = [r \in Requests |-> "start"]
    /\ spent = [kind \in Kinds |-> 0]
    /\ initiated = [d \in Plans |-> 0]
    /\ paid = [d \in Plans |-> "first"]

Next ==
    \/ \E k \in Ticks : TickStep(k) \/ TickFault(k) \/ ClaimLost(k) \/ TickCrash(k)
    \/ \E d \in Plans : Create(d) \/ Due(d)
    \/ \E r \in Requests : Look(r)
    \/ \E r \in Cancels : Cancel(r)
    \/ \E r \in Edits : Edit(r)
    \/ LeaderExpires

Spec == Init /\ [][Next]_vars

\* Fairness of the interval timers and event loops, of Redis's clock, and of
\* time itself.
Fairness ==
    /\ \A k \in Ticks : WF_vars(TickStep(k))
    /\ \A d \in Plans : WF_vars(Due(d))
    /\ WF_vars(LeaderExpires)

FairSpec == Spec /\ Fairness
=============================================================================
