-------------------------- MODULE SchedulerProofs --------------------------
(***************************************************************************)
(* Theorems about scheduled payouts, for any number of plans, ticks and    *)
(* requests and any budget of failures.                                    *)
(***************************************************************************)
EXTENDS SchedulerProperties, FiniteSetTheorems, TLAPS

USE SchedulerAssumption

\* Counting an event keeps the counters typed.
LEMMA SpendTypes ==
    ASSUME TypeOK, NEW kind \in Kinds, Spend(kind)
    PROVE  spent' \in [Kinds -> Nat]
  BY DEF TypeOK, Spend

LEMMA Initially == Init => RunInv
<1> SUFFICES ASSUME Init PROVE RunInv
  OBVIOUS
<1> USE DEF Init
<1>1. TypeOK
  BY DEF TypeOK, PlanStatus, Amounts, Working
<1>2. BusyHasPlan
  BY DEF BusyHasPlan, Busy
<1>3. SoleTick /\ UnclaimedIsNew
  BY DEF SoleTick, UnclaimedIsNew
<1>4. ExecutesNew /\ CompletesPaid /\ RunsOnce
  BY DEF ExecutesNew, CompletesPaid, RunsOnce
<1> QED
  BY <1>1, <1>2, <1>3, <1>4 DEF RunInv

-----------------------------------------------------------------------------
(* Types *)

\* A step of a tick keeps the types; BusyHasPlan says that it holds a plan.
LEMMA TickTypes ==
    ASSUME TypeOK, BusyHasPlan, NEW k \in Ticks,
           TickStep(k) \/ TickFault(k) \/ ClaimLost(k) \/ TickCrash(k)
    PROVE  TypeOK'
<1> USE DEF TypeOK, planVars, history, Working, PlanStatus, Amounts
<1>1. CASE Fire(k)
  BY <1>1 DEF Fire
<1>2. CASE Elect(k)
  BY <1>2 DEF Elect
<1>3. CASE Claim(k)
  BY <1>3 DEF Claim, ClaimedStatus
<1>4. CASE FindNothing(k)
  BY <1>4 DEF FindNothing
<1>5. CASE Execute(k)
  <2>1. plan[k] \in Plans
    BY <1>5 DEF Execute, BusyHasPlan, Busy
  <2>2. initiated' \in [Plans -> Nat] /\ paid' \in [Plans -> Amounts]
    BY <1>5, <2>1 DEF Execute, HandOver
  <2>3. tpc' \in [Ticks -> {"off", "elect"} \cup Working]
    BY <1>5 DEF Execute, OnRejected
  <2>4. spent' \in [Kinds -> Nat]
    BY <1>5, SpendTypes DEF Execute, Kinds
  <2> QED
    BY <1>5, <2>2, <2>3, <2>4 DEF Execute
<1>6. CASE RecordCompleted(k)
  <2>1. spent' \in [Kinds -> Nat]
    BY <1>6, SpendTypes DEF RecordCompleted, Kinds
  <2>2. status' \in [Plans -> PlanStatus]
    BY <1>6 DEF RecordCompleted
  <2>3. /\ tpc' \in [Ticks -> {"off", "elect"} \cup Working]
        /\ plan' \in [Ticks -> Plans \cup {Nil}]
    BY <1>6 DEF RecordCompleted, Free
  <2> QED
    BY <1>6, <2>1, <2>2, <2>3 DEF RecordCompleted
<1>7. CASE RecordFailed(k)
  <2>1. spent' \in [Kinds -> Nat]
    BY <1>7, SpendTypes DEF RecordFailed, Kinds
  <2>2. status' \in [Plans -> PlanStatus]
    BY <1>7 DEF RecordFailed
  <2>3. /\ tpc' \in [Ticks -> {"off", "elect"} \cup Working]
        /\ plan' \in [Ticks -> Plans \cup {Nil}]
    BY <1>7 DEF RecordFailed, Free
  <2> QED
    BY <1>7, <2>1, <2>2, <2>3 DEF RecordFailed
<1>8. CASE TickFault(k)
  <2>1. spent' \in [Kinds -> Nat]
    BY <1>8, SpendTypes DEF TickFault, Kinds
  <2> QED
    BY <1>8, <2>1 DEF TickFault, Free
<1>9. CASE ClaimLost(k)
  <2>1. spent' \in [Kinds -> Nat]
    BY <1>9, SpendTypes DEF ClaimLost, Kinds
  <2>2. status' \in [Plans -> PlanStatus]
    BY <1>9 DEF ClaimLost, ClaimedStatus
  <2>3. tpc' \in [Ticks -> {"off", "elect"} \cup Working]
    BY <1>9 DEF ClaimLost
  <2> QED
    BY <1>9, <2>1, <2>2, <2>3 DEF ClaimLost
<1>10. CASE TickCrash(k)
  <2>1. spent' \in [Kinds -> Nat]
    BY <1>10, SpendTypes DEF TickCrash, Kinds
  <2> QED
    BY <1>10, <2>1 DEF TickCrash, Free
<1> QED
  BY <1>1, <1>2, <1>3, <1>4, <1>5, <1>6, <1>7, <1>8, <1>9, <1>10 DEF TickStep

-----------------------------------------------------------------------------
(* The steps of the ticks *)

\* A step that leaves the plans and what the ticks hold alone, and starts or
\* ends no work, keeps the rest of the invariant.
LEMMA IdleStep ==
    ASSUME RunInv, TypeOK', NEW k \in Ticks,
           Fire(k) \/ Elect(k) \/ FindNothing(k)
    PROVE  RunInv'
  BY DEF RunInv, TypeOK, SoleTick, BusyHasPlan, UnclaimedIsNew, ExecutesNew,
         CompletesPaid, RunsOnce, Busy, Fire, Elect, FindNothing, planVars, history

\* The claimed plan was pending: nobody held it and it was never handed over.
LEMMA ClaimStep ==
    ASSUME RunInv, TypeOK', NEW k \in Ticks, Claim(k)
    PROVE  RunInv'
<1> USE DEF RunInv, TypeOK, history
<1>1. PICK d \in Plans :
        /\ status[d] = "pending"
        /\ status' = [status EXCEPT ![d] = "processing"]
        /\ plan' = [plan EXCEPT ![k] = d]
  BY DEF Claim, Claimable, ClaimedStatus
<1>2. /\ tpc[k] = "find"
      /\ tpc' = [tpc EXCEPT ![k] = "execute"]
      /\ UNCHANGED initiated
  BY DEF Claim
<1>3. initiated[d] = 0 /\ \A j \in Ticks : plan[j] # d
  BY <1>1 DEF UnclaimedIsNew
<1>4. SoleTick'
  BY <1>1, <1>3 DEF SoleTick
<1>5. BusyHasPlan'
  BY <1>1, <1>2 DEF BusyHasPlan, Busy
<1>6. UnclaimedIsNew'
  BY <1>1, <1>2, <1>3 DEF UnclaimedIsNew
<1>7. ExecutesNew'
  BY <1>1, <1>2, <1>3 DEF ExecutesNew
<1>8. CompletesPaid'
  BY <1>1, <1>2 DEF CompletesPaid
<1>9. RunsOnce'
  BY <1>2 DEF RunsOnce
<1> QED
  BY <1>4, <1>5, <1>6, <1>7, <1>8, <1>9

\* The plan handed over is new and this tick's alone.
LEMMA ExecuteStep ==
    ASSUME RunInv, TypeOK', NEW k \in Ticks, Execute(k)
    PROVE  RunInv'
<1> USE DEF RunInv, TypeOK, planVars
<1> DEFINE d == plan[k]
<1>1. /\ tpc[k] = "execute" /\ d \in Plans /\ d # Nil
      /\ initiated[d] = 0
      /\ UNCHANGED <<status, plan>>
  BY DEF Execute, BusyHasPlan, Busy, ExecutesNew
<1>2. status[d] \notin {"absent", "pending", "completed"}
  BY <1>1 DEF UnclaimedIsNew, CompletesPaid
<1>3. \A j \in Ticks : j # k => plan[j] # d
  BY <1>1 DEF SoleTick
<1>4. ASSUME NEW next \in {"complete", "fail"},
             initiated' = [initiated EXCEPT ![d] = initiated[d] + 1],
             tpc' = [tpc EXCEPT ![k] = next]
      PROVE  RunInv'
  <2>1. initiated' = [initiated EXCEPT ![d] = 1]
    BY <1>1, <1>4
  <2>2. SoleTick' /\ BusyHasPlan'
    BY <1>1, <1>4 DEF SoleTick, BusyHasPlan, Busy
  <2>3. UnclaimedIsNew'
    BY <1>1, <1>2, <2>1 DEF UnclaimedIsNew
  <2>4. ExecutesNew'
    BY <1>1, <1>3, <1>4, <2>1 DEF ExecutesNew, BusyHasPlan, Busy
  <2>5. CompletesPaid'
    BY <1>1, <1>2, <1>3, <1>4, <2>1 DEF CompletesPaid, BusyHasPlan, Busy
  <2>6. RunsOnce'
    BY <2>1 DEF RunsOnce
  <2> QED
    BY <2>2, <2>3, <2>4, <2>5, <2>6
<1>5. CASE tpc' = [tpc EXCEPT ![k] = "fail"] /\ UNCHANGED initiated
  BY <1>1, <1>5 DEF SoleTick, BusyHasPlan, Busy, UnclaimedIsNew, ExecutesNew,
                    CompletesPaid, RunsOnce
<1> QED
  BY <1>4, <1>5 DEF Execute, HandOver, OnRejected, history

\* Recording an outcome, or dying, makes no plan pending and hands none over.
LEMMA EndStep ==
    ASSUME RunInv, TypeOK', NEW k \in Ticks,
           RecordCompleted(k) \/ RecordFailed(k) \/ TickFault(k) \/ ClaimLost(k)
             \/ TickCrash(k)
    PROVE  RunInv'
<1> USE DEF RunInv, TypeOK, history, planVars
<1>1. CASE RecordCompleted(k)
  <2>1. plan[k] \in Plans /\ initiated[plan[k]] = 1 /\ tpc[k] = "complete"
    BY <1>1 DEF RecordCompleted, CompletesPaid, BusyHasPlan, Busy
  <2>2. /\ status' = [status EXCEPT ![plan[k]] = "completed"]
        /\ UNCHANGED initiated
    BY <1>1 DEF RecordCompleted
  <2>3. \/ tpc' = [tpc EXCEPT ![k] = "elect"] /\ plan' = [plan EXCEPT ![k] = Nil]
        \/ tpc' = [tpc EXCEPT ![k] = "fail"] /\ plan' = plan
    BY <1>1 DEF RecordCompleted, Free
  <2>4. SoleTick' /\ BusyHasPlan'
    BY <2>1, <2>3 DEF SoleTick, BusyHasPlan, Busy
  <2>5. UnclaimedIsNew'
    BY <2>1, <2>2, <2>3 DEF UnclaimedIsNew
  <2>6. ExecutesNew' /\ CompletesPaid' /\ RunsOnce'
    BY <2>1, <2>2, <2>3 DEF ExecutesNew, CompletesPaid, RunsOnce
  <2> QED
    BY <2>4, <2>5, <2>6
<1>2. CASE RecordFailed(k)
  <2>1. plan[k] \in Plans /\ tpc[k] = "fail"
    BY <1>2 DEF RecordFailed, BusyHasPlan, Busy
  <2>2. /\ status' = [status EXCEPT ![plan[k]] = "failed"]
        /\ UNCHANGED initiated
        /\ plan' = [plan EXCEPT ![k] = Nil]
    BY <1>2 DEF RecordFailed, Free
  <2>3. \E next \in {"elect", "off"} : tpc' = [tpc EXCEPT ![k] = next]
    BY <1>2 DEF RecordFailed, Free
  <2>4. SoleTick' /\ BusyHasPlan'
    BY <2>1, <2>2, <2>3 DEF SoleTick, BusyHasPlan, Busy
  <2>5. UnclaimedIsNew'
    BY <2>1, <2>2 DEF UnclaimedIsNew
  <2>6. ExecutesNew' /\ CompletesPaid' /\ RunsOnce'
    BY <2>1, <2>2, <2>3 DEF ExecutesNew, CompletesPaid, RunsOnce
  <2> QED
    BY <2>4, <2>5, <2>6
<1>3. CASE TickFault(k)
  <2>1. UNCHANGED <<status, initiated>>
    BY <1>3 DEF TickFault
  <2>2. \/ /\ tpc[k] = "complete" /\ tpc' = [tpc EXCEPT ![k] = "fail"]
           /\ plan' = plan
        \/ tpc' = [tpc EXCEPT ![k] = "off"] /\ plan' = [plan EXCEPT ![k] = Nil]
    BY <1>3 DEF TickFault, Free
  <2>3. SoleTick' /\ BusyHasPlan'
    BY <2>2 DEF SoleTick, BusyHasPlan, Busy
  <2> QED
    BY <2>1, <2>2, <2>3 DEF UnclaimedIsNew, ExecutesNew, CompletesPaid, RunsOnce
<1>4. CASE ClaimLost(k)
  <2>1. PICK d \in Plans : status' = [status EXCEPT ![d] = "processing"]
    BY <1>4 DEF ClaimLost, ClaimedStatus
  <2>2. /\ tpc[k] = "find" /\ tpc' = [tpc EXCEPT ![k] = "off"]
        /\ UNCHANGED <<plan, initiated>>
    BY <1>4 DEF ClaimLost
  <2> QED
    BY <2>1, <2>2 DEF SoleTick, BusyHasPlan, Busy, UnclaimedIsNew, ExecutesNew,
                      CompletesPaid, RunsOnce
<1>5. CASE TickCrash(k)
  BY <1>5 DEF TickCrash, Free, SoleTick, BusyHasPlan, Busy, UnclaimedIsNew,
              ExecutesNew, CompletesPaid, RunsOnce
<1> QED
  BY <1>1, <1>2, <1>3, <1>4, <1>5

-----------------------------------------------------------------------------
(* Requests and time *)

\* No request makes a plan pending that a tick holds or that was handed over.
LEMMA RequestStep ==
    ASSUME RunInv,
           \/ \E d \in Plans : Create(d) \/ Due(d)
           \/ \E r \in Requests : Look(r)
           \/ \E r \in Cancels : Cancel(r)
           \/ \E r \in Edits : Edit(r)
           \/ LeaderExpires
    PROVE  RunInv'
<1> USE DEF RunInv, TypeOK, tickVars, history, planVars, Requests, PlanStatus,
            Amounts, SoleTick, BusyHasPlan, Busy, UnclaimedIsNew, ExecutesNew,
            CompletesPaid, RunsOnce
<1>1. ASSUME NEW d \in Plans, Create(d) PROVE RunInv'
  BY <1>1 DEF Create
<1>2. ASSUME NEW d \in Plans, Due(d) PROVE RunInv'
  BY <1>2 DEF Due
<1>3. ASSUME NEW r \in Requests, Look(r) PROVE RunInv'
  BY <1>3 DEF Look
<1>4. ASSUME NEW r \in Cancels, Cancel(r) PROVE RunInv'
  <2>1. PlanOf[r] \in Plans
    OBVIOUS
  <2> QED
    BY <1>4, <2>1 DEF Cancel
<1>5. ASSUME NEW r \in Edits, Edit(r) PROVE RunInv'
  <2>1. PlanOf[r] \in Plans
    OBVIOUS
  <2>2. amount' \in [Plans -> Amounts] /\ due' \in [Plans -> BOOLEAN]
    BY <1>5, <2>1 DEF Edit
  <2> QED
    BY <1>5, <2>2 DEF Edit
<1>6. CASE LeaderExpires
  BY <1>6 DEF LeaderExpires
<1> QED
  BY <1>1, <1>2, <1>3, <1>4, <1>5, <1>6

-----------------------------------------------------------------------------

LEMMA Inductive == RunInv /\ [Next]_vars => RunInv'
<1> SUFFICES ASSUME RunInv, [Next]_vars PROVE RunInv'
  OBVIOUS
<1>1. ASSUME NEW k \in Ticks,
             TickStep(k) \/ TickFault(k) \/ ClaimLost(k) \/ TickCrash(k)
      PROVE  RunInv'
  <2>1. TypeOK'
    BY <1>1, TickTypes DEF RunInv
  <2> QED
    BY <1>1, <2>1, IdleStep, ClaimStep, ExecuteStep, EndStep DEF TickStep
<1>2. CASE \/ \E d \in Plans : Create(d) \/ Due(d)
           \/ \E r \in Requests : Look(r)
           \/ \E r \in Cancels : Cancel(r)
           \/ \E r \in Edits : Edit(r)
           \/ LeaderExpires
  BY <1>2, RequestStep
<1>3. CASE UNCHANGED vars
  BY <1>3 DEF vars, planVars, tickVars, history, RunInv, TypeOK, SoleTick,
              BusyHasPlan, Busy, UnclaimedIsNew, ExecutesNew, CompletesPaid, RunsOnce
<1> QED
  BY <1>1, <1>2, <1>3 DEF Next

\* The invariant of the scheduler: a tick alone holds the plan it works on, and
\* what nobody claimed was never handed over (_tick's findOneAndUpdate).
THEOREM SchedulerInvariant == Spec => []RunInv
  BY Initially, Inductive, PTL DEF Spec

\* However many instances tick and whatever fails, a scheduled payout is
\* published at most once.
THEOREM ScheduledRunsOnce == Spec => []RunsOnce
<1>1. RunInv => RunsOnce
  BY DEF RunInv
<1> QED
  BY <1>1, SchedulerInvariant, PTL

-----------------------------------------------------------------------------
(* Outcomes and cancellations                                              *)

\* Plans with a published payout that are shown as failed, or that a tick is
\* about to show so.
Misled ==
    {d \in Plans : /\ initiated[d] > 0
                   /\ \/ status[d] = "failed"
                      \/ \E k \in Ticks : plan[k] = d /\ tpc[k] = "fail"}

Mishaps == spent["fault"] + spent["refuse"]

\* There is at most one of them for each rejected call and each full buffer, and
\* no plan is shown as failed while a tick is about to execute it.
OutcomeInv ==
    /\ \A k \in Ticks : tpc[k] = "execute" => status[plan[k]] # "failed"
    /\ IsFiniteSet(Misled)
    /\ Cardinality(Misled) <= Mishaps

LEMMA OutcomeInvInit == Init => OutcomeInv
<1> SUFFICES ASSUME Init PROVE OutcomeInv
  OBVIOUS
<1>1. Misled = {}
  BY DEF Init, Misled
<1>2. Mishaps = 0
  BY DEF Init, Mishaps, Kinds
<1> QED
  BY <1>1, <1>2, FS_EmptySet DEF Init, OutcomeInv

\* Counting an event adds one to its own counter and to no other.
LEMMA MishapCounts ==
    ASSUME TypeOK, NEW kind \in Kinds, Spend(kind)
    PROVE  /\ Mishaps \in Nat /\ Mishaps' \in Nat
           /\ kind \in {"fault", "refuse"} => Mishaps' = Mishaps + 1
           /\ kind = "crash" => Mishaps' = Mishaps
  BY DEF TypeOK, Spend, Kinds, Mishaps

\* A step that misleads about nothing new, or about one plan at the price of one
\* mishap, keeps the count.
LEMMA MisledStep ==
    ASSUME TypeOK, OutcomeInv, Mishaps' \in Nat,
           \/ Misled' \subseteq Misled /\ Mishaps' >= Mishaps
           \/ \E d \in Plans : Misled' \subseteq Misled \cup {d} /\ Mishaps' = Mishaps + 1
    PROVE  IsFiniteSet(Misled') /\ Cardinality(Misled') <= Mishaps'
<1>1. Mishaps \in Nat
  BY DEF TypeOK, Kinds, Mishaps
<1>2. IsFiniteSet(Misled) /\ Cardinality(Misled) \in Nat /\ Cardinality(Misled) <= Mishaps
  BY FS_CardinalityType DEF OutcomeInv
<1>3. CASE Misled' \subseteq Misled /\ Mishaps' >= Mishaps
  <2>1. IsFiniteSet(Misled') /\ Cardinality(Misled') <= Cardinality(Misled)
    BY <1>2, <1>3, FS_Subset
  <2>2. Cardinality(Misled') \in Nat
    BY <2>1, FS_CardinalityType
  <2> QED
    BY <1>1, <1>2, <1>3, <2>1, <2>2
<1>4. ASSUME NEW d \in Plans, Misled' \subseteq Misled \cup {d}, Mishaps' = Mishaps + 1
      PROVE  IsFiniteSet(Misled') /\ Cardinality(Misled') <= Mishaps'
  <2> DEFINE Most == Misled \cup {d}
  <2>1. IsFiniteSet(Most) /\ Cardinality(Most) <= Cardinality(Misled) + 1
    <3>1. /\ IsFiniteSet(Most)
          /\ \/ Cardinality(Most) = Cardinality(Misled)
             \/ Cardinality(Most) = Cardinality(Misled) + 1
      BY <1>2, FS_AddElement
    <3> QED
      BY <1>2, <3>1
  <2>2. IsFiniteSet(Misled') /\ Cardinality(Misled') <= Cardinality(Most)
    BY <1>4, <2>1, FS_Subset
  <2>3. Cardinality(Misled') \in Nat /\ Cardinality(Most) \in Nat
    BY <2>1, <2>2, FS_CardinalityType
  <2> QED
    BY <1>1, <1>2, <1>4, <2>1, <2>2, <2>3
<1> QED
  BY <1>3, <1>4

\* Only Execute hands a plan over; the tick that does holds it alone.
LEMMA ExecuteOutcome ==
    ASSUME RunInv, OutcomeInv, NEW k \in Ticks, Execute(k)
    PROVE  OutcomeInv'
<1> DEFINE d == plan[k]
<1>1. TypeOK
  BY DEF RunInv
<1>2. /\ d \in Plans /\ initiated[d] = 0 /\ status[d] # "failed"
      /\ \A j \in Ticks \ {k} : plan[j] # d
      /\ UNCHANGED <<status, plan>>
  BY <1>1 DEF Execute, RunInv, BusyHasPlan, Busy, ExecutesNew, SoleTick, TypeOK,
              OutcomeInv, planVars
<1>3. \A j \in Ticks : tpc'[j] = "execute" => tpc[j] = "execute"
  BY <1>1 DEF Execute, OnRejected, TypeOK
<1>4. \A j \in Ticks : tpc'[j] = "execute" => status'[plan'[j]] # "failed"
  BY <1>2, <1>3 DEF OutcomeInv
<1>5. Misled' \subseteq Misled \cup {d}
  BY <1>1, <1>2 DEF Execute, HandOver, OnRejected, history, Misled, TypeOK
<1>6. CASE /\ initiated' = [initiated EXCEPT ![d] = @ + 1]
           /\ tpc' = [tpc EXCEPT ![k] = "complete"]
           /\ UNCHANGED spent
  <2>1. Misled' \subseteq Misled
    BY <1>1, <1>2, <1>6 DEF Misled, TypeOK
  <2>2. Mishaps' = Mishaps /\ Mishaps \in Nat
    BY <1>1, <1>6 DEF Mishaps, TypeOK, Kinds
  <2> QED
    BY <1>1, <1>4, <2>1, <2>2, MisledStep DEF OutcomeInv
<1>7. CASE tpc' = [tpc EXCEPT ![k] = "fail"] /\ UNCHANGED <<spent, history>>
  <2>1. Misled' \subseteq Misled
    BY <1>1, <1>2, <1>7 DEF Misled, TypeOK, history
  <2>2. Mishaps' = Mishaps /\ Mishaps \in Nat
    BY <1>1, <1>7 DEF Mishaps, TypeOK, Kinds
  <2> QED
    BY <1>1, <1>4, <2>1, <2>2, MisledStep DEF OutcomeInv
<1>8. CASE Spend("refuse")
  <2>1. Mishaps' = Mishaps + 1 /\ Mishaps' \in Nat
    BY <1>1, <1>8, MishapCounts DEF Kinds
  <2> QED
    BY <1>1, <1>2, <1>4, <1>5, <2>1, MisledStep DEF OutcomeInv
<1> QED
  BY <1>6, <1>7, <1>8 DEF Execute, HandOver, OnRejected

\* The record of an outcome: the plan is this tick's alone.
LEMMA RecordOutcome ==
    ASSUME RunInv, OutcomeInv, NEW k \in Ticks, RecordCompleted(k) \/ RecordFailed(k)
    PROVE  OutcomeInv'
<1> DEFINE d == plan[k]
<1>1. TypeOK
  BY DEF RunInv
<1>2. d \in Plans /\ \A j \in Ticks \ {k} : plan[j] # d
  BY <1>1 DEF RecordCompleted, RecordFailed, RunInv, BusyHasPlan, Busy, SoleTick, TypeOK
<1>3. /\ initiated' = initiated
      /\ \E s \in {"completed", "failed"} : status' = [status EXCEPT ![d] = s]
      /\ \E next \in {"elect", "off", "fail"} : tpc' = [tpc EXCEPT ![k] = next]
      /\ \A j \in Ticks \ {k} : plan'[j] = plan[j]
  BY <1>1 DEF RecordCompleted, RecordFailed, Free, history, TypeOK
<1>4. \A j \in Ticks : tpc'[j] = "execute" => status'[plan'[j]] # "failed"
  BY <1>1, <1>2, <1>3 DEF OutcomeInv, TypeOK
<1>5. Mishaps \in Nat
  BY <1>1 DEF Mishaps, TypeOK, Kinds
<1>6. CASE RecordCompleted(k) /\ UNCHANGED spent
  <2>1. /\ status' = [status EXCEPT ![d] = "completed"]
        /\ plan' = [plan EXCEPT ![k] = Nil] \/ Spend("fault")
    BY <1>6 DEF RecordCompleted, Free
  <2>2. ~Spend("fault")
    BY <1>1, <1>6 DEF Spend, TypeOK, Kinds
  <2>3. Misled' \subseteq Misled
    BY <1>1, <1>2, <1>3, <2>1, <2>2, SchedulerAssumption DEF Misled, TypeOK
  <2> QED
    BY <1>1, <1>4, <1>5, <1>6, <2>3, MisledStep DEF OutcomeInv, Mishaps
<1>7. CASE RecordCompleted(k) /\ Spend("fault")
  <2>1. status' = [status EXCEPT ![d] = "completed"]
    BY <1>7 DEF RecordCompleted
  <2>2. /\ \A e \in Plans \ {d} : status'[e] = status[e]
        /\ \A j \in Ticks \ {k} : plan'[j] = plan[j] /\ tpc'[j] = tpc[j]
        /\ plan'[k] \in {d, Nil}
    BY <1>1, <1>2, <1>3, <1>7, <2>1 DEF RecordCompleted, Free, TypeOK
  <2>3. Misled' \subseteq Misled \cup {d}
    BY <1>2, <1>3, <2>2, SchedulerAssumption DEF Misled
  <2>4. Mishaps' = Mishaps + 1 /\ Mishaps' \in Nat
    BY <1>1, <1>7, MishapCounts DEF Kinds
  <2> QED
    BY <1>1, <1>2, <1>4, <2>3, <2>4, MisledStep DEF OutcomeInv
<1>8. CASE RecordFailed(k)
  <2>1. /\ tpc[k] = "fail"
        /\ status' = [status EXCEPT ![d] = "failed"]
        /\ plan' = [plan EXCEPT ![k] = Nil]
        /\ UNCHANGED spent \/ Spend("fault")
    BY <1>8 DEF RecordFailed, Free
  <2>2. Misled' \subseteq Misled
    BY <1>1, <1>2, <1>3, <2>1 DEF Misled, TypeOK
  <2>3. Mishaps' >= Mishaps /\ Mishaps' \in Nat
    <3>1. CASE UNCHANGED spent
      BY <1>5, <3>1 DEF Mishaps
    <3>2. CASE Spend("fault")
      BY <1>1, <3>2, MishapCounts DEF Kinds
    <3> QED
      BY <2>1, <3>1, <3>2
  <2> QED
    BY <1>1, <1>4, <2>2, <2>3, MisledStep DEF OutcomeInv
<1> QED
  BY <1>6, <1>7, <1>8 DEF RecordCompleted

\* Rejected calls and dying instances.
LEMMA MishapOutcome ==
    ASSUME RunInv, OutcomeInv, NEW k \in Ticks,
           TickFault(k) \/ ClaimLost(k) \/ TickCrash(k)
    PROVE  OutcomeInv'
<1>1. TypeOK
  BY DEF RunInv
<1>2. CASE TickFault(k)
  <2>1. /\ UNCHANGED <<status, initiated>> /\ Spend("fault")
        /\ \/ tpc[k] = "complete" /\ tpc' = [tpc EXCEPT ![k] = "fail"] /\ plan' = plan
           \/ /\ tpc' = [tpc EXCEPT ![k] = "off"]
              /\ plan' = [plan EXCEPT ![k] = Nil]
    BY <1>2 DEF TickFault, Free, planVars, history
  <2>2. \A j \in Ticks : tpc'[j] = "execute" => status'[plan'[j]] # "failed"
    BY <1>1, <2>1 DEF OutcomeInv, TypeOK
  <2>3. Mishaps' = Mishaps + 1 /\ Mishaps \in Nat /\ Mishaps' \in Nat
    BY <1>1, <2>1, MishapCounts DEF Kinds
  <2>4. CASE tpc[k] = "complete" /\ tpc' = [tpc EXCEPT ![k] = "fail"] /\ plan' = plan
    <3>1. plan[k] \in Plans
      BY <1>1, <2>4 DEF RunInv, BusyHasPlan, Busy, TypeOK
    <3>2. Misled' \subseteq Misled \cup {plan[k]}
      BY <1>1, <2>1, <2>4 DEF Misled, TypeOK
    <3> QED
      BY <1>1, <2>2, <2>3, <3>1, <3>2, MisledStep DEF OutcomeInv
  <2>5. CASE tpc' = [tpc EXCEPT ![k] = "off"] /\ plan' = [plan EXCEPT ![k] = Nil]
    <3>1. Misled' \subseteq Misled
      BY <1>1, <2>1, <2>5 DEF Misled, TypeOK
    <3>2. Mishaps' >= Mishaps
      BY <2>3
    <3> QED
      BY <1>1, <2>2, <2>3, <3>1, <3>2, MisledStep DEF OutcomeInv
  <2> QED
    BY <2>1, <2>4, <2>5
<1>3. CASE ClaimLost(k)
  <2>1. PICK d \in Plans : status' = [status EXCEPT ![d] = "processing"]
    BY <1>3 DEF ClaimLost, ClaimedStatus
  <2>2. /\ tpc' = [tpc EXCEPT ![k] = "off"] /\ UNCHANGED <<plan, initiated>>
        /\ Spend("fault")
    BY <1>3 DEF ClaimLost, history
  <2>3. \A j \in Ticks : tpc'[j] = "execute" => status'[plan'[j]] # "failed"
    BY <1>1, <2>1, <2>2 DEF OutcomeInv, TypeOK
  <2>4. Misled' \subseteq Misled
    BY <1>1, <2>1, <2>2 DEF Misled, TypeOK
  <2>5. Mishaps' = Mishaps + 1 /\ Mishaps \in Nat /\ Mishaps' \in Nat
    BY <1>1, <2>2, MishapCounts DEF Kinds
  <2>6. Mishaps' >= Mishaps
    BY <2>5
  <2> QED
    BY <1>1, <2>3, <2>4, <2>5, <2>6, MisledStep DEF OutcomeInv
<1>4. CASE TickCrash(k)
  <2>1. /\ UNCHANGED <<status, initiated>> /\ Spend("crash")
        /\ tpc' = [tpc EXCEPT ![k] = "off"] /\ plan' = [plan EXCEPT ![k] = Nil]
    BY <1>4 DEF TickCrash, Free, planVars, history
  <2>2. \A j \in Ticks : tpc'[j] = "execute" => status'[plan'[j]] # "failed"
    BY <1>1, <2>1 DEF OutcomeInv, TypeOK
  <2>3. Misled' \subseteq Misled
    BY <1>1, <2>1 DEF Misled, TypeOK
  <2>4. Mishaps' = Mishaps /\ Mishaps \in Nat
    BY <1>1, <2>1, MishapCounts DEF Kinds
  <2> QED
    BY <1>1, <2>2, <2>3, <2>4, MisledStep DEF OutcomeInv
<1> QED
  BY <1>2, <1>3, <1>4

\* Every other step leaves the counters and the payouts alone, shows no plan as
\* failed, and sends no tick to execute or to record a failure, but for the
\* claim of a pending plan.
LEMMA QuietOutcome ==
    ASSUME RunInv, OutcomeInv, UNCHANGED <<spent, initiated>>,
           \A d \in Plans : status'[d] = "failed" => status[d] = "failed",
           \A k \in Ticks : /\ tpc'[k] = "fail" => tpc[k] = "fail" /\ plan'[k] = plan[k]
                            /\ tpc'[k] = "execute" =>
                                  \/ tpc[k] = "execute" /\ plan'[k] = plan[k]
                                  \/ status'[plan'[k]] = "processing",
           RunInv'
    PROVE  OutcomeInv'
<1>1. TypeOK
  BY DEF RunInv
<1>2. \A k \in Ticks : tpc[k] = "execute" => plan[k] \in Plans
  BY <1>1 DEF RunInv, BusyHasPlan, Busy, TypeOK
<1>3. \A k \in Ticks : tpc'[k] = "execute" => status'[plan'[k]] # "failed"
  BY <1>2 DEF OutcomeInv
<1>4. Misled' \subseteq Misled
  BY DEF Misled
<1>5. Mishaps' = Mishaps /\ Mishaps \in Nat
  BY <1>1 DEF Mishaps, TypeOK, Kinds
<1> QED
  BY <1>1, <1>3, <1>4, <1>5, MisledStep DEF OutcomeInv

LEMMA OutcomeInvNext == RunInv /\ OutcomeInv /\ [Next]_vars => OutcomeInv'
<1> SUFFICES ASSUME RunInv, OutcomeInv, [Next]_vars PROVE OutcomeInv'
  OBVIOUS
<1>1. TypeOK /\ RunInv'
  BY Inductive DEF RunInv
<1> USE DEF planVars, tickVars, history
<1>2. ASSUME NEW k \in Ticks, Fire(k) \/ Elect(k) \/ FindNothing(k) PROVE OutcomeInv'
  BY <1>1, <1>2, QuietOutcome DEF Fire, Elect, FindNothing, TypeOK
<1>3. ASSUME NEW k \in Ticks, Claim(k) PROVE OutcomeInv'
  <2>1. PICK d \in Plans : /\ status' = [status EXCEPT ![d] = "processing"]
                           /\ plan' = [plan EXCEPT ![k] = d]
    BY <1>3 DEF Claim, ClaimedStatus
  <2>2. tpc' = [tpc EXCEPT ![k] = "execute"] /\ UNCHANGED <<spent, initiated>>
    BY <1>3 DEF Claim
  <2>3. \A e \in Plans : status'[e] = "failed" => status[e] = "failed"
    BY <1>1, <2>1 DEF TypeOK
  <2>4. \A j \in Ticks : /\ tpc'[j] = "fail" => tpc[j] = "fail" /\ plan'[j] = plan[j]
                         /\ tpc'[j] = "execute" =>
                               \/ tpc[j] = "execute" /\ plan'[j] = plan[j]
                               \/ status'[plan'[j]] = "processing"
    BY <1>1, <2>1, <2>2 DEF TypeOK
  <2> QED
    BY <1>1, <2>2, <2>3, <2>4, QuietOutcome
<1>4. ASSUME NEW d \in Plans, Create(d) \/ Due(d) PROVE OutcomeInv'
  BY <1>1, <1>4, QuietOutcome DEF Create, Due, TypeOK
<1>5. ASSUME NEW r \in Requests, Look(r) PROVE OutcomeInv'
  BY <1>1, <1>5, QuietOutcome DEF Look
<1>6. ASSUME NEW r \in Requests, Cancel(r) \/ Edit(r) PROVE OutcomeInv'
  BY <1>1, <1>6, QuietOutcome DEF Cancel, Edit, TypeOK
<1>7. CASE LeaderExpires \/ UNCHANGED vars
  BY <1>1, <1>7, QuietOutcome DEF LeaderExpires, vars
<1> QED
  BY <1>2, <1>3, <1>4, <1>5, <1>6, <1>7, ExecuteOutcome, RecordOutcome, MishapOutcome
     DEF Next, TickStep, Requests

\* A plan shown as completed was handed over, and plans shown as failed that
\* were published are no more than the rejected calls and the full buffers
\* (_executeScheduledPayout), for any number of plans and ticks.
THEOREM OutcomesAreTrue == Spec => []OutcomeIsTrue
<1>1. RunInv /\ OutcomeInv => OutcomeIsTrue
  <2> SUFFICES ASSUME RunInv, OutcomeInv PROVE OutcomeIsTrue
    OBVIOUS
  <2>1. \A d \in Plans : status[d] = "completed" => initiated[d] = 1
    BY DEF RunInv, CompletesPaid
  <2>2. FalselyFailed \subseteq Misled
    BY DEF FalselyFailed, Misled
  <2>3. Cardinality(FalselyFailed) <= Cardinality(Misled) /\ IsFiniteSet(FalselyFailed)
    BY <2>2, FS_Subset DEF OutcomeInv
  <2>4. /\ Cardinality(FalselyFailed) \in Nat /\ Cardinality(Misled) \in Nat
        /\ Mishaps \in Nat
    BY <2>3, FS_CardinalityType DEF OutcomeInv, RunInv, TypeOK, Kinds, Mishaps
  <2> QED
    BY <2>1, <2>3, <2>4 DEF OutcomeInv, OutcomeIsTrue, Mishaps
<1> QED
  BY <1>1, Initially, Inductive, OutcomeInvInit, OutcomeInvNext, PTL DEF Spec

\* No step makes a plan pending again whose cancellation was saved.
CancelInv ==
    \A r \in Cancels : rpc[r] = "done" => status[PlanOf[r]] \notin {"absent", "pending"}

LEMMA CancelInvInit == Init => CancelInv
  BY DEF Init, CancelInv, Requests

LEMMA CancelInvNext == TypeOK /\ CancelInv /\ [Next]_vars => CancelInv'
<1> SUFFICES ASSUME TypeOK, CancelInv, [Next]_vars PROVE CancelInv'
  OBVIOUS
<1> USE DEF CancelInv, planVars, tickVars, history
<1>1. ASSUME NEW k \in Ticks,
             TickStep(k) \/ TickFault(k) \/ ClaimLost(k) \/ TickCrash(k)
      PROVE  CancelInv'
  <2>1. rpc' = rpc
    BY <1>1 DEF TickStep, Fire, Elect, Claim, FindNothing, Execute, RecordCompleted,
                RecordFailed, TickFault, ClaimLost, TickCrash
  <2>2. \A d \in Plans : status'[d] \in {"absent", "pending"} => status'[d] = status[d]
    BY <1>1 DEF TickStep, Fire, Elect, Claim, ClaimedStatus, FindNothing, Execute,
                RecordCompleted, RecordFailed, TickFault, ClaimLost, TickCrash, TypeOK
  <2> QED
    BY <2>1, <2>2 DEF Requests
<1>2. ASSUME NEW d \in Plans, Create(d) \/ Due(d) PROVE CancelInv'
  BY <1>2 DEF Create, Due, TypeOK, Requests
<1>3. ASSUME NEW r \in Requests, Look(r) PROVE CancelInv'
  BY <1>3 DEF Look, TypeOK
<1>4. ASSUME NEW r \in Cancels, Cancel(r) PROVE CancelInv'
  BY <1>4 DEF Cancel, TypeOK, Requests
<1>5. ASSUME NEW r \in Edits, Edit(r) PROVE CancelInv'
  BY <1>5 DEF Edit, TypeOK, Requests
<1>6. CASE LeaderExpires \/ UNCHANGED vars
  BY <1>6 DEF LeaderExpires, vars
<1> QED
  BY <1>1, <1>2, <1>3, <1>4, <1>5, <1>6 DEF Next

LeftAloneStep ==
    \A r \in Cancels, k \in Ticks :
       rpc[r] = "done" /\ plan[k] # PlanOf[r] => plan'[k] # PlanOf[r]

LEMMA LeftAloneNext == TypeOK /\ CancelInv /\ [Next]_vars => LeftAloneStep
<1> SUFFICES ASSUME TypeOK, CancelInv, [Next]_vars PROVE LeftAloneStep
  OBVIOUS
<1> USE DEF LeftAloneStep, planVars, tickVars, history, Requests
<1>1. ASSUME NEW k \in Ticks, Claim(k) PROVE LeftAloneStep
  BY <1>1 DEF Claim, Claimable, CancelInv, TypeOK
<1>2. ASSUME NEW k \in Ticks,
             \/ Fire(k) \/ Elect(k) \/ FindNothing(k) \/ Execute(k)
             \/ RecordCompleted(k) \/ RecordFailed(k)
             \/ TickFault(k) \/ ClaimLost(k) \/ TickCrash(k)
      PROVE  LeftAloneStep
  BY <1>2 DEF Fire, Elect, FindNothing, Execute, RecordCompleted, RecordFailed, TickFault,
              ClaimLost, TickCrash, Free, TypeOK
<1>3. CASE \/ \E d \in Plans : Create(d) \/ Due(d)
           \/ \E r \in Requests : Look(r) \/ Cancel(r) \/ Edit(r)
           \/ LeaderExpires \/ UNCHANGED vars
  BY <1>3 DEF Create, Due, Look, Cancel, Edit, LeaderExpires, vars
<1> QED
  BY <1>1, <1>2, <1>3 DEF Next, TickStep

\* A confirmed cancellation keeps every tick that has not claimed the plan by
\* then from taking it up (scheduler.controller.js, cancel).  It does not keep a
\* tick that had claimed it before from writing its outcome over "cancelled".
THEOREM CancelledPlansRest == Spec => CancelledIsLeftAlone
<1>1. Spec => []TypeOK
  <2>1. RunInv => TypeOK
    BY DEF RunInv
  <2> QED
    BY <2>1, SchedulerInvariant, PTL
<1>2. Spec => []CancelInv
  BY <1>1, CancelInvInit, CancelInvNext, PTL DEF Spec
<1>3. Spec => [][LeftAloneStep]_vars
  BY <1>1, <1>2, LeftAloneNext, PTL DEF Spec
<1> QED
  BY <1>3 DEF CancelledIsLeftAlone, LeftAloneStep
=============================================================================
