--------------------------- MODULE WorkflowProofs ---------------------------
(***************************************************************************)
(* Theorems about the workflows, for all sets of executions, clients,      *)
(* graphs and workers, and all budgets of the surroundings.                *)
(***************************************************************************)
EXTENDS Workflows, FiniteSetTheorems, SequenceTheorems, TLAPS

retryVars == <<retries, retrying>>

LEMMA InFlightFinite ==
  ASSUME NEW e
  PROVE  /\ IsFiniteSet(InFlight(e)) /\ Cardinality(InFlight(e)) \in Nat
         /\ Cardinality(InFlight(e)) <= Cardinality(Retriers)
         /\ Cardinality(Retriers) \in Nat /\ Cardinality(Retriers) # 0
<1>1. InFlight(e) \subseteq Retriers
  BY DEF InFlight
<1> QED BY <1>1, WorkflowAssumption, FS_Subset, FS_CardinalityType, FS_EmptySet

\* The state of the retries is all that the invariant reads.
LEMMA RetryInvStutter == RetryInv /\ UNCHANGED retryVars => RetryInv'
<1> SUFFICES ASSUME RetryInv, UNCHANGED retryVars PROVE RetryInv'
  OBVIOUS
<1>1. \A e : InFlight(e)' = InFlight(e)
  BY DEF InFlight, Between, retryVars, retrying
<1> QED BY <1>1 DEF RetryInv, retryVars, retrying

LEMMA RetryInvInit == Init => RetryInv
<1> SUFFICES ASSUME Init PROVE RetryInv
  OBVIOUS
<1>1. \A e : InFlight(e) = {}
  BY DEF Init, InFlight, Between
<1>2. Cardinality({}) = 0
  BY FS_EmptySet
<1>3. Cardinality(Retriers) \in Nat /\ Cardinality(Retriers) # 0 /\ MaxRetries \in Nat
  BY InFlightFinite, WorkflowAssumption
<1>4. \A e \in Executions :
          retries[e] + Cardinality(InFlight(e)) + 1 <= MaxRetries + Cardinality(Retriers)
  <2>1. ASSUME NEW e \in Executions PROVE retries[e] = 0 /\ Cardinality(InFlight(e)) = 0
    BY <1>1, <1>2 DEF Init
  <2> QED BY <1>3, <2>1
<1> QED BY <1>4 DEF Init, RetryInv

\* A client that gives up or is done leaves the retries as they are.
LEMMA LeaveKeepsRetryInv ==
  ASSUME RetryInv, NEW r \in Retriers, LeaveRetry(r), UNCHANGED retries
  PROVE  RetryInv'
<1>1. ASSUME NEW e \in Executions
      PROVE  Cardinality(InFlight(e)') <= Cardinality(InFlight(e))
  <2>1. InFlight(e)' \subseteq InFlight(e)
    BY DEF InFlight, Between, LeaveRetry, RetryInv
  <2> QED BY <2>1, InFlightFinite, FS_Subset
<1>2. /\ rpc' \in [Retriers -> {"idle", "workflow", "update", "publish"}]
      /\ rexec' \in [Retriers -> Executions \cup {Nil}]
      /\ \A q \in Retriers : rpc'[q] # "idle" => rexec'[q] # Nil
  BY DEF LeaveRetry, RetryInv
<1>3. \A e \in Executions : Cardinality(InFlight(e)') \in Nat
  <2>1. ASSUME NEW e PROVE InFlight(e)' \subseteq Retriers
    BY DEF InFlight
  <2> QED BY <2>1, WorkflowAssumption, FS_Subset, FS_CardinalityType
<1> QED BY <1>1, <1>2, <1>3, InFlightFinite, WorkflowAssumption DEF RetryInv

LEMMA ReadFailedKeepsRetryInv ==
  ASSUME RetryInv, NEW r \in Retriers, NEW x \in Executions, ReadFailed(r, x)
  PROVE  RetryInv'
<1>1. /\ rpc' = [rpc EXCEPT ![r] = "workflow"] /\ rexec' = [rexec EXCEPT ![r] = x]
      /\ rpc[r] = "idle" /\ retries[x] < MaxRetries /\ UNCHANGED retries
  BY DEF ReadFailed, CanBeRetried, records
<1>2. ASSUME NEW e \in Executions, e # x PROVE InFlight(e)' = InFlight(e)
  BY <1>1, <1>2 DEF InFlight, Between, RetryInv
<1>3. retries[x] + Cardinality(InFlight(x)') + 1 <= MaxRetries + Cardinality(Retriers)
  <2>1. InFlight(x)' \subseteq Retriers
    BY DEF InFlight
  <2>2. /\ Cardinality(InFlight(x)') \in Nat
        /\ Cardinality(InFlight(x)') <= Cardinality(Retriers)
    BY <2>1, WorkflowAssumption, FS_Subset, FS_CardinalityType
  <2>3. Cardinality(Retriers) \in Nat /\ MaxRetries \in Nat /\ retries[x] \in Nat
    BY InFlightFinite, WorkflowAssumption DEF RetryInv
  <2> QED BY <1>1, <2>2, <2>3
<1>4. /\ rpc' \in [Retriers -> {"idle", "workflow", "update", "publish"}]
      /\ rexec' \in [Retriers -> Executions \cup {Nil}]
      /\ \A q \in Retriers : rpc'[q] # "idle" => rexec'[q] # Nil
  BY <1>1, WorkflowAssumption DEF RetryInv
<1> QED BY <1>1, <1>2, <1>3, <1>4 DEF RetryInv

LEMMA ReadWorkflowKeepsRetryInv ==
  ASSUME RetryInv, NEW r \in Retriers, ReadWorkflow(r)
  PROVE  RetryInv'
<1>1. UNCHANGED retries
  BY DEF ReadWorkflow, records
<1>2. CASE LeaveRetry(r)
  BY <1>1, <1>2, LeaveKeepsRetryInv
<1>3. CASE rpc' = [rpc EXCEPT ![r] = "update"] /\ UNCHANGED rexec
  <2>1. \A e \in Executions : InFlight(e)' = InFlight(e)
    BY <1>3 DEF InFlight, Between, ReadWorkflow, RetryInv
  <2>2. /\ rpc' \in [Retriers -> {"idle", "workflow", "update", "publish"}]
        /\ \A q \in Retriers : rpc'[q] # "idle" => rpc[q] # "idle"
    BY <1>3 DEF ReadWorkflow, RetryInv
  <2> QED BY <1>1, <1>3, <2>1, <2>2 DEF RetryInv
<1> QED BY <1>2, <1>3 DEF ReadWorkflow

LEMMA RequeueKeepsRetryInv ==
  ASSUME RetryInv, NEW r \in Retriers, Requeue(r)
  PROVE  RetryInv'
<1> DEFINE x == rexec[r]
<1>1. /\ rpc[r] = "update" /\ x \in Executions
      /\ rpc' = [rpc EXCEPT ![r] = "publish"] /\ UNCHANGED rexec
      /\ retries' = [retries EXCEPT ![x] = @ + 1]
  BY DEF Requeue, RetryInv
<1>2. ASSUME NEW e \in Executions, e # x PROVE InFlight(e)' = InFlight(e)
  BY <1>1, <1>2 DEF InFlight, Between, RetryInv
<1>3. r \in InFlight(x) /\ InFlight(x)' = InFlight(x) \ {r}
  BY <1>1 DEF InFlight, Between, RetryInv
<1>4. Cardinality(InFlight(x)') = Cardinality(InFlight(x)) - 1
  BY <1>3, InFlightFinite, FS_RemoveElement
<1>5. /\ rpc' \in [Retriers -> {"idle", "workflow", "update", "publish"}]
      /\ \A q \in Retriers : rpc'[q] # "idle" => rpc[q] # "idle"
      /\ retries' \in [Executions -> Nat]
  BY <1>1 DEF RetryInv
<1>6. retries'[x] + Cardinality(InFlight(x)') + 1 <= MaxRetries + Cardinality(Retriers)
  <2>1. /\ Cardinality(InFlight(x)) \in Nat /\ Cardinality(Retriers) \in Nat
        /\ MaxRetries \in Nat /\ retries[x] \in Nat
    BY <1>1, InFlightFinite, WorkflowAssumption DEF RetryInv
  <2>2. retries'[x] = retries[x] + 1
    BY <1>1 DEF RetryInv
  <2>3. retries[x] + Cardinality(InFlight(x)) + 1 <= MaxRetries + Cardinality(Retriers)
    BY <1>1 DEF RetryInv
  <2> QED BY <1>4, <2>1, <2>2, <2>3
<1> QED BY <1>1, <1>2, <1>5, <1>6 DEF RetryInv

LEMMA RetryInvNext == RetryInv /\ [Next]_vars => RetryInv'
<1> SUFFICES ASSUME RetryInv, [Next]_vars PROVE RetryInv'
  OBVIOUS
<1> USE DEF retryVars, retrying, records, slots, procs
<1>1. CASE Create \/ Update \/ Delete
  BY <1>1, RetryInvStutter DEF Create, Update, Delete
<1>2. ASSUME NEW e \in Executions, TriggerStep(e) PROVE RetryInv'
  BY <1>2, RetryInvStutter DEF TriggerStep, ReadEnabled, CreateExecution, PublishExecution
<1>3. ASSUME NEW r \in Retriers, RetryStep(r) PROVE RetryInv'
  <2>1. CASE PublishRetry(r)
    BY <2>1, LeaveKeepsRetryInv DEF PublishRetry
  <2> QED BY <1>3, <2>1, ReadWorkflowKeepsRetryInv, RequeueKeepsRetryInv DEF RetryStep
<1>4. CASE CallStops
  <2>1. CASE UNCHANGED retrying
    BY <1>4, <2>1, RetryInvStutter DEF CallStops
  <2>2. CASE \E r \in Retriers : LeaveRetry(r)
    BY <1>4, <2>2, LeaveKeepsRetryInv DEF CallStops
  <2> QED BY <1>4, <2>1, <2>2 DEF CallStops
<1>5. ASSUME NEW s \in Slots, SlotStep(s) \/ SlotFault(s) PROVE RetryInv'
  <2>1. UNCHANGED <<retries, retrying>>
    BY <1>5 DEF SlotStep, Deliver, Start, PushRunning, Execute, SetResult, Succeed, Fail,
                End, Count, Settle, SlotFault
  <2> QED BY <2>1, RetryInvStutter
<1>6. ASSUME NEW p \in Procs, ProcessStep(p)
      PROVE  RetryInv'
  BY <1>6, RetryInvStutter
     DEF ProcessStep, LoseConnection, Disconnect, Exit, Crash, Restart
<1>7. CASE ExpireJob
  BY <1>7, RetryInvStutter DEF ExpireJob
<1>8. CASE UNCHANGED vars
  BY <1>8, RetryInvStutter DEF vars
<1> QED BY <1>1, <1>2, <1>3, <1>4, <1>5, <1>6, <1>7, <1>8, ReadFailedKeepsRetryInv DEF Next

(* A retry under way has passed the check and counts against what the      *)
(* check lets through (workflow.service.js, retryExecution).               *)
THEOREM RetryInvariant == Spec => []RetryInv
BY RetryInvInit, RetryInvNext, PTL DEF Spec

(* Clients that retry an execution together exceed maxRetries by at most   *)
(* as many as they are, less one (workflow.service.js, retryExecution).    *)
THEOREM RetriesAreBounded == Spec => []RetriesBounded
<1>1. RetryInv => RetriesBounded
  <2> SUFFICES ASSUME RetryInv, NEW e \in Executions
               PROVE  retries[e] + 1 <= MaxRetries + Cardinality(Retriers)
    BY DEF RetriesBounded
  <2>1. /\ Cardinality(InFlight(e)) \in Nat /\ Cardinality(Retriers) \in Nat
        /\ MaxRetries \in Nat /\ retries[e] \in Nat
    BY InFlightFinite, WorkflowAssumption DEF RetryInv
  <2> QED BY <2>1 DEF RetryInv
<1> QED BY <1>1, RetryInvariant, PTL

-----------------------------------------------------------------------------
(* TypeOK, and the run of a slot along its job's graph *)

LEMMA SpendOne ==
  ASSUME NEW kind \in Kinds, spent \in [Kinds -> Nat], Spend(kind)
  PROVE  /\ spent' \in [Kinds -> Nat] /\ spent'[kind] > 0
         /\ \A k \in Kinds : spent'[k] >= spent[k]
BY DEF Spend

\* What Stored says of the slot and of the budget.
LEMMA StoredGoesOn ==
  ASSUME NEW s \in Slots, NEW from, NEW to, NEW catch, spent \in [Kinds -> Nat],
         wpc \in [Slots -> WorkSteps \cup {"idle"}], Stored(s, from, to, catch)
  PROVE  /\ wpc[s] = from /\ spent' \in [Kinds -> Nat]
         /\ \A k \in Kinds : spent'[k] >= spent[k]
         /\ \A k \in Kinds \ {"fault"} : spent'[k] = spent[k]
         /\ \/ wpc' = [wpc EXCEPT ![s] = to] /\ spent' = spent
            \/ wpc' = [wpc EXCEPT ![s] = catch] /\ spent'["fault"] > 0
BY SpendOne DEF Stored, Spend, Kinds

LEMMA SetAtType ==
  ASSUME NEW S, NEW seq \in Seq(S \cup {Nil}), NEW i \in Nat, NEW v \in S
  PROVE  SetAt(seq, i, v) \in Seq(S \cup {Nil})
<1> DEFINE n == IF i > Len(seq) THEN i ELSE Len(seq)
<1>1. n \in Nat /\ Len(seq) \in Nat
  OBVIOUS
<1>2. \A k \in 1..n : (IF k = i THEN v ELSE IF k <= Len(seq) THEN seq[k] ELSE Nil) \in S \cup {Nil}
  OBVIOUS
<1> QED BY <1>1, <1>2, SeqDef DEF SetAt

SlotInv(s) == wpc[s] # "idle" => FollowsGraph(s) /\ WentWell(s)

\* A slot that a step leaves alone.
LEMMA SlotKept ==
  ASSUME spent \in [Kinds -> Nat], spent' \in [Kinds -> Nat],
         spent'["fault"] >= spent["fault"],
         NEW s \in Slots, SlotInv(s),
         wpc'[s] = wpc[s], job'[s] = job[s], node'[s] = node[s], ran'[s] = ran[s]
  PROVE  SlotInv(s)'
<1>1. spent'["fault"] = 0 => spent["fault"] = 0
  BY DEF Kinds
<1>2. AfterLast(s)' = AfterLast(s) /\ LastRan(s)' = LastRan(s)
  BY DEF AfterLast, LastRan
<1> QED BY <1>1, <1>2 DEF SlotInv, FollowsGraph, WentWell

\* The rest of RunInv, which the steps of the service and of the broker keep
\* without looking at the slots.
Frame == TypeOK /\ HoldsAll

LEMMA FrameAndSlots == RunInv <=> Frame /\ \A s \in Slots : SlotInv(s)
BY DEF RunInv, Frame, SlotInv

LEMMA SlotsKept ==
  ASSUME RunInv, UNCHANGED slots, spent' \in [Kinds -> Nat],
         spent'["fault"] >= spent["fault"], Frame'
  PROVE  RunInv'
<1>1. \A s \in Slots : SlotInv(s)'
  BY SlotKept, FrameAndSlots DEF slots, Frame, TypeOK
<1>2. (\A s \in Slots : SlotInv(s))'
  BY <1>1
<1> QED BY <1>2, FrameAndSlots DEF RunInv, Frame, SlotInv

LEMMA RunInvInit == Init => RunInv
<1> SUFFICES ASSUME Init PROVE RunInv
  OBVIOUS
<1>1. TypeOK
  BY DEF Init, TypeOK
<1>2. HoldsAll
  BY DEF Init, HoldsAll
<1> QED BY <1>1, <1>2 DEF Init, RunInv

\* A retry that ends holds nothing.
LEMMA LeaveTyped ==
  ASSUME TypeOK, HoldsAll, NEW r \in Retriers, LeaveRetry(r)
  PROVE  /\ rpc' \in [Retriers -> {"idle", "workflow", "update", "publish"}]
         /\ rexec' \in [Retriers -> Executions \cup {Nil}]
         /\ rgraph' \in [Retriers -> Graphs \cup {Nil}]
         /\ \A q \in Retriers : rpc'[q] # "idle" => rexec'[q] # Nil
         /\ \A q \in Retriers : rpc'[q] \in {"update", "publish"} => rgraph'[q] # Nil
BY DEF TypeOK, HoldsAll, LeaveRetry

\* The calls of the service.
LEMMA ServiceKeepsRunInv ==
  ASSUME RunInv,
         \/ Create \/ Update \/ Delete \/ CallStops
         \/ \E e \in Executions : TriggerStep(e)
         \/ \E r \in Retriers : RetryStep(r) \/ \E e \in Executions : ReadFailed(r, e)
  PROVE  RunInv'
<1> USE DEF records, broker, triggers, retrying, slots, procs, history
<1>a. TypeOK /\ HoldsAll /\ Frame
  BY DEF RunInv, Frame
<1>1. CASE Create
  <2>1. TypeOK'
    BY <1>a, <1>1 DEF TypeOK, Create
  <2>2. Frame' /\ spent' = spent
    BY <1>a, <1>1, <2>1 DEF Frame, HoldsAll, Create
  <2> QED BY <1>1, <2>2, <1>a, SlotsKept DEF Create, TypeOK, Kinds
<1>2. CASE Update \/ Delete
  <2>1. spent' \in [Kinds -> Nat] /\ \A k \in Kinds : spent'[k] >= spent[k]
    BY <1>a, <1>2, SpendOne DEF TypeOK, Update, Delete, Kinds
  <2>2. TypeOK'
    BY <1>a, <1>2, <2>1 DEF TypeOK, Update, Delete
  <2>3. Frame'
    BY <1>a, <1>2, <2>2 DEF Frame, HoldsAll, Update, Delete
  <2> QED BY <1>2, <2>1, <2>3, SlotsKept DEF Update, Delete, Kinds
<1>3. CASE CallStops
  <2>1. spent' \in [Kinds -> Nat] /\ \A k \in Kinds : spent'[k] >= spent[k]
    BY <1>a, <1>3, SpendOne DEF TypeOK, CallStops, Kinds
  <2>2. TypeOK' /\ HoldsAll'
    <3>1. ASSUME NEW e \in Executions, epc' = [epc EXCEPT ![e] = "done"],
                 egraph' = [egraph EXCEPT ![e] = Nil], UNCHANGED retrying
          PROVE  TypeOK' /\ HoldsAll'
      <4>1. TypeOK'
        BY <1>a, <1>3, <2>1, <3>1 DEF TypeOK, CallStops
      <4>2. HoldsAll'
        BY <1>a, <1>3, <3>1 DEF TypeOK, HoldsAll, CallStops
      <4> QED BY <4>1, <4>2
    <3>2. ASSUME NEW r \in Retriers, LeaveRetry(r), UNCHANGED triggers
          PROVE  TypeOK' /\ HoldsAll'
      <4>1. TypeOK'
        BY <1>a, <1>3, <2>1, <3>2, LeaveTyped DEF TypeOK, CallStops
      <4>2. HoldsAll'
        BY <1>a, <1>3, <3>2, LeaveTyped DEF HoldsAll, CallStops
      <4> QED BY <4>1, <4>2
    <3> QED BY <1>3, <3>1, <3>2 DEF CallStops
  <2>4. Frame'
    BY <1>a, <1>3, <2>2 DEF Frame, CallStops
  <2> QED BY <1>3, <2>1, <2>4, SlotsKept DEF CallStops, Kinds
<1>4. ASSUME NEW e \in Executions, TriggerStep(e) PROVE RunInv'
  <2>1. TypeOK'
    <3>1. egraph'[e] \in Graphs \cup {Nil}
      BY <1>a, <1>4 DEF TypeOK, Documents, TriggerStep, ReadEnabled, CreateExecution, PublishExecution
    <3>2. CASE ReadEnabled(e)
      BY <1>a, <3>1, <3>2 DEF TypeOK, Documents, ReadEnabled
    <3>3. CASE CreateExecution(e)
      BY <1>a, <3>3 DEF TypeOK, CreateExecution
    <3>4. CASE PublishExecution(e)
      <4>1. [exec |-> e, graph |-> egraph[e], by |-> Nil, attempt |-> 0] \in Jobs
        BY <1>a, <3>4 DEF TypeOK, HoldsAll, PublishExecution, Jobs
      <4> QED BY <1>a, <3>4, <4>1 DEF TypeOK, PublishExecution
    <3> QED BY <1>4, <3>2, <3>3, <3>4 DEF TriggerStep
  <2>2. HoldsAll'
    <3>1. workflow # Nil => workflow.graph # Nil
      BY <1>a, WorkflowAssumption DEF TypeOK, Documents
    <3>2. CASE ReadEnabled(e)
      BY <1>a, <3>1, <3>2 DEF TypeOK, HoldsAll, ReadEnabled
    <3>3. CASE CreateExecution(e)
      BY <1>a, <3>3 DEF TypeOK, HoldsAll, CreateExecution
    <3>4. CASE PublishExecution(e)
      BY <1>a, <3>4 DEF TypeOK, HoldsAll, PublishExecution
    <3> QED BY <1>4, <3>2, <3>3, <3>4 DEF TriggerStep
  <2>3. UNCHANGED <<slots, spent, procs>>
    BY <1>4 DEF TriggerStep, ReadEnabled, CreateExecution, PublishExecution
  <2>4. Frame' /\ spent' \in [Kinds -> Nat] /\ spent'["fault"] >= spent["fault"]
    <3>1. spent \in [Kinds -> Nat]
      BY <1>a DEF TypeOK
    <3> QED BY <1>a, <2>1, <2>2, <2>3, <3>1 DEF Frame, Kinds
  <2> QED BY <2>3, <2>4, SlotsKept
<1>5. ASSUME NEW r \in Retriers, NEW e \in Executions, RetryStep(r) \/ ReadFailed(r, e)
      PROVE  RunInv'
  <2>1. TypeOK'
    <3>1. CASE ReadFailed(r, e)
      BY <1>a, <3>1 DEF TypeOK, ReadFailed
    <3>2. CASE ReadWorkflow(r)
      <4>1. CASE LeaveRetry(r)
        BY <1>a, <3>2, <4>1, LeaveTyped DEF TypeOK, ReadWorkflow
      <4>2. CASE workflow # Nil
        <5>1. workflow.graph \in Graphs
          BY <1>a, <4>2 DEF TypeOK, Documents
        <5> QED BY <1>a, <3>2, <4>1, <4>2, <5>1 DEF TypeOK, ReadWorkflow
      <4> QED BY <3>2, <4>1, <4>2 DEF ReadWorkflow
    <3>3. CASE Requeue(r)
      <4>1. rexec[r] \in Executions
        BY <1>a, <3>3 DEF TypeOK, HoldsAll, Requeue
      <4> QED BY <1>a, <3>3, <4>1 DEF TypeOK, Requeue
    <3>4. CASE PublishRetry(r)
      <4>1. [exec |-> rexec[r], graph |-> rgraph[r], by |-> r, attempt |-> retries[rexec[r]]]
               \in Jobs
        BY <1>a, <3>4 DEF TypeOK, HoldsAll, PublishRetry, Jobs
      <4> QED BY <1>a, <3>4, <4>1 DEF TypeOK, PublishRetry, LeaveRetry
    <3> QED BY <1>5, <3>1, <3>2, <3>3, <3>4 DEF RetryStep
  <2>2. HoldsAll'
    <3>1. workflow # Nil => workflow.graph # Nil
      BY <1>a, WorkflowAssumption DEF TypeOK, Documents
    <3>2. e # Nil
      BY WorkflowAssumption
    <3>3. CASE ReadFailed(r, e)
      BY <1>a, <3>2, <3>3 DEF TypeOK, HoldsAll, ReadFailed
    <3>4. CASE ReadWorkflow(r)
      <4>1. CASE LeaveRetry(r)
        BY <1>a, <3>4, <4>1, LeaveTyped DEF HoldsAll, ReadWorkflow
      <4>2. CASE /\ workflow # Nil /\ rpc' = [rpc EXCEPT ![r] = "update"]
                 /\ rgraph' = [rgraph EXCEPT ![r] = workflow.graph] /\ UNCHANGED rexec
        <5>1. rpc[r] = "workflow" /\ UNCHANGED triggers /\ UNCHANGED slots
          BY <3>4 DEF ReadWorkflow
        <5> QED BY <1>a, <3>1, <4>2, <5>1 DEF TypeOK, HoldsAll
      <4> QED BY <3>4, <4>1, <4>2 DEF ReadWorkflow
    <3>5. CASE Requeue(r)
      BY <1>a, <3>5 DEF TypeOK, HoldsAll, Requeue
    <3>6. CASE PublishRetry(r)
      BY <1>a, <3>6, LeaveTyped DEF HoldsAll, PublishRetry
    <3> QED BY <1>5, <3>3, <3>4, <3>5, <3>6 DEF RetryStep
  <2>3. UNCHANGED <<slots, spent, procs>>
    BY <1>5 DEF RetryStep, ReadFailed, ReadWorkflow, Requeue, PublishRetry
  <2>4. Frame' /\ spent' \in [Kinds -> Nat] /\ spent'["fault"] >= spent["fault"]
    <3>1. spent \in [Kinds -> Nat]
      BY <1>a DEF TypeOK
    <3> QED BY <1>a, <2>1, <2>2, <2>3, <3>1 DEF Frame, Kinds
  <2> QED BY <2>3, <2>4, SlotsKept
<1>6. ASSUME NEW r \in Retriers, RetryStep(r) PROVE RunInv'
  <2>1. \E e \in Executions : TRUE
    BY <1>a, <1>6 DEF TypeOK, HoldsAll, RetryStep, ReadWorkflow, Requeue, PublishRetry
  <2> QED BY <1>5, <1>6, <2>1
<1> QED BY <1>1, <1>2, <1>3, <1>4, <1>5, <1>6

\* A step of one slot.
LEMMA OthersKept ==
  ASSUME RunInv, NEW s \in Slots,
         \A u \in Slots \ {s} : /\ wpc'[u] = wpc[u] /\ job'[u] = job[u]
                                /\ node'[u] = node[u] /\ ran'[u] = ran[u],
         \A k \in Kinds : spent'[k] >= spent[k], Frame', SlotInv(s)'
  PROVE  RunInv'
<1>1. spent \in [Kinds -> Nat] /\ spent' \in [Kinds -> Nat]
  BY DEF RunInv, Frame, TypeOK
<1>2. ASSUME NEW u \in Slots PROVE SlotInv(u)'
  <2>1. CASE u = s
    BY <2>1
  <2>2. CASE u # s
    BY <1>1, <2>2, SlotKept, FrameAndSlots DEF Kinds
  <2> QED BY <2>1, <2>2
<1>3. (\A u \in Slots : SlotInv(u))'
  BY <1>2
<1> QED BY <1>3 DEF RunInv, Frame, SlotInv

\* What the proofs of the steps below need of a slot's job and graph.
LEMMA JobOfSlot ==
  ASSUME TypeOK, HoldsAll, NEW s \in Slots, wpc[s] # "idle"
  PROVE  /\ job[s] \in Jobs /\ job[s] # Nil /\ job[s].exec \in Executions
         /\ job[s].graph \in Graphs /\ job[s].graph.first \in Nodes \cup {Nil}
         /\ job[s].graph.next \in [Nodes -> SUBSET (Nodes \cup {Nil}) \ {{}}]
         /\ ran[s] \in Seq(NodeResults) /\ Len(ran[s]) \in Nat
BY WorkflowAssumption DEF TypeOK, HoldsAll, Jobs

LEMMA DeliverKeepsRunInv ==
  ASSUME RunInv, NEW s \in Slots, Deliver(s)
  PROVE  RunInv'
<1> USE DEF records, triggers, retrying, procs, history
<1>a. TypeOK /\ HoldsAll
  BY DEF RunInv
<1>1. PICK m \in queue :
          /\ wpc[s] = "idle" /\ queue' = queue \ {m}
          /\ wpc' = [wpc EXCEPT ![s] = "start"] /\ job' = [job EXCEPT ![s] = m]
          /\ node' = [node EXCEPT ![s] = m.graph.first]
          /\ UNCHANGED <<workflow, records, dlq, triggers, retrying, ran, procs,
                         spent, history>>
  BY DEF Deliver
<1>2. m \in Jobs /\ m # Nil /\ m.graph.first \in Nodes \cup {Nil}
  BY <1>a, <1>1, WorkflowAssumption DEF TypeOK, Jobs
<1>3. TypeOK'
  BY <1>a, <1>1, <1>2 DEF TypeOK, WorkSteps, InTry
<1>4. HoldsAll'
  BY <1>a, <1>1, <1>2 DEF TypeOK, HoldsAll
<1>5. ran[s] = <<>>
  BY <1>a, <1>1 DEF HoldsAll
<1>6. SlotInv(s)'
  BY <1>a, <1>1, <1>2, <1>5 DEF TypeOK, SlotInv, FollowsGraph, WentWell, AfterLast
<1>7. Frame'
  BY <1>1, <1>3, <1>4 DEF Frame, RunInv
<1>8. \A k \in Kinds : spent'[k] >= spent[k]
  BY <1>a, <1>1 DEF TypeOK
<1> QED BY <1>a, <1>1, <1>6, <1>7, <1>8, OthersKept DEF TypeOK

\* Start, PushRunning, Succeed and Fail: one store call each.
LEMMA StoredKeepsRunInv ==
  ASSUME RunInv, NEW s \in Slots,
         Start(s) \/ PushRunning(s) \/ Succeed(s) \/ Fail(s) \/ Count(s)
  PROVE  RunInv'
<1> USE DEF records, broker, triggers, retrying, procs, history
<1>a. TypeOK /\ HoldsAll
  BY DEF RunInv
<1>b. spent \in [Kinds -> Nat] /\ wpc \in [Slots -> WorkSteps \cup {"idle"}]
  BY <1>a DEF TypeOK
<1>1. /\ wpc[s] # "idle" /\ UNCHANGED <<workflow, retries, broker, triggers, retrying, job, node,
                                        ran, procs, history>>
  BY DEF Start, PushRunning, Succeed, Fail, End, Count, Stored
<1>2. PICK from, to, catch :
          /\ Stored(s, from, to, catch) /\ {to, catch} \subseteq WorkSteps
          /\ \/ from = "start" /\ to = Onward(node[s]) /\ catch = "nack"
             \/ from = "push" /\ to = "execute" /\ catch = "fail"
             \/ from = "succeed" /\ to = "count" /\ catch = "fail"
             \/ from \in {"fail", "note"} /\ to \in {"note", "nack"} /\ catch = "nack"
             \/ from = "count" /\ to = "ack" /\ catch = "fail"
  BY DEF Start, PushRunning, Succeed, Fail, End, Count, WorkSteps, InTry, Onward
<1>3. /\ wpc[s] = from /\ spent' \in [Kinds -> Nat]
      /\ \A k \in Kinds : spent'[k] >= spent[k]
      /\ \A k \in Kinds \ {"fault"} : spent'[k] = spent[k]
      /\ \/ wpc' = [wpc EXCEPT ![s] = to] /\ spent' = spent
         \/ wpc' = [wpc EXCEPT ![s] = catch] /\ spent'["fault"] > 0
  BY <1>b, <1>2, StoredGoesOn
<1>4. wpc' \in [Slots -> WorkSteps \cup {"idle"}] /\ wpc'[s] # "idle"
      /\ \A u \in Slots \ {s} : wpc'[u] = wpc[u]
  BY <1>b, <1>2, <1>3 DEF WorkSteps, InTry
<1>5. TypeOK'
  <2>1. /\ job[s].exec \in Executions /\ ran[s] \in Seq(NodeResults)
        /\ wpc[s] = "push" => [node |-> node[s], status |-> "running"] \in NodeResults
    <3>1. wpc[s] = "push" => node[s] \in Nodes
      BY <1>a DEF TypeOK, RunInv, FollowsGraph
    <3> QED BY <1>1, <1>a, <3>1, JobOfSlot DEF NodeResults, Outcomes
  <2>2. status' \in [Executions -> {"absent", "queued", "running", "success", "failed"}]
    BY <1>a, <2>1 DEF TypeOK, Start, PushRunning, Succeed, Fail, End, Count
  <2>3. results' \in [Executions -> Seq(NodeResults \cup {Nil})]
    <3>1. CASE PushRunning(s)
      <4>1. Append(results[job[s].exec], [node |-> node[s], status |-> "running"])
               \in Seq(NodeResults \cup {Nil})
        BY <1>a, <2>1, <3>1 DEF TypeOK, PushRunning, Stored
      <4> QED BY <1>a, <2>1, <3>1, <4>1 DEF TypeOK, PushRunning
    <3>2. CASE Succeed(s) \/ Fail(s)
      <4>1. ran[s] \in Seq(NodeResults \cup {Nil})
        BY <2>1
      <4> QED BY <1>a, <2>1, <3>2, <4>1 DEF TypeOK, Succeed, Fail, End, FinalResults
    <3>3. CASE Start(s) \/ Count(s)
      BY <1>a, <3>3 DEF TypeOK, Start, Count
    <3> QED BY <3>1, <3>2, <3>3
  <2> QED BY <1>a, <1>1, <1>3, <1>4, <2>2, <2>3 DEF TypeOK
<1>6. HoldsAll'
  BY <1>a, <1>1, <1>4 DEF HoldsAll
<1>7. SlotInv(s)'
  <2>1. FollowsGraph(s) /\ WentWell(s)
    BY <1>1 DEF RunInv
  <2>2. AfterLast(s)' = AfterLast(s) /\ LastRan(s)' = LastRan(s)
    BY <1>1 DEF AfterLast, LastRan
  <2>3. Len(ran[s]) \in Nat
    BY <1>1, <1>a, JobOfSlot
  <2>4. FollowsGraph(s)'
    BY <1>b, <1>1, <1>2, <1>3, <2>1, <2>2 DEF FollowsGraph, Onward
  <2>5. WentWell(s)'
    BY <1>b, <1>1, <1>2, <1>3, <2>1, <2>2 DEF WentWell, FollowsGraph, Onward
  <2> QED BY <2>4, <2>5 DEF SlotInv
<1>8. Frame'
  BY <1>1, <1>3, <1>5, <1>6 DEF Frame, RunInv, Kinds
<1> QED BY <1>1, <1>3, <1>4, <1>7, <1>8, OthersKept

\* The status a node ended with, at the end of the run's list.
LEMMA ExecuteKeepsRunInv ==
  ASSUME RunInv, NEW s \in Slots, Execute(s)
  PROVE  RunInv'
<1> USE DEF records, broker, triggers, retrying, procs
<1>a. TypeOK /\ HoldsAll /\ FollowsGraph(s) /\ WentWell(s)
  BY DEF RunInv, Execute
<1>1. PICK o \in {"success", "failed"} :
          ran' = [ran EXCEPT ![s] = Append(@, [node |-> node[s], status |-> o])]
  BY DEF Execute, NodeOutcomes
<1>2. /\ wpc[s] = "execute" /\ wpc' = [wpc EXCEPT ![s] = "set"]
      /\ effects' = [effects EXCEPT ![job[s].exec][node[s]] = @ + 1]
      /\ UNCHANGED <<workflow, records, broker, triggers, retrying, job, node, procs, spent,
                     redelivered, raced, abandoned>>
  BY DEF Execute
<1>3. /\ node[s] \in Nodes /\ job[s].exec \in Executions /\ ran[s] \in Seq(NodeResults)
      /\ job[s].graph.next \in [Nodes -> SUBSET (Nodes \cup {Nil}) \ {{}}]
  BY <1>a, <1>2, JobOfSlot DEF TypeOK, FollowsGraph
<1>4. [node |-> node[s], status |-> o] \in NodeResults
  BY <1>3 DEF NodeResults, Outcomes
<1> DEFINE entry == [node |-> node[s], status |-> o]
<1>5. /\ ran' \in [Slots -> Seq(NodeResults)] /\ ran'[s] = Append(ran[s], entry)
      /\ Len(ran'[s]) = Len(ran[s]) + 1 /\ ran'[s][Len(ran[s]) + 1] = entry
      /\ \A k \in 1..Len(ran[s]) : ran'[s][k] = ran[s][k]
      /\ ran'[s] # <<>> /\ LastRan(s)' = entry /\ Len(ran[s]) \in Nat
      /\ \A u \in Slots \ {s} : ran'[u] = ran[u]
  <2>1. ran'[s] = Append(ran[s], entry) /\ \A u \in Slots \ {s} : ran'[u] = ran[u]
    BY <1>a, <1>1 DEF TypeOK
  <2>2. Append(ran[s], entry) \in Seq(NodeResults)
    BY <1>3, <1>4
  <2>3. ran' \in [Slots -> Seq(NodeResults)]
    BY <1>a, <1>1, <2>2 DEF TypeOK
  <2>4. /\ Len(Append(ran[s], entry)) = Len(ran[s]) + 1
        /\ Append(ran[s], entry)[Len(ran[s]) + 1] = entry
        /\ \A k \in 1..Len(ran[s]) : Append(ran[s], entry)[k] = ran[s][k]
        /\ Append(ran[s], entry) # <<>> /\ Len(ran[s]) \in Nat
    BY <1>3, <1>4
  <2> HIDE DEF entry
  <2> QED BY <2>1, <2>3, <2>4 DEF LastRan
<1>6. TypeOK'
  <2>1. effects' \in [Executions -> [Nodes -> Nat]]
    BY <1>a, <1>2, <1>3 DEF TypeOK
  <2>2. wpc' \in [Slots -> WorkSteps \cup {"idle"}]
    BY <1>a, <1>2 DEF TypeOK, WorkSteps, InTry
  <2> QED BY <1>a, <1>2, <1>5, <2>1, <2>2 DEF TypeOK
<1>7. HoldsAll'
  BY <1>a, <1>2, <1>5 DEF TypeOK, HoldsAll
<1>8. FollowsGraph(s)'
  <2>1. wpc'[s] = "set" /\ job'[s] = job[s] /\ node'[s] = node[s]
    BY <1>a, <1>2 DEF TypeOK
  <2>2. ran'[s][1].node = job[s].graph.first
    <3>1. CASE ran[s] = <<>>
      BY <1>a, <1>2, <1>5, <3>1 DEF FollowsGraph, AfterLast
    <3>2. CASE ran[s] # <<>>
      <4>1. 1 \in 1..Len(ran[s])
        BY <1>3, <3>2
      <4> QED BY <1>a, <1>5, <3>2, <4>1 DEF FollowsGraph
    <3> QED BY <3>1, <3>2
  <2>3. ASSUME NEW k \in 1..(Len(ran'[s]) - 1)
        PROVE  ran'[s][k + 1].node \in job[s].graph.next[ran'[s][k].node]
    <3>1. CASE k = Len(ran[s])
      BY <1>a, <1>2, <1>3, <1>5, <3>1 DEF FollowsGraph, AfterLast, LastRan
    <3>2. CASE k # Len(ran[s])
      <4>1. k \in 1..(Len(ran[s]) - 1) /\ k \in 1..Len(ran[s]) /\ k + 1 \in 1..Len(ran[s])
        BY <1>5, <3>2
      <4> QED BY <1>a, <1>5, <4>1 DEF FollowsGraph
    <3> QED BY <3>1, <3>2
  <2> QED BY <1>5, <2>1, <2>2, <2>3 DEF FollowsGraph
<1>9. WentWell(s)'
  <2>1. wpc'[s] = "set" /\ Len(ran'[s]) = Len(ran[s]) + 1
    BY <1>a, <1>2, <1>5 DEF TypeOK
  <2>2. ASSUME NEW k \in 1..Len(ran'[s])
        PROVE  \/ ran'[s][k].status = "success"
               \/ k = Len(ran'[s]) /\ ran'[s][k].status = "failed"
    <3>1. CASE k = Len(ran[s]) + 1
      BY <1>5, <3>1
    <3>2. CASE k # Len(ran[s]) + 1
      <4>1. k \in 1..Len(ran[s]) /\ ran[s] # <<>>
        BY <1>5, <3>2
      <4> QED BY <1>a, <1>2, <1>5, <4>1 DEF WentWell, LastRan
    <3> QED BY <3>1, <3>2
  <2> QED BY <2>1, <2>2 DEF WentWell
<1>10. SlotInv(s)' /\ Frame'
  BY <1>2, <1>6, <1>7, <1>8, <1>9 DEF Frame, SlotInv, RunInv
<1>11. \A k \in Kinds : spent'[k] >= spent[k]
  BY <1>a, <1>2 DEF TypeOK
<1> QED BY <1>a, <1>2, <1>5, <1>10, <1>11, OthersKept DEF TypeOK

LEMMA SetResultKeepsRunInv ==
  ASSUME RunInv, NEW s \in Slots, SetResult(s)
  PROVE  RunInv'
<1> USE DEF broker, triggers, retrying, procs, history
<1>a. TypeOK /\ HoldsAll /\ FollowsGraph(s) /\ WentWell(s)
  BY DEF RunInv, SetResult
<1>b. spent \in [Kinds -> Nat] /\ wpc \in [Slots -> WorkSteps \cup {"idle"}]
  BY <1>a DEF TypeOK
<1> DEFINE next(n) == IF LastRan(s).status = "failed" THEN "fail" ELSE Onward(n)
<1>1. PICK n \in job[s].graph.next[node[s]] :
          Stored(s, "set", next(n), "fail") /\ node' = [node EXCEPT ![s] = n]
  BY DEF SetResult
<1>2. /\ wpc[s] = "set"
      /\ results' = [results EXCEPT ![job[s].exec] = SetAt(@, Len(ran[s]), LastRan(s))]
      /\ UNCHANGED <<workflow, status, retries, broker, triggers, retrying, job, ran, procs,
                     history>>
  BY DEF SetResult
<1>3. /\ spent' \in [Kinds -> Nat]
      /\ \A k \in Kinds : spent'[k] >= spent[k]
      /\ \A k \in Kinds \ {"fault"} : spent'[k] = spent[k]
      /\ \/ wpc' = [wpc EXCEPT ![s] = next(n)] /\ spent' = spent
         \/ wpc' = [wpc EXCEPT ![s] = "fail"] /\ spent'["fault"] > 0
  BY <1>b, <1>1, StoredGoesOn
<1>4. /\ ran[s] # <<>> /\ node[s] = LastRan(s).node /\ ran[s] \in Seq(NodeResults)
      /\ Len(ran[s]) \in Nat /\ Len(ran[s]) >= 1 /\ LastRan(s) \in NodeResults
      /\ job[s].exec \in Executions /\ n \in Nodes \cup {Nil}
  <2>1. ran[s] # <<>> /\ node[s] = LastRan(s).node /\ ran[s] \in Seq(NodeResults)
    BY <1>a, <1>2, JobOfSlot DEF FollowsGraph
  <2>2. Len(ran[s]) \in Nat /\ Len(ran[s]) >= 1
    BY <2>1
  <2>3. LastRan(s) \in NodeResults
    BY <2>1, <2>2 DEF LastRan
  <2>4. node[s] \in Nodes
    BY <2>1, <2>3 DEF NodeResults
  <2> QED BY <1>a, <1>1, <1>2, <2>1, <2>2, <2>3, <2>4, JobOfSlot
<1>5. TypeOK'
  <2>1. wpc' \in [Slots -> WorkSteps \cup {"idle"}]
    BY <1>b, <1>3 DEF WorkSteps, InTry, Onward
  <2>2. node' \in [Slots -> Nodes \cup {Nil}]
    BY <1>a, <1>1, <1>4 DEF TypeOK
  <2>3. SetAt(results[job[s].exec], Len(ran[s]), LastRan(s)) \in Seq(NodeResults \cup {Nil})
    BY <1>a, <1>4, SetAtType DEF TypeOK
  <2>4. results' \in [Executions -> Seq(NodeResults \cup {Nil})]
    BY <1>a, <1>2, <1>4, <2>3 DEF TypeOK
  <2> QED BY <1>a, <1>2, <1>3, <2>1, <2>2, <2>4 DEF TypeOK
<1>6. wpc'[s] # "idle" /\ (wpc'[s] \in {"push", "succeed", "fail"})
  BY <1>b, <1>3 DEF Onward
<1>7. HoldsAll'
  BY <1>a, <1>b, <1>2, <1>3, <1>6 DEF HoldsAll
<1>8. SlotInv(s)'
  <2>1. AfterLast(s)' = AfterLast(s) /\ LastRan(s)' = LastRan(s) /\ node'[s] = n
    BY <1>a, <1>1, <1>2 DEF AfterLast, LastRan, TypeOK
  <2>2. n \in AfterLast(s)
    BY <1>1, <1>4 DEF AfterLast
  <2>3. FollowsGraph(s)'
    BY <1>a, <1>b, <1>2, <1>3, <1>6, <2>1, <2>2 DEF FollowsGraph, Onward
  <2>4. LastRan(s).status \in {"success", "failed"}
    BY <1>a, <1>4 DEF WentWell, LastRan
  <2>5. WentWell(s)'
    <3>1. \/ wpc'[s] = next(n) /\ spent' = spent
          \/ wpc'[s] = "fail" /\ spent'["fault"] > 0
      BY <1>b, <1>3
    <3> QED BY <1>a, <1>2, <1>4, <1>6, <2>1, <2>4, <3>1 DEF WentWell, Onward
  <2> QED BY <2>3, <2>5 DEF SlotInv
<1>9. Frame'
  BY <1>2, <1>3, <1>5, <1>7 DEF Frame, RunInv, Kinds
<1>10. \A u \in Slots \ {s} : /\ wpc'[u] = wpc[u] /\ job'[u] = job[u]
                              /\ node'[u] = node[u] /\ ran'[u] = ran[u]
  BY <1>a, <1>1, <1>2, <1>3 DEF TypeOK
<1> QED BY <1>3, <1>8, <1>9, <1>10, OthersKept

LEMMA SlotFaultKeepsRunInv ==
  ASSUME RunInv, NEW s \in Slots, SlotFault(s)
  PROVE  RunInv'
<1> USE DEF records, broker, triggers, retrying, procs, history
<1>a. TypeOK /\ HoldsAll
  BY DEF RunInv
<1>1. /\ wpc[s] \in WorkSteps \ {"execute", "ack", "nack"}
      /\ wpc' = [wpc EXCEPT ![s] = IF @ \in InTry THEN "fail" ELSE "nack"]
      /\ UNCHANGED <<workflow, records, broker, triggers, retrying, job, node, ran, procs,
                     history>>
  BY DEF SlotFault
<1>2. /\ spent' \in [Kinds -> Nat] /\ spent'["fault"] > 0
      /\ \A k \in Kinds : spent'[k] >= spent[k]
  BY <1>a, SpendOne DEF TypeOK, SlotFault, Kinds
<1>3. /\ wpc[s] # "idle" /\ wpc'[s] \in {"fail", "nack"}
      /\ wpc' \in [Slots -> WorkSteps \cup {"idle"}]
      /\ \A u \in Slots \ {s} : wpc'[u] = wpc[u]
  BY <1>a, <1>1 DEF TypeOK, WorkSteps, InTry
<1>4. TypeOK'
  BY <1>a, <1>1, <1>2, <1>3 DEF TypeOK
<1>5. HoldsAll'
  BY <1>a, <1>1, <1>3 DEF HoldsAll
<1>6. SlotInv(s)'
  <2>1. FollowsGraph(s) /\ WentWell(s)
    BY <1>3 DEF RunInv
  <2>2. FollowsGraph(s)'
    BY <1>1, <1>3, <2>1 DEF FollowsGraph
  <2>3. WentWell(s)'
    BY <1>1, <1>2, <1>3, <2>1 DEF WentWell
  <2> QED BY <2>2, <2>3 DEF SlotInv
<1>7. Frame'
  BY <1>4, <1>5 DEF Frame
<1> QED BY <1>1, <1>2, <1>3, <1>6, <1>7, OthersKept

\* Slots that are vacated, by the end of a job or of their process.
LEMMA VacatedTyped ==
  ASSUME RunInv, NEW S \in SUBSET Slots, Vacated(S), spent' \in [Kinds -> Nat],
         \A k \in Kinds : spent'[k] >= spent[k]
  PROVE  /\ wpc' \in [Slots -> WorkSteps \cup {"idle"}] /\ job' \in [Slots -> Jobs \cup {Nil}]
         /\ node' \in [Slots -> Nodes \cup {Nil}] /\ ran' \in [Slots -> Seq(NodeResults)]
         /\ \A s \in Slots : wpc'[s] = "idle" <=> job'[s] = Nil
         /\ \A s \in Slots : wpc'[s] = "idle" => ran'[s] = <<>>
         /\ \A s \in Slots : SlotInv(s)'
<1>a. TypeOK /\ HoldsAll /\ spent \in [Kinds -> Nat]
  BY DEF RunInv, TypeOK
<1>1. /\ wpc' = [s \in Slots |-> IF s \in S THEN "idle" ELSE wpc[s]]
      /\ job' = [s \in Slots |-> IF s \in S THEN Nil ELSE job[s]]
      /\ node' = [s \in Slots |-> IF s \in S THEN Nil ELSE node[s]]
      /\ ran' = [s \in Slots |-> IF s \in S THEN <<>> ELSE ran[s]]
  BY DEF Vacated
<1>2. <<>> \in Seq(NodeResults)
  OBVIOUS
<1>3. /\ wpc' \in [Slots -> WorkSteps \cup {"idle"}] /\ job' \in [Slots -> Jobs \cup {Nil}]
      /\ node' \in [Slots -> Nodes \cup {Nil}] /\ ran' \in [Slots -> Seq(NodeResults)]
  BY <1>a, <1>1, <1>2 DEF TypeOK
<1>4. ASSUME NEW s \in Slots PROVE SlotInv(s)'
  <2>1. CASE s \in S
    BY <1>1, <2>1 DEF SlotInv
  <2>2. CASE s \notin S
    BY <1>a, <1>1, <2>2, SlotKept, FrameAndSlots DEF Kinds
  <2> QED BY <2>1, <2>2
<1> QED BY <1>a, <1>1, <1>3, <1>4 DEF HoldsAll

LEMMA SettleKeepsRunInv ==
  ASSUME RunInv, NEW s \in Slots, Settle(s)
  PROVE  RunInv'
<1> USE DEF records, broker, triggers, retrying, history
<1>a. TypeOK /\ HoldsAll
  BY DEF RunInv
<1>1. /\ wpc[s] \in {"ack", "nack"} /\ Vacated({s})
      /\ UNCHANGED <<workflow, records, triggers, retrying, channel, spent, history>>
      /\ stopping' = stopping \/ stopping' = stopping \cup {ProcOf[s]}
      /\ queue' = queue /\ (dlq' = dlq \/ dlq' = dlq \cup {job[s]})
  BY DEF Settle, Requeued
<1>2. ProcOf[s] \in Procs /\ job[s] \in Jobs
  BY <1>a, <1>1, JobOfSlot, WorkflowAssumption
<1>3. spent' \in [Kinds -> Nat] /\ \A k \in Kinds : spent'[k] >= spent[k]
  BY <1>a, <1>1 DEF TypeOK
<1>4. /\ wpc' \in [Slots -> WorkSteps \cup {"idle"}] /\ job' \in [Slots -> Jobs \cup {Nil}]
      /\ node' \in [Slots -> Nodes \cup {Nil}] /\ ran' \in [Slots -> Seq(NodeResults)]
      /\ \A u \in Slots : wpc'[u] = "idle" <=> job'[u] = Nil
      /\ \A u \in Slots : wpc'[u] = "idle" => ran'[u] = <<>>
      /\ \A u \in Slots : SlotInv(u)'
  BY <1>1, <1>3, VacatedTyped
<1>5. TypeOK'
  BY <1>a, <1>1, <1>2, <1>4 DEF TypeOK
<1>6. HoldsAll'
  BY <1>a, <1>1, <1>4 DEF HoldsAll
<1> QED BY <1>4, <1>5, <1>6 DEF RunInv, SlotInv

\* What a process has not acknowledged goes back to the queue.
LEMMA UnackedAreJobs ==
  ASSUME TypeOK, HoldsAll, NEW p \in Procs
  PROVE  /\ Unacked(p) \subseteq Jobs /\ IsFiniteSet(Unacked(p))
         /\ \A e : /\ IsFiniteSet({m \in Unacked(p) : m.exec = e})
                   /\ Cardinality({m \in Unacked(p) : m.exec = e}) \in Nat
         /\ Busy(p) \subseteq Slots
<1>1. Busy(p) \subseteq Slots /\ IsFiniteSet(Busy(p))
  BY WorkflowAssumption, FS_Subset DEF Busy
<1>2. \A s \in Busy(p) : job[s] \in Jobs
  BY JobOfSlot DEF Busy
<1>3. IsFiniteSet({job[s] : s \in Busy(p)})
  <2> DEFINE T == {job[s] : s \in Busy(p)}
             f == [s \in Busy(p) |-> job[s]]
  <2>1. f \in Surjection(Busy(p), T)
    BY DEF Surjection
  <2> QED BY <1>1, <2>1, FS_Surjection
<1>4. Unacked(p) \subseteq Jobs /\ IsFiniteSet(Unacked(p))
  BY <1>2, <1>3, FS_EmptySet DEF Unacked
<1>5. ASSUME NEW e
      PROVE  /\ IsFiniteSet({m \in Unacked(p) : m.exec = e})
             /\ Cardinality({m \in Unacked(p) : m.exec = e}) \in Nat
  <2>1. {m \in Unacked(p) : m.exec = e} \subseteq Unacked(p)
    OBVIOUS
  <2> QED BY <1>4, <2>1, FS_Subset, FS_CardinalityType
<1> QED BY <1>1, <1>4, <1>5

LEMMA ProcessKeepsRunInv ==
  ASSUME RunInv, NEW p \in Procs,
         ProcessStep(p)
  PROVE  RunInv'
<1> USE DEF records, triggers, retrying, slots, procs, history
<1>a. TypeOK /\ HoldsAll /\ spent \in [Kinds -> Nat]
  BY DEF RunInv, TypeOK
<1>1. /\ spent' \in [Kinds -> Nat] /\ \A k \in Kinds : spent'[k] >= spent[k]
  BY <1>a, SpendOne DEF ProcessStep, LoseConnection, Disconnect, Exit, Crash, Kinds
<1>3. ASSUME PutBack(p)
      PROVE  queue' \subseteq Jobs /\ redelivered' \in [Executions -> Nat]
  <2>1. \A e \in Executions :
            redelivered[e] + Cardinality({m \in Unacked(p) : m.exec = e}) \in Nat
    <3>1. ASSUME NEW e \in Executions
          PROVE  redelivered[e] + Cardinality({m \in Unacked(p) : m.exec = e}) \in Nat
      <4>1. Cardinality({m \in Unacked(p) : m.exec = e}) \in Nat
        BY <1>a, UnackedAreJobs
      <4>2. redelivered[e] \in Nat
        BY <1>a DEF TypeOK
      <4> QED BY <4>1, <4>2
    <3> QED BY <3>1
  <2>2. redelivered' \in [Executions -> Nat]
    BY <1>3, <2>1 DEF PutBack
  <2>3. Unacked(p) \subseteq Jobs /\ queue \subseteq Jobs
    BY <1>a, UnackedAreJobs DEF TypeOK
  <2> QED BY <1>3, <2>2, <2>3 DEF PutBack
<1>4. CASE LoseConnection(p) \/ Disconnect(p)
  <2>1. TypeOK'
    <3>1. /\ PutBack(p) /\ channel' = [channel EXCEPT ![p] = FALSE]
          /\ stopping' = stopping \/ stopping' = stopping \cup {p}
          /\ UNCHANGED <<workflow, records, dlq, triggers, retrying, slots, effects, raced,
                         abandoned>>
      BY <1>4 DEF LoseConnection, Disconnect
    <3> QED BY <1>a, <1>1, <1>3, <3>1 DEF TypeOK
  <2>2. Frame'
    BY <1>a, <1>4, <2>1 DEF Frame, HoldsAll, LoseConnection, Disconnect
  <2> QED BY <1>1, <1>4, <2>2, SlotsKept DEF LoseConnection, Disconnect, Kinds
<1>6. CASE Exit(p) \/ Crash(p)
  <2>1. /\ PutBack(p) /\ Vacated(Busy(p))
        /\ channel' = [channel EXCEPT ![p] = TRUE] /\ stopping' = stopping \ {p}
        /\ UNCHANGED <<workflow, records, dlq, triggers, retrying, effects, raced>>
        /\ abandoned' = abandoned \cup Disowned(p)
    BY <1>6 DEF Exit, Crash, Restart
  <2>2. /\ wpc' \in [Slots -> WorkSteps \cup {"idle"}] /\ job' \in [Slots -> Jobs \cup {Nil}]
        /\ node' \in [Slots -> Nodes \cup {Nil}] /\ ran' \in [Slots -> Seq(NodeResults)]
        /\ \A u \in Slots : wpc'[u] = "idle" <=> job'[u] = Nil
        /\ \A u \in Slots : wpc'[u] = "idle" => ran'[u] = <<>>
        /\ \A u \in Slots : SlotInv(u)'
    BY <1>a, <1>1, <2>1, VacatedTyped, UnackedAreJobs
  <2>3. TypeOK'
    <3>1. Disowned(p) \subseteq Executions
      BY <1>a, JobOfSlot DEF Disowned, Busy
    <3> QED BY <1>a, <1>1, <1>3, <2>1, <2>2, <3>1 DEF TypeOK
  <2>4. HoldsAll'
    BY <1>a, <2>1, <2>2 DEF HoldsAll
  <2> QED BY <2>2, <2>3, <2>4 DEF RunInv, SlotInv
<1> QED BY <1>4, <1>6 DEF ProcessStep

LEMMA ExpireKeepsRunInv ==
  ASSUME RunInv, ExpireJob
  PROVE  RunInv'
<1> USE DEF records, triggers, retrying, slots, procs, history
<1>a. TypeOK /\ HoldsAll /\ spent \in [Kinds -> Nat]
  BY DEF RunInv, TypeOK
<1>1. spent' \in [Kinds -> Nat] /\ \A k \in Kinds : spent'[k] >= spent[k]
  BY <1>a, SpendOne DEF ExpireJob, Kinds
<1>3. PICK m \in queue :
          /\ queue' = queue \ {m} /\ dlq' = dlq \cup {m}
          /\ UNCHANGED <<workflow, records, triggers, retrying, slots, procs, history>>
  BY DEF ExpireJob
<1>4. TypeOK'
  BY <1>a, <1>1, <1>3 DEF TypeOK
<1>5. Frame'
  BY <1>a, <1>3, <1>4 DEF Frame, HoldsAll
<1> QED BY <1>1, <1>3, <1>5, SlotsKept DEF Kinds

LEMMA RunInvNext == RunInv /\ [Next]_vars => RunInv'
<1> SUFFICES ASSUME RunInv, [Next]_vars PROVE RunInv'
  OBVIOUS
<1>1. ASSUME NEW s \in Slots, SlotStep(s) \/ SlotFault(s) PROVE RunInv'
  BY <1>1, DeliverKeepsRunInv, StoredKeepsRunInv, ExecuteKeepsRunInv, SetResultKeepsRunInv,
     SettleKeepsRunInv, SlotFaultKeepsRunInv DEF SlotStep
<1>2. CASE UNCHANGED vars
  <2>1. TypeOK'
    BY <1>2 DEF RunInv, TypeOK, vars, records, broker, triggers, retrying, slots, procs, history
  <2>2. Frame'
    BY <1>2, <2>1 DEF RunInv, Frame, HoldsAll, vars, triggers, retrying, slots, procs
  <2>3. spent' = spent /\ spent' \in [Kinds -> Nat]
    BY <1>2, <2>1 DEF TypeOK, vars
  <2> QED BY <1>2, <2>2, <2>3, SlotsKept DEF vars, Kinds
<1> QED BY <1>1, <1>2, ServiceKeepsRunInv, ProcessKeepsRunInv, ExpireKeepsRunInv DEF Next

(* Calls, slots and messages keep their types, and the run of a slot       *)
(* follows the graph of its job, whatever interrupts it                    *)
(* (workflow.worker.js, executeWorkflow).                                  *)
THEOREM RunInvariant == Spec => []RunInv
BY RunInvInit, RunInvNext, PTL DEF Spec

-----------------------------------------------------------------------------
(* ResultsTellTheRun *)

\* Nothing that goes wrong is forgotten.
LEMMA SpentGrows ==
  ASSUME RunInv, [Next]_vars
  PROVE  \A k \in Kinds : spent'[k] >= spent[k]
<1>1. spent \in [Kinds -> Nat]
  BY DEF RunInv, TypeOK
<1>2. spent' = spent \/ \E k \in Kinds : Spend(k)
  BY DEF Next, vars, Create, Update, Delete, CallStops, TriggerStep, ReadEnabled,
         CreateExecution, PublishExecution, RetryStep, ReadFailed, ReadWorkflow, Requeue,
         PublishRetry, SlotStep, SlotFault, Deliver, Start, PushRunning, Execute, SetResult,
         Succeed, Fail, End, Count, Settle, Stored, ProcessStep, LoseConnection,
         Disconnect, Exit, Crash, Restart, ExpireJob, Kinds
<1> QED BY <1>1, <1>2, SpendOne

LEMMA AbandonedGrows == [Next]_vars => abandoned \subseteq abandoned'
<1> SUFFICES ASSUME [Next]_vars PROVE abandoned \subseteq abandoned'
  OBVIOUS
<1>1. ASSUME NEW p \in Procs, ProcessStep(p) PROVE abandoned \subseteq abandoned'
  BY <1>1 DEF ProcessStep, LoseConnection, Disconnect, Exit, Crash, Restart, history
<1>2. ASSUME NEW s \in Slots, SlotStep(s) \/ SlotFault(s) PROVE abandoned' = abandoned
  BY <1>2 DEF SlotStep, SlotFault, Deliver, Start, PushRunning, Execute, SetResult, Succeed, Fail,
              End, Count, Settle, history
<1>3. ASSUME \/ Create \/ Update \/ Delete \/ CallStops \/ ExpireJob \/ UNCHANGED vars
             \/ \E e \in Executions : TriggerStep(e)
             \/ \E r \in Retriers : RetryStep(r) \/ \E e \in Executions : ReadFailed(r, e)
      PROVE  abandoned' = abandoned
  BY <1>3 DEF Create, Update, Delete, CallStops, ExpireJob, vars, TriggerStep, ReadEnabled,
     CreateExecution, PublishExecution, RetryStep, ReadWorkflow, Requeue, PublishRetry, ReadFailed,
     history
<1> QED BY <1>1, <1>2, <1>3 DEF Next

\* A record of a run that is over: what End stores.
LEMMA EndTellsTheRun ==
  ASSUME RunInv, NEW s \in Slots, NEW e, e = job[s].exec, wpc[s] \in {"succeed", "fail"}, spent["fault"] = 0,
         status'[e] = (IF wpc[s] = "succeed" THEN "success" ELSE "failed"),
         results'[e] = ran[s]
  PROVE  TellsTheRun(e)'
<1>1. FollowsGraph(s) /\ WentWell(s) /\ ran[s] \in Seq(NodeResults) /\ job[s].graph \in Graphs
  BY JobOfSlot DEF RunInv
<1>2. CASE ran[s] = <<>>
  BY <1>1, <1>2 DEF WentWell, TellsTheRun
<1>3. CASE ran[s] # <<>>
  <2>1. Len(ran[s]) \in Nat /\ Len(ran[s]) >= 1
    BY <1>1, <1>3
  <2>2. IsPath(ran[s])
    BY <1>1, <1>3 DEF FollowsGraph, IsPath
  <2>3. LastRan(s).status = status'[e]
    BY <1>1, <1>3 DEF WentWell
  <2>4. \A k \in 1..Len(ran[s]) :
            ran[s][k].status = IF k = Len(ran[s]) THEN status'[e] ELSE "success"
    BY <1>1, <2>1, <2>3 DEF WentWell, LastRan
  <2>5. IsPath(results'[e])
    BY <2>2
  <2> QED BY <1>3, <2>4, <2>5 DEF TellsTheRun
<1> QED BY <1>2, <1>3

Pending(e) == Queued(e) # {} \/ \E s \in Slots : Working(s, e)
Told(e) == Undisturbed(e) /\ Ended(e) => Pending(e) \/ TellsTheRun(e)

LEMMA ResultIsTold == ResultInv <=> \A e \in Executions : Told(e)
BY DEF ResultInv, Told, Pending

LEMMA StillTold ==
  ASSUME ResultInv, NEW e \in Executions, Undisturbed(e)' => Undisturbed(e),
         status'[e] = status[e], results'[e] = results[e], Pending(e) => Pending(e)'
  PROVE  Told(e)'
<1>1. Ended(e)' = Ended(e) /\ TellsTheRun(e)' = TellsTheRun(e)
  BY DEF Ended, TellsTheRun
<1> QED BY <1>1, ResultIsTold DEF Told

\* A run that goes on is one whose end is yet to be recorded.
LEMMA RunGoesOn ==
  ASSUME RunInv, ResultInv, NEW s \in Slots, wpc[s] \in BeforeEnd, wpc'[s] \in BeforeEnd,
         UNCHANGED <<job, queue>>,
         \A u \in Slots \ {s} : wpc'[u] = wpc[u],
         \A e \in Executions \ {job[s].exec} : status'[e] = status[e] /\ results'[e] = results[e],
         \A e \in Executions : Undisturbed(e)' => Undisturbed(e)
  PROVE  \A e \in Executions : Told(e)'
<1> SUFFICES ASSUME NEW e \in Executions PROVE Told(e)'
  OBVIOUS
<1>1. CASE e = job[s].exec
  <2>1. Pending(e)'
    BY <1>1 DEF Pending, Working
  <2> QED BY <2>1 DEF Told
<1>2. CASE e # job[s].exec
  <2>1. Pending(e) => Pending(e)'
    BY <1>2 DEF Pending, Working, Queued
  <2> QED BY <1>2, <2>1, StillTold
<1> QED BY <1>1, <1>2

LEMMA SlotKeepsResultInv ==
  ASSUME RunInv, ResultInv, NEW s \in Slots, SlotStep(s) \/ SlotFault(s),
         \A k \in Kinds : spent'[k] >= spent[k], abandoned \subseteq abandoned'
  PROVE  \A e \in Executions : Told(e)'
<1> USE DEF broker, triggers, retrying, procs, history
<1>a. TypeOK /\ HoldsAll /\ spent \in [Kinds -> Nat] /\ wpc \in [Slots -> WorkSteps \cup {"idle"}]
  BY DEF RunInv, TypeOK
<1>b. \A e \in Executions : Undisturbed(e)' => Undisturbed(e)
  BY <1>a DEF Undisturbed, Kinds
<1>c. \A e \in Executions : spent'["fault"] > 0 => ~Undisturbed(e)'
  BY DEF Undisturbed
<1>d. ASSUME \A e \in Executions : ~Undisturbed(e)' PROVE \A e \in Executions : Told(e)'
  BY <1>d DEF Told
<1>1. CASE Deliver(s)
  <2>1. PICK m \in queue :
            /\ wpc[s] = "idle" /\ queue' = queue \ {m}
            /\ wpc' = [wpc EXCEPT ![s] = "start"] /\ job' = [job EXCEPT ![s] = m]
            /\ UNCHANGED records
    BY <1>1 DEF Deliver
  <2>2. ASSUME NEW e \in Executions, Pending(e) PROVE Pending(e)'
    <3>1. CASE e = m.exec
      BY <1>a, <2>1, <3>1 DEF Pending, Working, BeforeEnd, TypeOK
    <3>2. CASE e # m.exec
      <4>1. Queued(e)' = Queued(e)
        BY <2>1, <3>2 DEF Queued
      <4>2. \A u \in Slots : Working(u, e) => Working(u, e)'
        BY <1>a, <2>1 DEF Working, BeforeEnd, TypeOK
      <4> QED BY <2>2, <4>1, <4>2 DEF Pending
    <3> QED BY <3>1, <3>2
  <2> QED BY <1>b, <2>1, <2>2, StillTold DEF records
<1>2. CASE Start(s) \/ PushRunning(s) \/ SetResult(s)
  <2>1. PICK from, to, catch :
            /\ Stored(s, from, to, catch) /\ from \in BeforeEnd /\ to \in BeforeEnd
    BY <1>2 DEF Start, PushRunning, SetResult, Onward, BeforeEnd
  <2>2. CASE wpc' = [wpc EXCEPT ![s] = to]
    <3>1. wpc[s] \in BeforeEnd /\ wpc'[s] \in BeforeEnd /\ \A u \in Slots \ {s} : wpc'[u] = wpc[u]
      BY <1>a, <2>1, <2>2 DEF Stored
    <3>2. UNCHANGED <<job, queue>>
      BY <1>2 DEF Start, PushRunning, SetResult
    <3>3. \A e \in Executions \ {job[s].exec} : status'[e] = status[e] /\ results'[e] = results[e]
      BY <1>a, <1>2 DEF TypeOK, Start, PushRunning, SetResult
    <3> QED BY <1>b, <3>1, <3>2, <3>3, RunGoesOn
  <2> QED BY <1>a, <1>c, <1>d, <2>1, <2>2, StoredGoesOn
<1>3. CASE Execute(s)
  <2>1. wpc[s] \in BeforeEnd /\ wpc'[s] \in BeforeEnd /\ \A u \in Slots \ {s} : wpc'[u] = wpc[u]
    BY <1>a, <1>3 DEF Execute, BeforeEnd
  <2>2. UNCHANGED <<job, queue, status, results>>
    BY <1>3 DEF Execute, records
  <2> QED BY <1>b, <2>1, <2>2, RunGoesOn
<1>4. CASE Succeed(s) \/ Fail(s)
  <2>1. job[s].exec \in Executions
    BY <1>a, <1>4, JobOfSlot DEF Succeed, Fail, End, Stored
  <2>2. /\ wpc[s] \in {"succeed", "fail"}
        /\ status' = [status EXCEPT ![job[s].exec] =
                         IF wpc[s] = "succeed" THEN "success" ELSE "failed"]
        /\ results' = [results EXCEPT ![job[s].exec] = ran[s]]
        /\ UNCHANGED <<queue, job>> /\ \A u \in Slots \ {s} : wpc'[u] = wpc[u]
    BY <1>a, <1>4 DEF Succeed, Fail, End, Stored, FinalResults
  <2>3. ASSUME NEW e \in Executions PROVE Told(e)'
    <3>1. CASE e = job[s].exec
      <4>1. CASE spent["fault"] = 0
        <5>1. TellsTheRun(e)'
          BY <1>a, <2>1, <2>2, <3>1, <4>1, EndTellsTheRun DEF TypeOK
        <5> QED BY <5>1 DEF Told
      <4>2. CASE spent["fault"] # 0
        BY <1>b, <4>2 DEF Told, Undisturbed
      <4> QED BY <4>1, <4>2
    <3>2. CASE e # job[s].exec
      <4>1. Pending(e) => Pending(e)'
        BY <2>2, <3>2 DEF Pending, Working, Queued
      <4> QED BY <1>a, <1>b, <2>1, <2>2, <3>2, <4>1, StillTold DEF TypeOK
    <3> QED BY <3>1, <3>2
  <2> QED BY <2>3
<1>5. CASE Count(s)
  <2>1. /\ wpc[s] \in {"count", "note"} /\ \A u \in Slots \ {s} : wpc'[u] = wpc[u]
        /\ UNCHANGED <<records, broker, job>>
    BY <1>a, <1>5 DEF Count, Stored
  <2>2. \A e \in Executions : Pending(e) => Pending(e)'
    BY <2>1 DEF Pending, Working, Queued, BeforeEnd
  <2> QED BY <1>b, <2>1, <2>2, StillTold DEF records
<1>6. CASE Settle(s)
  <2>1. /\ wpc[s] \in {"ack", "nack"} /\ \A u \in Slots \ {s} : wpc'[u] = wpc[u] /\ job'[u] = job[u]
        /\ UNCHANGED records /\ queue' = queue
    BY <1>a, <1>6 DEF Settle, Vacated, Requeued
  <2>2. \A e \in Executions : Pending(e) => Pending(e)'
    BY <2>1 DEF Pending, Working, Queued, BeforeEnd
  <2> QED BY <1>b, <2>1, <2>2, StillTold DEF records
<1>7. CASE SlotFault(s)
  BY <1>a, <1>7, <1>c, <1>d, SpendOne DEF SlotFault, Kinds
<1> QED BY <1>1, <1>2, <1>3, <1>4, <1>5, <1>6, <1>7 DEF SlotStep

LEMMA ResultInvNext == RunInv /\ ResultInv /\ [Next]_vars => ResultInv'
<1> SUFFICES ASSUME RunInv, ResultInv, [Next]_vars PROVE \A e \in Executions : Told(e)'
  BY DEF ResultInv, Told, Pending
<1> USE DEF broker, triggers, retrying, slots, procs, history
<1>a. TypeOK /\ HoldsAll /\ spent \in [Kinds -> Nat]
  BY DEF RunInv, TypeOK
<1>b. \A k \in Kinds : spent'[k] >= spent[k]
  BY SpentGrows
<1>c. \A e \in Executions : Undisturbed(e)' => Undisturbed(e)
  BY <1>a, <1>b, AbandonedGrows DEF Undisturbed, Kinds
<1>d. ASSUME NEW k \in {"fault", "expire"}, spent'[k] > 0
      PROVE  \A e \in Executions : Told(e)'
  BY <1>d DEF Told, Undisturbed
\* The queue only grows and no slot changes.
<1>e. ASSUME UNCHANGED slots, queue \subseteq queue', NEW e \in Executions,
             status'[e] = status[e], results'[e] = results[e]
      PROVE  Told(e)'
  <2>1. Pending(e) => Pending(e)'
    BY <1>e DEF Pending, Working, Queued
  <2> QED BY <1>c, <1>e, <2>1, StillTold
<1>1. CASE Create \/ Update \/ Delete \/ UNCHANGED vars
  BY <1>1, <1>e DEF Create, Update, Delete, vars, records
<1>2. CASE CallStops
  BY <1>2, <1>a, <1>d, SpendOne DEF CallStops, Kinds
<1>3. ASSUME NEW x \in Executions, TriggerStep(x) PROVE \A e \in Executions : Told(e)'
  <2>1. UNCHANGED slots /\ queue \subseteq queue' /\ UNCHANGED results
    BY <1>3 DEF TriggerStep, ReadEnabled, CreateExecution, PublishExecution, records
  <2>2. ASSUME NEW e \in Executions PROVE status'[e] = status[e] \/ ~Ended(e)'
    BY <1>a, <1>3 DEF TypeOK, TriggerStep, ReadEnabled, CreateExecution, PublishExecution, records,
                      Ended
  <2> QED BY <1>e, <2>1, <2>2 DEF Told
<1>4. ASSUME NEW r \in Retriers, RetryStep(r) \/ \E e \in Executions : ReadFailed(r, e)
      PROVE  \A e \in Executions : Told(e)'
  <2>1. UNCHANGED slots /\ queue \subseteq queue' /\ UNCHANGED results
    BY <1>4 DEF RetryStep, ReadFailed, ReadWorkflow, Requeue, PublishRetry, records
  <2>2. ASSUME NEW e \in Executions PROVE status'[e] = status[e] \/ ~Ended(e)'
    BY <1>a, <1>4 DEF TypeOK, RetryStep, ReadFailed, ReadWorkflow, Requeue, PublishRetry, records,
                      Ended
  <2> QED BY <1>e, <2>1, <2>2 DEF Told
<1>5. ASSUME NEW p \in Procs, ProcessStep(p)
      PROVE  \A e \in Executions : Told(e)'
  <2>1. CASE LoseConnection(p) \/ Disconnect(p)
    BY <2>1, <1>e DEF LoseConnection, Disconnect, PutBack, records
  <2>3. CASE Exit(p) \/ Crash(p)
    <3>1. /\ queue' = queue \cup Unacked(p) /\ Vacated(Busy(p)) /\ UNCHANGED records
          /\ abandoned' = abandoned \cup Disowned(p)
      BY <2>3 DEF Exit, Crash, Restart, PutBack
    <3>2. ASSUME NEW e \in Executions, Undisturbed(e)', Pending(e) PROVE Pending(e)'
      <4>1. CASE Queued(e) # {}
        BY <3>1, <4>1 DEF Pending, Queued
      <4>2. ASSUME NEW s \in Slots, Working(s, e) PROVE Pending(e)'
        <5>1. CASE s \in Busy(p)
          <6>1. Open(p)
            BY <3>1, <3>2, <4>2, <5>1 DEF Undisturbed, Disowned, Working
          <6>2. job[s] \in Unacked(p)
            BY <5>1, <6>1 DEF Unacked
          <6> QED BY <3>1, <4>2, <6>2 DEF Pending, Queued, Working
        <5>2. CASE s \notin Busy(p)
          BY <3>1, <4>2, <5>2 DEF Vacated, Pending, Working
        <5> QED BY <5>1, <5>2
      <4> QED BY <3>2, <4>1, <4>2 DEF Pending
    <3>3. ASSUME NEW e \in Executions PROVE Told(e)'
      <4>1. CASE Undisturbed(e)'
        BY <1>c, <3>1, <3>2, <4>1, StillTold DEF records
      <4>2. CASE ~Undisturbed(e)'
        BY <4>2 DEF Told
      <4> QED BY <4>1, <4>2
    <3> QED BY <3>3
  <2> QED BY <1>5, <2>1, <2>3 DEF ProcessStep
<1>6. CASE ExpireJob
  BY <1>6, <1>a, <1>d, SpendOne DEF ExpireJob, Kinds
<1>7. ASSUME NEW s \in Slots, SlotStep(s) \/ SlotFault(s) PROVE \A e \in Executions : Told(e)'
  BY <1>7, <1>b, AbandonedGrows, SlotKeepsResultInv
<1> QED BY <1>1, <1>2, <1>3, <1>4, <1>5, <1>6, <1>7 DEF Next

(* Once no job of an execution is left, its record is that of one run from *)
(* the first node on, although retries append to what earlier runs left:   *)
(* the end of each run replaces the list (workflow.worker.js,              *)
(* executeWorkflow).                                                       *)
THEOREM ResultsAreOneRun == Spec => []ResultsTellTheRun
<1>1. Init => ResultInv
  BY DEF Init, ResultInv, Ended
<1>2. RunInv /\ ResultInv => ResultsTellTheRun
  <2> SUFFICES ASSUME RunInv, ResultInv, NEW e \in Executions, NoJob(e), Undisturbed(e), Ended(e)
               PROVE  TellsTheRun(e)
    BY DEF ResultsTellTheRun
  <2>1. Queued(e) = {}
    BY DEF NoJob, Queued
  <2>2. \A s \in Slots : ~Working(s, e)
    BY DEF NoJob, Working, BeforeEnd, RunInv, HoldsAll
  <2> QED BY <2>1, <2>2 DEF ResultInv
<1> QED BY <1>1, <1>2, RunInvariant, ResultInvNext, PTL DEF Spec

-----------------------------------------------------------------------------
(* SoleRun *)

Calm(e) == spent["fault"] = 0 /\ e \notin raced /\ redelivered[e] = 0
Untried(e) == retries[e] = 0

\* Slots that do not turn to another execution, a queue and calls that bring
\* nothing new.
LEMMA LoneClaimKept ==
  ASSUME NEW e \in Executions, LoneClaim(e), Queued(e)' \subseteq Queued(e),
         \A s \in Slots : Working(s, e)' => Working(s, e),
         \A r \in Retriers : Retrying(r, e)' => Retrying(r, e) /\ (Between(r, e) => Between(r, e)'),
         Triggering(e)' => Triggering(e), status'[e] = "failed" => status[e] = "failed"
  PROVE  LoneClaim(e)'
BY DEF LoneClaim, Quiet

LEMMA LoneJobKept ==
  ASSUME NEW e \in Executions, LoneJob(e), Queued(e)' \subseteq Queued(e),
         \A s \in Slots : Handles(s, e)' => Handles(s, e), Triggering(e)' => Triggering(e)
  PROVE  LoneJob(e)'
BY DEF LoneJob

\* Once a job is all that an execution has left, it is alone.
LEMMA JobAlone ==
  ASSUME NEW e \in Executions, NEW m, Queued(e)' \subseteq {m},
         \A s \in Slots : ~Working(s, e)', ~Triggering(e)',
         \A r \in Retriers : ~Retrying(r, e)', status'[e] # "failed"
  PROVE  LoneClaim(e)'
BY DEF LoneClaim, Quiet

LEMMA ServiceKeepsClaims ==
  ASSUME RunInv, LoneInv, NEW e \in Executions, Calm(e)', Calm(e),
         \/ Create \/ Update \/ Delete
         \/ \E x \in Executions : TriggerStep(x)
         \/ \E r \in Retriers : RetryStep(r) \/ \E x \in Executions : ReadFailed(r, x)
  PROVE  LoneClaim(e)'
<1> USE DEF broker, slots
<1>a. TypeOK /\ HoldsAll /\ LoneClaim(e)
  BY DEF RunInv, LoneInv, Calm
<1>b. ASSUME UNCHANGED slots
      PROVE  \A s \in Slots : (Working(s, e)' <=> Working(s, e))
  BY <1>b DEF Working
<1>c. ASSUME UNCHANGED slots, UNCHANGED broker, UNCHANGED rpc, UNCHANGED rexec
      PROVE  /\ Queued(e)' = Queued(e)
             /\ \A s \in Slots : (Working(s, e)' <=> Working(s, e))
             /\ \A r \in Retriers : /\ Retrying(r, e)' <=> Retrying(r, e)
                                    /\ Between(r, e)' <=> Between(r, e)
  BY <1>c DEF Working, Queued, Retrying, Between
<1>1. CASE Create \/ Update \/ Delete
  BY <1>1, <1>a, <1>c, LoneClaimKept DEF Create, Update, Delete, records, triggers, retrying,
                                         Triggering
<1>2. ASSUME NEW x \in Executions, ReadEnabled(x) \/ CreateExecution(x) PROVE LoneClaim(e)'
  <2>1. /\ UNCHANGED <<slots, broker, retrying>>
        /\ epc[x] # "done" /\ epc' = [epc EXCEPT ![x] = epc'[x]]
        /\ status' = status \/ status' = [status EXCEPT ![x] = "queued"]
    BY <1>a, <1>2 DEF ReadEnabled, CreateExecution, records, TypeOK
  <2>2. Triggering(e)' => Triggering(e)
    BY <1>a, <2>1 DEF Triggering, TypeOK
  <2>3. status'[e] = "failed" => status[e] = "failed"
    BY <1>a, <2>1 DEF TypeOK
  <2> QED BY <1>a, <1>c, <2>1, <2>2, <2>3, LoneClaimKept DEF retrying
<1>3. ASSUME NEW x \in Executions, PublishExecution(x) PROVE LoneClaim(e)'
  <2> DEFINE m == [exec |-> x, graph |-> egraph[x], by |-> Nil, attempt |-> 0]
  <2>1. /\ epc[x] = "publish" /\ epc' = [epc EXCEPT ![x] = "done"]
        /\ queue' = queue \cup {m} /\ UNCHANGED <<records, retrying, slots>>
    BY <1>3 DEF PublishExecution
  <2>2. m.exec = x /\ \A r \in Retriers : Retrying(r, e)' = Retrying(r, e)
    BY <2>1 DEF Retrying, retrying
  <2>3. CASE e = x
    <3>1. Triggering(e) /\ ~Triggering(e)'
      BY <1>a, <2>1, <2>3 DEF Triggering, TypeOK
    <3>2. Queued(e) = {} /\ Quiet(e) /\ status[e] # "failed" /\ \A r \in Retriers : ~Retrying(r, e)
      BY <1>a, <3>1 DEF LoneClaim
    <3>3. Queued(e)' \subseteq {m}
      BY <2>1, <3>2 DEF Queued
    <3> QED BY <1>b, <2>1, <2>2, <3>1, <3>2, <3>3, JobAlone DEF Quiet, records
  <2>4. CASE e # x
    <3>1. Queued(e)' = Queued(e)
      BY <2>1, <2>2, <2>4 DEF Queued
    <3>2. Triggering(e)' = Triggering(e)
      BY <1>a, <2>1, <2>4 DEF Triggering, TypeOK
    <3>3. \A r \in Retriers : Between(r, e)' = Between(r, e)
      BY <2>1 DEF Between, retrying
    <3> QED BY <1>a, <1>b, <2>1, <2>2, <3>1, <3>2, <3>3, LoneClaimKept DEF records
  <2> QED BY <2>3, <2>4
<1>4. ASSUME NEW r \in Retriers, NEW x \in Executions, ReadFailed(r, x) PROVE LoneClaim(e)'
  <2>1. /\ rpc[r] = "idle" /\ status[x] = "failed" /\ UNCHANGED <<records, broker, triggers, slots>>
        /\ rpc' = [rpc EXCEPT ![r] = "workflow"] /\ rexec' = [rexec EXCEPT ![r] = x]
        /\ (\E q \in Retriers : Between(q, x)) => x \in raced'
    BY <1>4 DEF ReadFailed, CanBeRetried
  <2>2. Queued(e)' = Queued(e) /\ Triggering(e)' = Triggering(e) /\ status' = status
    BY <2>1 DEF Queued, Triggering, records, triggers
  <2>3. \A q \in Retriers \ {r} : /\ Retrying(q, e)' = Retrying(q, e)
                                  /\ Between(q, e)' = Between(q, e)
    BY <1>a, <2>1 DEF Retrying, Between, TypeOK
  <2>4. CASE e = x
    <3>1. \A q \in Retriers : ~Retrying(q, e)
      BY <1>a, <2>1, <2>4 DEF LoneClaim, Calm
    <3>2. \A q \in Retriers \ {r} : ~Retrying(q, e)'
      BY <2>3, <3>1
    <3>3. Retrying(r, e)' => Between(r, e)'
      BY <1>a, <2>1 DEF Retrying, Between, TypeOK
    <3>4. Queued(e) = {} /\ Quiet(e) /\ ~Triggering(e)
      BY <1>a, <2>1, <2>4 DEF LoneClaim
    <3>5. Quiet(e)'
      BY <1>b, <2>1, <3>4 DEF Quiet
    <3> QED BY <2>2, <3>2, <3>3, <3>4, <3>5 DEF LoneClaim, Quiet
  <2>5. CASE e # x
    <3>1. ~Retrying(r, e)'
      BY <1>a, <2>1, <2>5 DEF Retrying, TypeOK
    <3> QED BY <1>a, <1>b, <2>1, <2>2, <2>3, <3>1, LoneClaimKept
  <2> QED BY <2>4, <2>5
<1>5. ASSUME NEW r \in Retriers, ReadWorkflow(r) \/ Requeue(r) PROVE LoneClaim(e)'
  <2>1. /\ UNCHANGED <<broker, triggers, slots>>
        /\ status' = status \/ status' = [status EXCEPT ![rexec[r]] = "queued"]
    BY <1>5 DEF ReadWorkflow, Requeue, records
  <2>2. \A q \in Retriers : Retrying(q, e)' => Retrying(q, e)
    BY <1>a, <1>5 DEF Retrying, ReadWorkflow, Requeue, LeaveRetry, TypeOK
  <2>3. CASE ReadWorkflow(r)
    <3>1. \A q \in Retriers : Retrying(q, e)' => (Between(q, e) => Between(q, e)')
      BY <1>a, <2>3 DEF Retrying, Between, ReadWorkflow, LeaveRetry, TypeOK
    <3>2. status' = status
      BY <2>3 DEF ReadWorkflow, records
    <3> QED BY <1>a, <1>b, <2>1, <2>2, <3>1, <3>2, LoneClaimKept DEF Queued, Triggering, triggers
  <2>4. CASE Requeue(r)
    <3>1. /\ rpc[r] = "update" /\ rpc' = [rpc EXCEPT ![r] = "publish"] /\ UNCHANGED rexec
          /\ rexec[r] \in Executions
          /\ status' = [status EXCEPT ![rexec[r]] = "queued"]
      BY <1>a, <2>4 DEF Requeue, TypeOK, HoldsAll
    <3>2. CASE e = rexec[r]
      <4>1. Retrying(r, e) /\ status'[e] = "queued"
        BY <1>a, <3>1, <3>2 DEF Retrying, TypeOK
      <4>2. Queued(e)' = Queued(e) /\ Triggering(e)' = Triggering(e)
        BY <2>1 DEF Queued, Triggering, triggers
      <4>3. Quiet(e)' = Quiet(e)
        BY <1>b, <2>1 DEF Quiet
      <4>4. \A s \in Slots : (Working(s, e)' <=> Working(s, e))
        BY <1>b, <2>1
      <4> QED BY <1>a, <2>2, <4>1, <4>2, <4>3, <4>4 DEF LoneClaim
    <3>3. CASE e # rexec[r]
      <4>1. \A q \in Retriers : Retrying(q, e)' => (Between(q, e) => Between(q, e)')
        BY <1>a, <3>1, <3>3 DEF Retrying, Between, TypeOK
      <4>2. status'[e] = status[e]
        BY <1>a, <3>1, <3>3 DEF TypeOK
      <4> QED BY <1>a, <1>b, <2>1, <2>2, <4>1, <4>2, LoneClaimKept DEF Queued, Triggering, triggers
    <3> QED BY <3>2, <3>3
  <2> QED BY <1>5, <2>3, <2>4
<1>6. ASSUME NEW r \in Retriers, PublishRetry(r) PROVE LoneClaim(e)'
  <2> DEFINE m == [exec |-> rexec[r], graph |-> rgraph[r], by |-> r,
                   attempt |-> retries[rexec[r]]]
  <2>1. /\ rpc[r] = "publish" /\ LeaveRetry(r) /\ queue' = queue \cup {m}
        /\ UNCHANGED <<records, triggers, slots>>
    BY <1>6 DEF PublishRetry
  <2>2. m.exec = rexec[r] /\ Triggering(e)' = Triggering(e) /\ status' = status
    BY <2>1 DEF Triggering, triggers, records
  <2>3. \A q \in Retriers : Retrying(q, e)' => /\ q # r /\ Retrying(q, e)
                                              /\ (Between(q, e) => Between(q, e)')
    BY <1>a, <2>1 DEF Retrying, Between, LeaveRetry, TypeOK
  <2>4. CASE e = rexec[r]
    <3>1. Retrying(r, e) /\ ~Between(r, e)
      BY <2>1, <2>4 DEF Retrying, Between
    <3>2. /\ Queued(e) = {} /\ Quiet(e) /\ ~Triggering(e) /\ status[e] # "failed"
          /\ \A q \in Retriers : Retrying(q, e) => q = r
      BY <1>a, <3>1 DEF LoneClaim
    <3>3. Queued(e)' \subseteq {m}
      BY <2>1, <3>2 DEF Queued
    <3> QED BY <1>b, <2>1, <2>2, <2>3, <3>2, <3>3, JobAlone DEF Quiet
  <2>5. CASE e # rexec[r]
    <3>1. Queued(e)' = Queued(e)
      BY <2>1, <2>2, <2>5 DEF Queued
    <3> QED BY <1>a, <1>b, <2>1, <2>2, <2>3, <3>1, LoneClaimKept
  <2> QED BY <2>4, <2>5
<1> QED BY <1>1, <1>2, <1>3, <1>4, <1>5, <1>6 DEF TriggerStep, RetryStep

LEMMA SlotKeepsClaims ==
  ASSUME RunInv, LoneInv, NEW e \in Executions, Calm(e)', Calm(e),
         NEW s \in Slots, SlotStep(s) \/ SlotFault(s)
  PROVE  LoneClaim(e)'
<1> USE DEF broker, triggers, retrying
<1>a. TypeOK /\ HoldsAll /\ LoneClaim(e) /\ spent \in [Kinds -> Nat]
      /\ wpc \in [Slots -> WorkSteps \cup {"idle"}]
  BY DEF RunInv, LoneInv, Calm, TypeOK
<1>b. ~(spent'["fault"] > 0)
  BY DEF Calm
\* No slot step is one of the service.
<1>c. UNCHANGED <<triggers, retrying>>
  BY DEF SlotStep, SlotFault, Deliver, Start, PushRunning, Execute, SetResult, Succeed, Fail,
         End, Count, Settle
<1>d. /\ Triggering(e)' = Triggering(e)
      /\ \A r \in Retriers : /\ Retrying(r, e)' <=> Retrying(r, e)
                             /\ Between(r, e)' <=> Between(r, e)
  BY <1>c DEF Triggering, Retrying, Between
<1>1. CASE Deliver(s)
  <2>1. PICK m \in queue :
            /\ wpc[s] = "idle" /\ queue' = queue \ {m} /\ UNCHANGED records
            /\ wpc' = [wpc EXCEPT ![s] = "start"] /\ job' = [job EXCEPT ![s] = m]
    BY <1>1 DEF Deliver
  <2>2. Queued(e)' = Queued(e) \ {m} /\ status' = status
    BY <2>1 DEF Queued, records
  <2>3. \A u \in Slots \ {s} : Working(u, e)' <=> Working(u, e)
    BY <1>a, <2>1 DEF Working, TypeOK
  <2>4. CASE m.exec = e
    <3>1. m \in Queued(e)
      BY <2>1, <2>4 DEF Queued
    <3>2. Queued(e)' = {}
      BY <1>a, <2>2, <3>1 DEF LoneClaim
    <3>3. \A u, v \in Slots : Working(u, e)' /\ Working(v, e)' => u = v
      BY <1>a, <2>3, <3>1 DEF LoneClaim, Quiet
    <3> QED BY <1>a, <1>d, <2>2, <3>1, <3>2, <3>3 DEF LoneClaim
  <2>5. CASE m.exec # e
    <3>1. ~Working(s, e)'
      BY <1>a, <2>1, <2>5 DEF Working, TypeOK
    <3> QED BY <1>a, <1>d, <2>2, <2>3, <3>1, LoneClaimKept
  <2> QED BY <2>4, <2>5
<1>2. ASSUME UNCHANGED job, queue' = queue, \A u \in Slots \ {s} : wpc'[u] = wpc[u],
             wpc'[s] \in BeforeEnd => wpc[s] \in BeforeEnd,
             status'[e] = "failed" => status[e] = "failed"
      PROVE  LoneClaim(e)'
  <2>1. \A u \in Slots : Working(u, e)' => Working(u, e)
    BY <1>2 DEF Working
  <2>2. Queued(e)' = Queued(e)
    BY <1>2 DEF Queued
  <2> QED BY <1>a, <1>d, <1>2, <2>1, <2>2, LoneClaimKept
<1>3. CASE Start(s) \/ PushRunning(s) \/ Execute(s) \/ SetResult(s) \/ Count(s)
  <2>1. UNCHANGED <<job, queue>> /\ \A u \in Slots \ {s} : wpc'[u] = wpc[u]
    BY <1>a, <1>3 DEF Start, PushRunning, Execute, SetResult, Count, Stored
  <2>2. wpc'[s] \in BeforeEnd => wpc[s] \in BeforeEnd
    BY <1>a, <1>b, <1>3, SpendOne DEF Start, PushRunning, Execute, SetResult, Count, Stored,
       BeforeEnd, Kinds
  <2>3. status'[e] = "failed" => status[e] = "failed"
    BY <1>a, <1>3, JobOfSlot DEF Start, PushRunning, Execute, SetResult, Count, records, TypeOK
  <2> QED BY <1>2, <2>1, <2>2, <2>3
<1>4. CASE Succeed(s) \/ Fail(s)
  <2>1. job[s].exec \in Executions /\ wpc[s] \in BeforeEnd /\ wpc[s] # "idle"
    BY <1>a, <1>4, JobOfSlot DEF Succeed, Fail, End, Stored, BeforeEnd
  <2>2. /\ UNCHANGED <<job, queue>> /\ \A u \in Slots \ {s} : wpc'[u] = wpc[u]
        /\ \A x \in Executions \ {job[s].exec} : status'[x] = status[x]
    BY <1>a, <1>4, <2>1 DEF Succeed, Fail, End, Stored, TypeOK
  <2>3. wpc'[s] \notin BeforeEnd
    BY <1>a, <1>b, <1>4, SpendOne DEF Succeed, Fail, End, Stored, BeforeEnd, Kinds
  <2>4. CASE e = job[s].exec
    <3>1. Working(s, e)
      BY <2>1, <2>4 DEF Working
    <3>2. /\ Queued(e) = {} /\ ~Triggering(e) /\ \A r \in Retriers : ~Retrying(r, e)
          /\ \A u \in Slots : Working(u, e) => u = s
      BY <1>a, <3>1 DEF LoneClaim, Quiet
    <3>3. Queued(e)' = {}
      BY <2>2, <3>2 DEF Queued
    <3>4. \A u \in Slots : ~Working(u, e)'
      BY <2>2, <2>3, <3>2 DEF Working
    <3> QED BY <1>d, <3>2, <3>3, <3>4 DEF LoneClaim, Quiet
  <2>5. CASE e # job[s].exec
    BY <1>2, <2>2, <2>3, <2>5
  <2> QED BY <2>4, <2>5
<1>5. CASE Settle(s)
  <2>1. /\ \A u \in Slots \ {s} : wpc'[u] = wpc[u] /\ job'[u] = job[u]
        /\ wpc'[s] = "idle" /\ UNCHANGED records /\ queue' = queue
    BY <1>5 DEF Settle, Vacated, Requeued
  <2>2. \A u \in Slots : Working(u, e)' => Working(u, e)
    BY <2>1 DEF Working, BeforeEnd
  <2>3. Queued(e)' = Queued(e) /\ status' = status
    BY <2>1 DEF Queued, records
  <2> QED BY <1>a, <1>d, <2>2, <2>3, LoneClaimKept
<1>6. CASE SlotFault(s)
  BY <1>a, <1>b, <1>6, SpendOne DEF SlotFault, Kinds
<1> QED BY <1>1, <1>3, <1>4, <1>5, <1>6 DEF SlotStep

\* What a process leaves behind, told by the executions its jobs belong to.
LEMMA BrokerKeepsClaims ==
  ASSUME RunInv, LoneInv, NEW e \in Executions, Calm(e)', Calm(e),
         \/ \E p \in Procs : ProcessStep(p)
         \/ ExpireJob
  PROVE  LoneClaim(e)'
<1> USE DEF triggers, retrying, slots, broker
<1>a. TypeOK /\ HoldsAll /\ LoneClaim(e) /\ spent \in [Kinds -> Nat]
  BY DEF RunInv, LoneInv, Calm, TypeOK
<1>c. UNCHANGED <<triggers, retrying, records>>
  BY DEF ProcessStep, LoseConnection, Disconnect, Exit, Crash, Restart, ExpireJob
<1>d. /\ Triggering(e)' = Triggering(e) /\ status' = status
      /\ \A r \in Retriers : /\ Retrying(r, e)' <=> Retrying(r, e)
                             /\ Between(r, e)' <=> Between(r, e)
  BY <1>c DEF Triggering, Retrying, Between, records
<1>1. CASE ExpireJob
  BY <1>1, <1>a, <1>d, LoneClaimKept DEF ExpireJob, Queued, Working
<1>4. ASSUME NEW p \in Procs, LoseConnection(p) \/ Disconnect(p) \/ Exit(p) \/ Crash(p)
      PROVE  LoneClaim(e)'
  <2>1. /\ queue' = queue \cup Unacked(p) /\ (Vacated(Busy(p)) \/ UNCHANGED slots)
        /\ redelivered'[e] = redelivered[e] + Cardinality({m \in Unacked(p) : m.exec = e})
    BY <1>4 DEF LoseConnection, Disconnect, Exit, Crash, Restart, PutBack
  <2>2. {m \in Unacked(p) : m.exec = e} = {}
    <3>1. /\ IsFiniteSet({m \in Unacked(p) : m.exec = e})
          /\ Cardinality({m \in Unacked(p) : m.exec = e}) = 0
      <4>1. /\ IsFiniteSet({m \in Unacked(p) : m.exec = e})
            /\ Cardinality({m \in Unacked(p) : m.exec = e}) \in Nat
        BY <1>a, UnackedAreJobs
      <4>2. redelivered[e] = 0 /\ redelivered'[e] = 0
        BY DEF Calm
      <4> QED BY <2>1, <4>1, <4>2
    <3> QED BY <3>1, FS_EmptySet
  <2>3. Queued(e)' = Queued(e)
    BY <2>1, <2>2 DEF Queued
  <2>4. \A u \in Slots : Working(u, e)' => Working(u, e)
    BY <2>1 DEF Vacated, Working, BeforeEnd
  <2> QED BY <1>a, <1>d, <2>3, <2>4, LoneClaimKept
<1> QED BY <1>1, <1>4 DEF ProcessStep

LEMMA StepKeepsLoneJob ==
  ASSUME RunInv, LoneInv, [Next]_vars, NEW e \in Executions, Untried(e)', Untried(e)
  PROVE  LoneJob(e)'
<1> USE DEF broker, retrying, history, procs
<1>a. TypeOK /\ HoldsAll /\ LoneJob(e) /\ wpc \in [Slots -> WorkSteps \cup {"idle"}]
  BY DEF RunInv, LoneInv, Untried, TypeOK
\* Nothing is added to the queue, and no slot turns to this execution.
<1>b. ASSUME Queued(e)' \subseteq Queued(e), epc' = epc, channel' = channel,
             \A s \in Slots : wpc'[s] # "idle" => wpc[s] # "idle" /\ job'[s] = job[s]
      PROVE  LoneJob(e)'
  <2>1. \A s \in Slots : Handles(s, e)' => Handles(s, e)
    BY <1>b DEF Handles, Open
  <2>2. Triggering(e)' = Triggering(e)
    BY <1>b DEF Triggering
  <2> QED BY <1>a, <1>b, <2>1, <2>2, LoneJobKept
<1>c. ASSUME UNCHANGED <<slots, triggers, channel>>, queue' \subseteq queue PROVE LoneJob(e)'
  BY <1>b, <1>c DEF slots, triggers, Queued
<1>1. CASE Create \/ Update \/ Delete \/ UNCHANGED vars
  BY <1>1, <1>c DEF Create, Update, Delete, vars
<1>2. ASSUME NEW r \in Retriers, \/ ReadWorkflow(r) \/ Requeue(r)
                                 \/ \E x \in Executions : ReadFailed(r, x)
      PROVE  LoneJob(e)'
  BY <1>2, <1>c DEF ReadWorkflow, Requeue, ReadFailed
<1>3. ASSUME NEW r \in Retriers, PublishRetry(r) PROVE LoneJob(e)'
  <2> DEFINE m == [exec |-> rexec[r], graph |-> rgraph[r], by |-> r,
                   attempt |-> retries[rexec[r]]]
  <2>1. /\ rpc[r] = "publish" /\ queue' = queue \cup {m} /\ UNCHANGED <<triggers, slots, channel>>
    BY <1>3 DEF PublishRetry
  <2>2. m.exec # e
    BY <2>1 DEF LoneInv, Untried
  <2>3. Queued(e)' = Queued(e)
    BY <2>1, <2>2 DEF Queued
  <2> QED BY <1>b, <2>1, <2>3 DEF slots, triggers
<1>4. ASSUME NEW x \in Executions, UNCHANGED <<slots, channel>>, queue' = queue,
             \/ epc' = [epc EXCEPT ![x] = "done"]
             \/ epc[x] # "done" /\ epc' = [epc EXCEPT ![x] = epc'[x]]
      PROVE  LoneJob(e)'
  <2>1. Triggering(e)' => Triggering(e)
    BY <1>a, <1>4 DEF Triggering, TypeOK
  <2>2. Queued(e)' = Queued(e) /\ \A s \in Slots : Handles(s, e)' <=> Handles(s, e)
    BY <1>4 DEF Queued, Handles, Open, slots
  <2> QED BY <1>a, <2>1, <2>2, LoneJobKept
<1>5. CASE CallStops
  <2>1. CASE UNCHANGED triggers
    BY <1>5, <2>1, <1>c DEF CallStops
  <2>2. CASE \E x \in Executions : epc' = [epc EXCEPT ![x] = "done"]
    BY <1>5, <2>2, <1>4 DEF CallStops
  <2> QED BY <1>5, <2>1, <2>2 DEF CallStops
<1>6. ASSUME NEW x \in Executions, ReadEnabled(x) \/ CreateExecution(x) PROVE LoneJob(e)'
  <2>1. /\ epc[x] # "done" /\ epc' = [epc EXCEPT ![x] = epc'[x]] /\ queue' = queue
        /\ UNCHANGED <<slots, channel>>
    BY <1>a, <1>6 DEF ReadEnabled, CreateExecution, TypeOK
  <2> QED BY <1>4, <2>1
<1>7. ASSUME NEW x \in Executions, PublishExecution(x) PROVE LoneJob(e)'
  <2> DEFINE m == [exec |-> x, graph |-> egraph[x], by |-> Nil, attempt |-> 0]
  <2>1. /\ epc[x] = "publish" /\ epc' = [epc EXCEPT ![x] = "done"]
        /\ queue' = queue \cup {m} /\ UNCHANGED <<slots, channel>> /\ m.exec = x
    BY <1>7 DEF PublishExecution
  <2>2. \A s \in Slots : Handles(s, e)' <=> Handles(s, e)
    BY <2>1 DEF Handles, Open, slots
  <2>3. CASE e = x
    <3>1. Triggering(e) /\ ~Triggering(e)'
      BY <1>a, <2>1, <2>3 DEF Triggering, TypeOK
    <3>2. Queued(e) = {} /\ \A s \in Slots : ~Handles(s, e)
      BY <1>a, <3>1 DEF LoneJob
    <3>3. Queued(e)' \subseteq {m}
      BY <2>1, <3>2 DEF Queued
    <3> QED BY <2>2, <3>1, <3>2, <3>3 DEF LoneJob
  <2>4. CASE e # x
    <3>1. Queued(e)' = Queued(e)
      BY <2>1, <2>4 DEF Queued
    <3>2. Triggering(e)' = Triggering(e)
      BY <1>a, <2>1, <2>4 DEF Triggering, TypeOK
    <3> QED BY <1>a, <2>2, <3>1, <3>2, LoneJobKept
  <2> QED BY <2>3, <2>4
<1>8. ASSUME NEW s \in Slots, Deliver(s) PROVE LoneJob(e)'
  <2>1. PICK m \in queue :
            /\ wpc[s] = "idle" /\ queue' = queue \ {m} /\ UNCHANGED <<triggers, channel>>
            /\ wpc' = [wpc EXCEPT ![s] = "start"] /\ job' = [job EXCEPT ![s] = m]
    BY <1>8 DEF Deliver
  <2>2. Queued(e)' = Queued(e) \ {m} /\ Triggering(e)' = Triggering(e)
    BY <2>1 DEF Queued, Triggering, triggers
  <2>3. \A u \in Slots \ {s} : Handles(u, e)' <=> Handles(u, e)
    BY <1>a, <2>1 DEF Handles, Open, TypeOK
  <2>4. CASE m.exec = e
    <3>1. m \in Queued(e)
      BY <2>1, <2>4 DEF Queued
    <3>2. Queued(e)' = {} /\ ~Triggering(e) /\ \A u \in Slots : ~Handles(u, e)
      BY <1>a, <2>2, <3>1 DEF LoneJob
    <3> QED BY <2>2, <2>3, <3>2 DEF LoneJob
  <2>5. CASE m.exec # e
    <3>1. ~Handles(s, e)'
      BY <1>a, <2>1, <2>5 DEF Handles, TypeOK
    <3> QED BY <1>a, <2>2, <2>3, <3>1, LoneJobKept
  <2> QED BY <2>4, <2>5
<1>9. ASSUME NEW s \in Slots,
             \/ Start(s) \/ PushRunning(s) \/ Execute(s) \/ SetResult(s) \/ Succeed(s) \/ Fail(s)
             \/ Count(s) \/ SlotFault(s)
      PROVE  LoneJob(e)'
  <2>1. UNCHANGED <<job, queue, triggers, channel>> /\ \A u \in Slots \ {s} : wpc'[u] = wpc[u]
    BY <1>a, <1>9 DEF Start, PushRunning, Execute, SetResult, Succeed, Fail, End, Count, Stored,
       SlotFault
  <2>2. wpc[s] # "idle"
    BY <1>9 DEF Start, PushRunning, Execute, SetResult, Succeed, Fail, End, Count, Stored,
       SlotFault, WorkSteps, InTry
  <2> QED BY <1>b, <2>1, <2>2 DEF Queued, triggers
<1>10. ASSUME NEW s \in Slots, Settle(s) PROVE LoneJob(e)'
  <2>1. UNCHANGED <<triggers, channel>> /\ queue' = queue /\ Vacated({s})
    BY <1>10 DEF Settle, Requeued
  <2> QED BY <1>b, <2>1 DEF Queued, triggers, Vacated
\* A process is cut off from its jobs, or starts anew.
<1>11. ASSUME NEW p \in Procs, queue' = queue \cup Unacked(p), UNCHANGED triggers,
              \A u \in Slots : Handles(u, e)' => Handles(u, e) /\ ProcOf[u] # p
       PROVE  LoneJob(e)'
  <2>1. Triggering(e)' = Triggering(e)
    BY <1>11 DEF Triggering, triggers
  <2>2. CASE Open(p) /\ \E s \in Busy(p) : job[s].exec = e
    <3>1. PICK s \in Busy(p) : job[s].exec = e
      BY <2>2
    <3>2. s \in Slots /\ Handles(s, e) /\ ProcOf[s] = p
      BY <2>2, <3>1 DEF Busy, Handles
    <3>3. Queued(e) = {} /\ ~Triggering(e) /\ \A u \in Slots : Handles(u, e) => u = s
      BY <1>a, <3>2 DEF LoneJob
    <3>4. Queued(e)' \subseteq {job[s]}
      <4> SUFFICES ASSUME NEW m \in Queued(e)' PROVE m = job[s]
        OBVIOUS
      <4>1. m \in queue' /\ m.exec = e /\ m \notin queue
        BY <3>3 DEF Queued
      <4>2. PICK u \in Busy(p) : m = job[u]
        BY <1>11, <4>1 DEF Unacked
      <4> QED BY <2>2, <3>3, <4>1, <4>2 DEF Busy, Handles
    <3>5. \A u \in Slots : ~Handles(u, e)'
      BY <1>11, <3>2, <3>3
    <3> QED BY <2>1, <3>3, <3>4, <3>5 DEF LoneJob
  <2>3. CASE ~(Open(p) /\ \E s \in Busy(p) : job[s].exec = e)
    <3>1. Queued(e)' = Queued(e)
      BY <1>11, <2>3 DEF Queued, Unacked
    <3> QED BY <1>11, <1>a, <2>1, <3>1, LoneJobKept
  <2> QED BY <2>2, <2>3
<1>12. ASSUME NEW p \in Procs, ProcessStep(p) PROVE LoneJob(e)'
  <2>2. CASE LoseConnection(p) \/ Disconnect(p)
    <3>1. /\ queue' = queue \cup Unacked(p) /\ UNCHANGED <<triggers, slots>>
          /\ channel' = [channel EXCEPT ![p] = FALSE]
      BY <2>2 DEF LoseConnection, Disconnect, PutBack
    <3>2. \A u \in Slots : Handles(u, e)' => Handles(u, e) /\ ProcOf[u] # p
      BY <1>a, <3>1 DEF Handles, Open, slots, TypeOK
    <3> QED BY <1>11, <3>1, <3>2
  <2>3. CASE Exit(p) \/ Crash(p)
    <3>1. /\ queue' = queue \cup Unacked(p) /\ UNCHANGED triggers /\ Vacated(Busy(p))
          /\ channel' = [channel EXCEPT ![p] = TRUE]
      BY <2>3 DEF Exit, Crash, Restart, PutBack
    <3>2. \A u \in Slots : Handles(u, e)' => Handles(u, e) /\ ProcOf[u] # p
      <4> SUFFICES ASSUME NEW u \in Slots, Handles(u, e)' PROVE Handles(u, e) /\ ProcOf[u] # p
        OBVIOUS
      <4>1. u \notin Busy(p) /\ wpc'[u] = wpc[u] /\ job'[u] = job[u] /\ wpc[u] # "idle"
        BY <3>1 DEF Handles, Vacated
      <4>2. ProcOf[u] # p
        BY <4>1 DEF Busy
      <4>3. channel'[ProcOf[u]] = channel[ProcOf[u]]
        BY <1>a, <3>1, <4>2, WorkflowAssumption DEF TypeOK
      <4> QED BY <4>1, <4>2, <4>3 DEF Handles, Open
    <3> QED BY <1>11, <3>1, <3>2
  <2> QED BY <1>12, <2>2, <2>3 DEF ProcessStep
<1>13. CASE ExpireJob
  BY <1>13, <1>c DEF ExpireJob
<1> QED BY <1>1, <1>2, <1>3, <1>5, <1>6, <1>7, <1>8, <1>9, <1>10, <1>12, <1>13
        DEF Next, TriggerStep, RetryStep, SlotStep

\* Neither the retries of an execution nor what is held against it goes back.
LEMMA HistoryGrows ==
  ASSUME RunInv, [Next]_vars, NEW e \in Executions
  PROVE  /\ raced \subseteq raced' /\ redelivered'[e] >= redelivered[e]
         /\ retries'[e] >= retries[e]
<1>a. TypeOK /\ HoldsAll /\ redelivered[e] \in Nat /\ retries[e] \in Nat
  BY DEF RunInv, TypeOK
<1>1. ASSUME NEW p \in Procs, PutBack(p) PROVE redelivered'[e] >= redelivered[e]
  <2>1. Cardinality({m \in Unacked(p) : m.exec = e}) \in Nat
    BY <1>a, UnackedAreJobs
  <2> QED BY <1>1, <1>a, <2>1 DEF PutBack
<1>2. ASSUME NEW p \in Procs, ProcessStep(p)
      PROVE  raced' = raced /\ redelivered'[e] >= redelivered[e] /\ retries' = retries
  BY <1>1, <1>2, <1>a DEF ProcessStep, LoseConnection, Disconnect, Exit, Crash, Restart,
     records, history
<1>3. ASSUME NEW r \in Retriers, Requeue(r)
      PROVE  raced' = raced /\ redelivered' = redelivered /\ retries'[e] >= retries[e]
  <2>1. rexec[r] \in Executions /\ retries \in [Executions -> Nat]
    BY <1>3, <1>a DEF Requeue, TypeOK, HoldsAll
  <2> QED BY <1>3, <2>1 DEF Requeue, history
<1>4. ASSUME NEW r \in Retriers, \/ ReadWorkflow(r) \/ PublishRetry(r)
                                 \/ \E x \in Executions : ReadFailed(r, x)
      PROVE  raced \subseteq raced' /\ redelivered' = redelivered /\ retries' = retries
  BY <1>4 DEF ReadWorkflow, PublishRetry, ReadFailed, records, history
<1>5. ASSUME \/ Create \/ Update \/ Delete \/ CallStops \/ ExpireJob \/ UNCHANGED vars
             \/ \E x \in Executions : TriggerStep(x)
             \/ \E s \in Slots : SlotStep(s) \/ SlotFault(s)
      PROVE  raced' = raced /\ redelivered' = redelivered /\ retries' = retries
  BY <1>5 DEF Create, Update, Delete, CallStops, ExpireJob, vars, TriggerStep, ReadEnabled,
     CreateExecution, PublishExecution, SlotStep, SlotFault, Deliver, Start, PushRunning, Execute,
     SetResult, Succeed, Fail, End, Count, Settle, records, history
<1> QED BY <1>a, <1>2, <1>3, <1>4, <1>5 DEF Next, RetryStep

\* Who publishes a retry has counted it.
LEMMA CountedKept ==
  ASSUME RunInv, LoneInv, [Next]_vars, NEW r \in Retriers, rpc'[r] = "publish"
  PROVE  retries'[rexec'[r]] > 0
<1>a. TypeOK /\ HoldsAll /\ retries \in [Executions -> Nat]
  BY DEF RunInv, TypeOK
<1>b. RunInv'
  BY RunInvNext
<1>1. CASE rpc[r] = "publish" /\ rexec'[r] = rexec[r]
  <2>1. rexec[r] \in Executions /\ retries[rexec[r]] > 0
    BY <1>a, <1>1 DEF LoneInv, TypeOK, HoldsAll
  <2>2. retries'[rexec[r]] >= retries[rexec[r]] /\ retries'[rexec[r]] \in Nat
    BY <1>b, <2>1, HistoryGrows DEF RunInv, TypeOK
  <2>3. retries[rexec[r]] \in Nat
    BY <1>a, <2>1
  <2> QED BY <1>1, <2>1, <2>2, <2>3
<1>2. CASE Requeue(r)
  <2>1. rexec[r] \in Executions /\ rexec' = rexec
    BY <1>a, <1>2 DEF Requeue, TypeOK, HoldsAll
  <2> QED BY <1>a, <1>2, <2>1 DEF Requeue
<1>3. UNCHANGED <<rpc, rexec>> \/ rpc'[r] # "publish" \/ Requeue(r)
      \/ (rpc'[r] = rpc[r] /\ rexec'[r] = rexec[r])
  <2>1. CASE CallStops
    BY <1>a, <2>1 DEF CallStops, LeaveRetry, retrying, TypeOK
  <2>2. ASSUME NEW q \in Retriers, RetryStep(q) \/ \E x \in Executions : ReadFailed(q, x)
        PROVE  Requeue(r) \/ rpc'[r] # "publish" \/ (rpc'[r] = rpc[r] /\ rexec'[r] = rexec[r])
    BY <1>a, <2>2 DEF RetryStep, ReadFailed, ReadWorkflow, Requeue, PublishRetry, LeaveRetry, TypeOK
  <2>3. ASSUME \/ Create \/ Update \/ Delete \/ ExpireJob \/ UNCHANGED vars
               \/ \E x \in Executions : TriggerStep(x)
               \/ \E s \in Slots : SlotStep(s) \/ SlotFault(s)
               \/ \E p \in Procs : ProcessStep(p)
        PROVE  UNCHANGED <<rpc, rexec>>
    BY <2>3 DEF Create, Update, Delete, ExpireJob, vars, TriggerStep, ReadEnabled,
       CreateExecution, PublishExecution, SlotStep, SlotFault, Deliver, Start, PushRunning, Execute,
       SetResult, Succeed, Fail, End, Count, Settle, ProcessStep, LoseConnection,
       Disconnect, Exit, Crash, Restart, retrying
  <2> QED BY <2>1, <2>2, <2>3 DEF Next
<1> QED BY <1>1, <1>2, <1>3

\* A handler of a process that is cut off is one whose job was put back.
CutOff(s) == wpc[s] # "idle" /\ ~Open(ProcOf[s]) => redelivered[job[s].exec] > 0

LEMMA CutOffNext ==
  ASSUME RunInv, \A s \in Slots : CutOff(s), [Next]_vars, NEW s \in Slots
  PROVE  CutOff(s)'
<1> USE DEF slots, procs, history
<1>a. TypeOK /\ HoldsAll /\ ProcOf[s] \in Procs
  BY WorkflowAssumption DEF RunInv
<1>b. ASSUME NEW e \in Executions, redelivered[e] > 0 PROVE redelivered'[e] > 0
  <2>1. redelivered'[e] \in Nat /\ redelivered[e] \in Nat
    BY RunInvNext DEF RunInv, TypeOK
  <2> QED BY <1>b, <2>1, HistoryGrows
\* The slot keeps its job, or gives it up.
<1>c. ASSUME wpc'[s] # "idle" => wpc[s] # "idle" /\ job'[s] = job[s], channel' = channel
      PROVE  CutOff(s)'
  BY <1>a, <1>b, <1>c, JobOfSlot DEF CutOff, Open
<1>1. ASSUME NEW u \in Slots, SlotStep(u) \/ SlotFault(u) PROVE CutOff(s)'
  <2>1. CASE Deliver(u)
    <3>1. /\ channel' = channel /\ Open(ProcOf[u])
          /\ wpc' = [wpc EXCEPT ![u] = "start"] /\ job' = [job EXCEPT ![u] = job'[u]]
      BY <1>a, <2>1 DEF Deliver, TypeOK
    <3>2. CASE s = u
      BY <3>1, <3>2 DEF CutOff, Open
    <3>3. CASE s # u
      BY <1>a, <1>c, <3>1, <3>3 DEF TypeOK
    <3> QED BY <3>2, <3>3
  <2>2. CASE Settle(u)
    BY <2>2, <1>c DEF Settle, Vacated
  <2>3. CASE \/ Start(u) \/ PushRunning(u) \/ Execute(u) \/ SetResult(u) \/ Succeed(u)
             \/ Fail(u) \/ Count(u) \/ SlotFault(u)
    <3>1. job' = job /\ channel' = channel /\ \A v \in Slots \ {u} : wpc'[v] = wpc[v]
      BY <1>a, <2>3 DEF Start, PushRunning, Execute, SetResult, Succeed, Fail, End, Count, Stored,
         SlotFault, TypeOK
    <3>2. wpc[u] # "idle"
      BY <2>3 DEF Start, PushRunning, Execute, SetResult, Succeed, Fail, End, Count, Stored,
         SlotFault, WorkSteps, InTry
    <3> QED BY <1>c, <3>1, <3>2
  <2> QED BY <1>1, <2>1, <2>2, <2>3 DEF SlotStep
<1>2. ASSUME NEW p \in Procs, LoseConnection(p) \/ Disconnect(p) PROVE CutOff(s)'
  <2>1. PutBack(p) /\ UNCHANGED slots /\ channel' = [channel EXCEPT ![p] = FALSE]
    BY <1>2 DEF LoseConnection, Disconnect
  <2>2. CASE ProcOf[s] # p \/ wpc[s] = "idle" \/ ~Open(p)
    BY <1>a, <1>b, <2>1, <2>2, JobOfSlot DEF CutOff, Open, TypeOK
  <2>3. CASE ProcOf[s] = p /\ wpc[s] # "idle" /\ Open(p)
    <3> DEFINE back == {m \in Unacked(p) : m.exec = job[s].exec}
    <3>1. job[s].exec \in Executions /\ job[s] \in back
      BY <1>a, <2>1, <2>3, JobOfSlot DEF Unacked, Busy
    <3>2. IsFiniteSet(back) /\ Cardinality(back) \in Nat
      BY <1>a, UnackedAreJobs
    <3>3. Cardinality(back) > 0
      BY <3>1, <3>2, FS_EmptySet
    <3>4. redelivered'[job[s].exec] = redelivered[job[s].exec] + Cardinality(back)
      BY <2>1, <3>1 DEF PutBack
    <3>5. redelivered[job[s].exec] \in Nat
      BY <1>a, <3>1 DEF TypeOK
    <3>6. redelivered'[job[s].exec] > 0
      BY <3>2, <3>3, <3>4, <3>5
    <3> QED BY <2>1, <3>6 DEF CutOff
  <2> QED BY <2>2, <2>3
<1>3. ASSUME NEW p \in Procs, Exit(p) \/ Crash(p) PROVE CutOff(s)'
  <2>1. Vacated(Busy(p)) /\ channel' = [channel EXCEPT ![p] = TRUE]
    BY <1>3 DEF Exit, Crash, Restart
  <2>2. CASE s \in Busy(p)
    BY <2>1, <2>2 DEF CutOff, Vacated
  <2>3. CASE s \notin Busy(p)
    <3>1. wpc'[s] = wpc[s] /\ job'[s] = job[s]
      BY <2>1, <2>3 DEF Vacated
    <3>2. ~channel'[ProcOf[s]] => ~channel[ProcOf[s]]
      BY <1>a, <2>1 DEF TypeOK
    <3> QED BY <1>a, <1>b, <3>1, <3>2, JobOfSlot DEF CutOff, Open
  <2> QED BY <2>2, <2>3
<1>5. ASSUME \/ Create \/ Update \/ Delete \/ CallStops \/ ExpireJob \/ UNCHANGED vars
             \/ \E e \in Executions : TriggerStep(e)
             \/ \E r \in Retriers : RetryStep(r) \/ \E e \in Executions : ReadFailed(r, e)
      PROVE  CutOff(s)'
  <2>1. UNCHANGED <<wpc, job, channel>>
    BY <1>5 DEF Create, Update, Delete, CallStops, ExpireJob, vars, TriggerStep, ReadEnabled,
       CreateExecution, PublishExecution, RetryStep, ReadWorkflow, Requeue, PublishRetry, ReadFailed
  <2> QED BY <1>c, <2>1
<1> QED BY <1>1, <1>2, <1>3, <1>5 DEF Next, ProcessStep

LEMMA LoneInvNext == RunInv /\ LoneInv /\ [Next]_vars => LoneInv'
<1> SUFFICES ASSUME RunInv, LoneInv, [Next]_vars PROVE LoneInv'
  OBVIOUS
<1>1. ASSUME NEW r \in Retriers, rpc'[r] = "publish" PROVE retries'[rexec'[r]] > 0
  BY <1>1, CountedKept
<1>2. ASSUME NEW e \in Executions
      PROVE  /\ raced \subseteq raced' /\ redelivered'[e] >= redelivered[e]
             /\ retries'[e] >= retries[e] /\ redelivered[e] \in Nat /\ retries[e] \in Nat
             /\ spent'["fault"] >= spent["fault"] /\ spent["fault"] \in Nat
  BY HistoryGrows, SpentGrows DEF RunInv, TypeOK, Kinds
<1>3. ASSUME NEW e \in Executions, Calm(e)' PROVE LoneClaim(e)'
  <2>1. Calm(e)
    BY <1>2, <1>3 DEF Calm
  <2>2. CASE CallStops
    <3>1. spent \in [Kinds -> Nat]
      BY DEF RunInv, TypeOK
    <3> QED BY <1>3, <2>2, <3>1, SpendOne DEF CallStops, Calm, Kinds
  <2>3. CASE UNCHANGED vars
    BY <2>1, <2>3 DEF LoneInv, Calm, LoneClaim, Quiet, Working, Queued, Triggering, Retrying,
                      Between, vars, records, broker, triggers, retrying, slots
  <2> QED BY <1>3, <2>1, <2>2, <2>3, ServiceKeepsClaims, SlotKeepsClaims, BrokerKeepsClaims DEF Next
<1>4. ASSUME NEW e \in Executions, Untried(e)' PROVE LoneJob(e)'
  <2>1. Untried(e)
    BY <1>2, <1>4 DEF Untried
  <2> QED BY <1>4, <2>1, StepKeepsLoneJob
<1>5. ASSUME NEW s \in Slots PROVE CutOff(s)'
  BY CutOffNext DEF LoneInv, CutOff
<1> QED BY <1>1, <1>3, <1>4, <1>5 DEF LoneInv, Calm, Untried, CutOff

LEMMA LoneInvInit == Init => LoneInv
<1> SUFFICES ASSUME Init PROVE LoneInv
  OBVIOUS
<1>1. ASSUME NEW e \in Executions PROVE LoneClaim(e) /\ LoneJob(e)
  BY DEF Init, LoneClaim, LoneJob, Queued, Working, Handles, Quiet, Retrying, Triggering, BeforeEnd
<1> QED BY <1>1 DEF Init, LoneInv

\* A set whose elements are all the same has one at most.
LEMMA OneAtMost ==
  ASSUME NEW S, \A x, y \in S : x = y
  PROVE  Cardinality(S) <= 1
<1>1. CASE S = {}
  BY <1>1, FS_EmptySet
<1>2. CASE S # {}
  <2>1. PICK x \in S : TRUE
    BY <1>2
  <2>2. S = {x}
    BY <2>1
  <2> QED BY <2>2, FS_Singleton
<1> QED BY <1>1, <1>2

LEMMA LoneRunIsSole == LoneInv => SoleRun
<1> SUFFICES ASSUME LoneInv, NEW e \in Executions,
                    \/ retries[e] = 0
                    \/ e \notin raced /\ spent["fault"] = 0 /\ redelivered[e] = 0
             PROVE  Cardinality({s \in Slots : AtWork(s, e)}) <= 1
  BY DEF SoleRun
<1>1. ASSUME NEW s \in Slots, AtWork(s, e) PROVE Working(s, e) /\ Handles(s, e)
  BY <1>1 DEF AtWork, Working, Handles, InTry, BeforeEnd
<1>2. \A s, u \in {x \in Slots : AtWork(x, e)} : s = u
  BY <1>1 DEF LoneInv, LoneClaim, LoneJob
<1> QED BY <1>2, OneAtMost

(* Nothing claims an execution, yet the processes that are connected to    *)
(* the broker run it once at a time, unless it was retried and retries     *)
(* raced, something failed underneath or a job was put back.  Handlers     *)
(* that go on without their connection are not counted                     *)
(* (workflow.worker.js, executeWorkflow, and workflow.service.js,          *)
(* retryExecution).                                                        *)
THEOREM RunsAreAlone == Spec => []SoleRun
BY LoneInvInit, LoneInvNext, LoneRunIsSole, RunInvariant, PTL DEF Spec

-----------------------------------------------------------------------------
(* EffectsBounded *)

LEMMA RankClimbs ==
  ASSUME NoLoops, NEW g \in Graphs
  PROVE  RankOf(g) \in [Nodes -> Int] /\ Climbs(RankOf(g), g)
<1>1. RankOf(g) \in Ranks /\ Climbs(RankOf(g), g)
  BY DEF NoLoops, RankOf
<1> QED BY <1>1 DEF Ranks

\* A step that leaves a slot's place in its graph alone.
LEMMA ClimbsKept ==
  ASSUME NEW s \in Slots, RunClimbs(s), job'[s] = job[s], node'[s] = node[s], ran'[s] = ran[s],
         wpc'[s] \in {"push", "execute"} => wpc[s] \in {"push", "execute"},
         wpc'[s] = "set" => wpc[s] = "set"
  PROVE  RunClimbs(s)'
BY DEF RunClimbs

LEMMA ClimbsNext ==
  ASSUME RunInv, NoLoops, \A s \in Slots : RunClimbs(s), [Next]_vars, NEW s \in Slots
  PROVE  RunClimbs(s)'
<1>a. TypeOK /\ HoldsAll /\ wpc \in [Slots -> WorkSteps \cup {"idle"}]
  BY DEF RunInv, TypeOK
<1>b. RunInv'
  BY RunInvNext
<1>1. CASE UNCHANGED slots
  BY <1>1, ClimbsKept DEF slots
<1>2. CASE ran'[s] = <<>>
  BY <1>2 DEF RunClimbs
<1>3. ASSUME NEW u \in Slots, u # s, SlotStep(u) \/ SlotFault(u) PROVE RunClimbs(s)'
  <2>1. wpc'[s] = wpc[s] /\ job'[s] = job[s] /\ node'[s] = node[s] /\ ran'[s] = ran[s]
    <3>1. CASE Deliver(u) \/ Start(u) \/ PushRunning(u) \/ SetResult(u)
      BY <1>a, <1>3, <3>1 DEF Deliver, Start, PushRunning, SetResult, Stored, TypeOK
    <3>2. CASE Execute(u)
      BY <1>a, <1>3, <3>2 DEF Execute, TypeOK
    <3>3. CASE Succeed(u) \/ Fail(u) \/ Count(u) \/ SlotFault(u)
      BY <1>a, <1>3, <3>3 DEF Succeed, Fail, End, Count, SlotFault, Stored
    <3>4. CASE Settle(u)
      BY <1>3, <3>4 DEF Settle, Vacated
    <3> QED BY <1>3, <3>1, <3>2, <3>3, <3>4 DEF SlotStep
  <2> QED BY <2>1, ClimbsKept
<1>4. CASE Deliver(s) \/ Start(s)
  <2>1. ran'[s] = ran[s] /\ ran[s] = <<>>
    BY <1>a, <1>4 DEF Deliver, Start, Stored, RunInv, HoldsAll, FollowsGraph
  <2> QED BY <1>2, <2>1
<1>5. CASE PushRunning(s) \/ Succeed(s) \/ Fail(s) \/ Count(s) \/ SlotFault(s)
  <2>1. UNCHANGED <<job, node, ran>>
    BY <1>5 DEF PushRunning, Succeed, Fail, End, Count, SlotFault
  <2>2. /\ wpc'[s] \in {"push", "execute"} => wpc[s] \in {"push", "execute"}
        /\ wpc'[s] = "set" => wpc[s] = "set"
    BY <1>a, <1>5 DEF PushRunning, Succeed, Fail, End, Count, Stored, SlotFault
  <2> QED BY <2>1, <2>2, ClimbsKept
<1>6. CASE Execute(s)
  <2>1. PICK o : ran' = [ran EXCEPT ![s] = Append(@, [node |-> node[s], status |-> o])]
    BY <1>6 DEF Execute
  <2>2. /\ wpc[s] = "execute" /\ wpc'[s] = "set" /\ job' = job /\ node' = node
        /\ ran[s] \in Seq(NodeResults) /\ Len(ran[s]) \in Nat /\ node[s] \in Nodes
        /\ job[s].graph \in Graphs
    BY <1>a, <1>6, JobOfSlot DEF Execute, RunInv, FollowsGraph, TypeOK
  <2> DEFINE entry == [node |-> node[s], status |-> o]
             rank == RankOf(job[s].graph)
  <2>3. ran'[s] = Append(ran[s], entry)
    BY <1>a, <2>1 DEF TypeOK
  <2>4. /\ Len(ran'[s]) = Len(ran[s]) + 1 /\ ran'[s][Len(ran[s]) + 1].node = node[s]
        /\ \A k \in 1..Len(ran[s]) : ran'[s][k] = ran[s][k] /\ ran[s][k].node \in Nodes
    <3>1. Len(Append(ran[s], entry)) = Len(ran[s]) + 1
      BY <2>2
    <3>2. Append(ran[s], entry)[Len(ran[s]) + 1] = entry /\ entry.node = node[s]
      BY <2>2
    <3>3. ASSUME NEW k \in 1..Len(ran[s])
          PROVE  Append(ran[s], entry)[k] = ran[s][k] /\ ran[s][k].node \in Nodes
      <4>1. ran[s][k] \in NodeResults
        BY <2>2
      <4> QED BY <2>2, <4>1 DEF NodeResults
    <3> QED BY <2>3, <3>1, <3>2, <3>3
  <2>5. rank \in [Nodes -> Int]
    BY <2>2, RankClimbs
  <2>6. ASSUME NEW k \in 1..Len(ran'[s]) PROVE rank[ran'[s][k].node] <= rank[node[s]]
    <3>0. rank[node[s]] \in Int
      BY <2>2, <2>5
    <3>1. CASE k = Len(ran[s]) + 1
      <4>1. ran'[s][k].node = node[s]
        BY <2>4, <3>1
      <4> HIDE DEF rank
      <4> QED BY <3>0, <4>1
    <3>2. CASE k # Len(ran[s]) + 1
      <4>1. k \in 1..Len(ran[s])
        BY <2>2, <2>4, <3>2
      <4>2. rank[ran[s][k].node] < rank[node[s]]
        BY <2>2, <4>1 DEF RunClimbs
      <4>3. rank[ran[s][k].node] \in Int /\ rank[node[s]] \in Int
        BY <2>2, <2>4, <2>5, <4>1
      <4>4. ran'[s][k].node = ran[s][k].node
        BY <2>4, <4>1
      <4> HIDE DEF rank
      <4> QED BY <4>2, <4>3, <4>4
    <3> QED BY <3>1, <3>2
  <2> QED BY <2>2, <2>6 DEF RunClimbs
<1>7. CASE SetResult(s)
  <2>1. PICK n \in job[s].graph.next[node[s]] : node' = [node EXCEPT ![s] = n]
    BY <1>7 DEF SetResult
  <2>2. /\ wpc[s] = "set" /\ wpc'[s] \in {"push", "succeed", "fail"} /\ node'[s] = n
        /\ job' = job /\ ran' = ran /\ job[s].graph \in Graphs
        /\ ran[s] \in Seq(NodeResults) /\ Len(ran[s]) \in Nat
    BY <1>a, <1>7, <2>1, JobOfSlot DEF SetResult, Stored, Onward, TypeOK
  <2>3. node[s] \in Nodes
    <3>1. ran[s] # <<>> /\ node[s] = LastRan(s).node
      BY <2>2 DEF RunInv, FollowsGraph
    <3>2. LastRan(s) \in NodeResults
      BY <2>2, <3>1 DEF LastRan
    <3> QED BY <3>1, <3>2 DEF NodeResults
  <2>4. CASE wpc'[s] = "push"
    <3> DEFINE rank == RankOf(job[s].graph)
    <3>1. n \in Nodes
      BY <1>b, <2>2, <2>4 DEF RunInv, FollowsGraph, TypeOK
    <3>2. rank \in [Nodes -> Int] /\ rank[node[s]] < rank[n]
      BY <2>1, <2>2, <2>3, <3>1, RankClimbs, WorkflowAssumption DEF Climbs
    <3>3. ASSUME NEW k \in 1..Len(ran[s]) PROVE rank[ran[s][k].node] < rank[n]
      <4>1. ran[s][k].node \in Nodes
        <5>1. ran[s][k] \in NodeResults
          BY <2>2
        <5> QED BY <5>1 DEF NodeResults
      <4>2. rank[ran[s][k].node] <= rank[node[s]]
        BY <2>2 DEF RunClimbs
      <4> QED BY <2>3, <3>1, <3>2, <4>1, <4>2
    <3> QED BY <2>2, <2>4, <3>3 DEF RunClimbs
  <2>5. CASE wpc'[s] # "push"
    BY <2>2, <2>5 DEF RunClimbs
  <2> QED BY <2>4, <2>5
<1>8. CASE Settle(s)
  BY <1>2, <1>8 DEF Settle, Vacated
<1>9. ASSUME NEW p \in Procs, ProcessStep(p)
      PROVE  RunClimbs(s)'
  <2>1. CASE LoseConnection(p) \/ Disconnect(p)
    BY <1>1, <2>1 DEF LoseConnection, Disconnect
  <2>2. CASE Exit(p) \/ Crash(p)
    <3>1. Vacated(Busy(p))
      BY <2>2 DEF Exit, Crash, Restart
    <3>2. CASE s \in Busy(p)
      BY <1>2, <3>1, <3>2 DEF Vacated
    <3>3. CASE s \notin Busy(p)
      BY <3>1, <3>3, ClimbsKept DEF Vacated
    <3> QED BY <3>2, <3>3
  <2> QED BY <1>9, <2>1, <2>2 DEF ProcessStep
<1>10. ASSUME \/ Create \/ Update \/ Delete \/ CallStops \/ ExpireJob \/ UNCHANGED vars
              \/ \E e \in Executions : TriggerStep(e)
              \/ \E r \in Retriers : RetryStep(r) \/ \E e \in Executions : ReadFailed(r, e)
       PROVE  UNCHANGED slots
  BY <1>10 DEF Create, Update, Delete, CallStops, ExpireJob, vars, TriggerStep, ReadEnabled,
     CreateExecution, PublishExecution, RetryStep, ReadFailed, ReadWorkflow, Requeue, PublishRetry
<1>11. ASSUME SlotStep(s) \/ SlotFault(s) PROVE RunClimbs(s)'
  BY <1>4, <1>5, <1>6, <1>7, <1>8, <1>11 DEF SlotStep
<1> QED BY <1>1, <1>3, <1>9, <1>10, <1>11 DEF Next

\* What is counted is finite.
LEMMA CountsFinite ==
  ASSUME IsFiniteSet(queue), NEW e, NEW n
  PROVE  /\ IsFiniteSet(Queued(e)) /\ IsFiniteSet(Ahead(e, n)) /\ IsFiniteSet(Publishing(e))
         /\ Cardinality(Queued(e)) \in Nat /\ Cardinality(Ahead(e, n)) \in Nat
         /\ Cardinality(Publishing(e)) \in Nat /\ ToTrigger(e) \in {0, 1}
<1>1. Queued(e) \subseteq queue /\ Ahead(e, n) \subseteq Slots /\ Publishing(e) \subseteq Retriers
  BY DEF Queued, Ahead, Publishing
<1>2. IsFiniteSet(Slots) /\ IsFiniteSet(Retriers)
  BY WorkflowAssumption
<1>3. /\ IsFiniteSet(Queued(e)) /\ IsFiniteSet(Ahead(e, n)) /\ IsFiniteSet(Publishing(e))
  BY <1>1, <1>2, FS_Subset
<1> QED BY <1>3, FS_CardinalityType DEF ToTrigger

\* A set that loses elements, and one that gains some.
LEMMA FewerOf ==
  ASSUME NEW S, NEW T, IsFiniteSet(S), T \subseteq S
  PROVE  Cardinality(T) \in Nat /\ Cardinality(S) \in Nat /\ Cardinality(T) <= Cardinality(S)
BY FS_Subset, FS_CardinalityType

LEMMA OneFewer ==
  ASSUME NEW S, NEW T, NEW x \in S, IsFiniteSet(S), T \subseteq S \ {x}
  PROVE  Cardinality(T) \in Nat /\ Cardinality(T) + 1 <= Cardinality(S)
<1>1. IsFiniteSet(S \ {x}) /\ Cardinality(S \ {x}) = Cardinality(S) - 1
  BY FS_RemoveElement
<1> QED BY <1>1, FewerOf, FS_CardinalityType

LEMMA OneMore ==
  ASSUME NEW S, NEW T, NEW x, IsFiniteSet(S), T \subseteq S \cup {x}
  PROVE  Cardinality(T) \in Nat /\ Cardinality(T) <= Cardinality(S) + 1
<1>1. IsFiniteSet(S \cup {x}) /\ Cardinality(S \cup {x}) <= Cardinality(S) + 1
  <2>1. /\ IsFiniteSet(S \cup {x}) /\ Cardinality(S) \in Nat
        /\ \/ Cardinality(S \cup {x}) = Cardinality(S)
           \/ Cardinality(S \cup {x}) = Cardinality(S) + 1
    BY FS_AddElement, FS_CardinalityType
  <2> QED BY <2>1
<1> QED BY <1>1, FewerOf, FS_CardinalityType

\* No job, call or slot is added, and the execution's counts do not go back.
LEMMA WithinKept ==
  ASSUME RunInv, RunInv', [Next]_vars, IsFiniteSet(queue), NEW e \in Executions, NEW n \in Nodes,
         WithinJobs(e, n), effects'[e][n] = effects[e][n],
         Queued(e)' \subseteq Queued(e), Ahead(e, n)' \subseteq Ahead(e, n),
         Publishing(e)' \subseteq Publishing(e), Triggering(e)' => Triggering(e)
  PROVE  WithinJobs(e, n)'
<1>1. /\ Cardinality(Queued(e)') \in Nat /\ Cardinality(Queued(e)') <= Cardinality(Queued(e))
      /\ Cardinality(Ahead(e, n)') \in Nat /\ Cardinality(Ahead(e, n)') <= Cardinality(Ahead(e, n))
      /\ Cardinality(Publishing(e)') \in Nat
      /\ Cardinality(Publishing(e)') <= Cardinality(Publishing(e))
  BY CountsFinite, FewerOf
<1>2. ToTrigger(e)' \in {0, 1} /\ ToTrigger(e) \in {0, 1} /\ ToTrigger(e)' <= ToTrigger(e)
  BY DEF ToTrigger
<1>3. /\ retries'[e] >= retries[e] /\ redelivered'[e] >= redelivered[e]
      /\ retries[e] \in Nat /\ redelivered[e] \in Nat /\ effects[e][n] \in Nat
      /\ retries'[e] \in Nat /\ redelivered'[e] \in Nat
  BY HistoryGrows DEF RunInv, TypeOK
<1>4. /\ Cardinality(Queued(e)) \in Nat /\ Cardinality(Ahead(e, n)) \in Nat
      /\ Cardinality(Publishing(e)) \in Nat
  BY CountsFinite
<1> QED BY <1>1, <1>2, <1>3, <1>4 DEF WithinJobs, Owed

LEMMA QueueStaysFinite ==
  ASSUME RunInv, IsFiniteSet(queue), [Next]_vars
  PROVE  IsFiniteSet(queue')
<1>a. TypeOK /\ HoldsAll
  BY DEF RunInv
<1>1. CASE queue' \subseteq queue
  BY <1>1, FS_Subset
<1>2. CASE \E m : queue' = queue \cup {m}
  BY <1>2, FS_AddElement
<1>3. CASE \E p \in Procs : queue' = queue \cup Unacked(p)
  BY <1>a, <1>3, UnackedAreJobs, FS_Union
<1>4. ASSUME NEW s \in Slots, SlotStep(s) \/ SlotFault(s) PROVE queue' \subseteq queue
  BY <1>4 DEF SlotStep, SlotFault, Deliver, Start, PushRunning, Execute, SetResult, Succeed, Fail,
     End, Count, Settle, Requeued, broker
<1>5. ASSUME NEW p \in Procs, ProcessStep(p)
      PROVE  IsFiniteSet(queue')
  BY <1>1, <1>3, <1>5 DEF ProcessStep, LoseConnection, Disconnect, Exit, Crash, Restart,
     PutBack, broker
<1>6. ASSUME NEW e \in Executions, TriggerStep(e) PROVE IsFiniteSet(queue')
  BY <1>1, <1>2, <1>6 DEF TriggerStep, ReadEnabled, CreateExecution, PublishExecution, broker
<1>7. ASSUME NEW r \in Retriers, RetryStep(r) \/ \E e \in Executions : ReadFailed(r, e)
      PROVE  IsFiniteSet(queue')
  BY <1>1, <1>2, <1>7 DEF RetryStep, ReadFailed, ReadWorkflow, Requeue, PublishRetry, broker
<1>8. ASSUME Create \/ Update \/ Delete \/ CallStops \/ ExpireJob \/ UNCHANGED vars
      PROVE  queue' \subseteq queue
  BY <1>8 DEF Create, Update, Delete, CallStops, ExpireJob, vars, broker
<1> QED BY <1>1, <1>4, <1>5, <1>6, <1>7, <1>8 DEF Next

LEMMA ServiceKeepsWithin ==
  ASSUME RunInv, RunInv', [Next]_vars, IsFiniteSet(queue), NEW e \in Executions, NEW n \in Nodes,
         WithinJobs(e, n),
         \/ Create \/ Update \/ Delete \/ CallStops
         \/ \E x \in Executions : TriggerStep(x)
         \/ \E r \in Retriers : RetryStep(r) \/ \E x \in Executions : ReadFailed(r, x)
  PROVE  WithinJobs(e, n)'
<1> USE DEF history
<1>a. /\ TypeOK /\ HoldsAll /\ rpc \in [Retriers -> {"idle", "workflow", "update", "publish"}]
      /\ rexec \in [Retriers -> Executions \cup {Nil}] /\ retries[e] \in Nat
      /\ redelivered[e] \in Nat /\ effects[e][n] \in Nat
      /\ epc \in [Executions -> {"idle", "create", "publish", "done"}]
  <2>1. TypeOK /\ HoldsAll
    BY DEF RunInv
  <2> QED BY <2>1 DEF TypeOK
<1>b. /\ Cardinality(Queued(e)) \in Nat /\ Cardinality(Ahead(e, n)) \in Nat
      /\ Cardinality(Publishing(e)) \in Nat /\ ToTrigger(e) \in {0, 1}
      /\ IsFiniteSet(Queued(e)) /\ IsFiniteSet(Publishing(e))
  BY CountsFinite
<1>c. UNCHANGED slots /\ effects' = effects /\ redelivered' = redelivered
  BY DEF Create, Update, Delete, CallStops, TriggerStep, ReadEnabled, CreateExecution,
         PublishExecution, RetryStep, ReadFailed, ReadWorkflow, Requeue, PublishRetry
<1>d. Ahead(e, n)' = Ahead(e, n)
  BY <1>c DEF Ahead, slots
<1>1. ASSUME queue' = queue, Publishing(e)' \subseteq Publishing(e), Triggering(e)' => Triggering(e)
      PROVE  WithinJobs(e, n)'
  <2>1. Queued(e)' = Queued(e)
    BY <1>1 DEF Queued
  <2> QED BY <1>1, <1>c, <1>d, <2>1, WithinKept
<1>2. ASSUME UNCHANGED <<broker, triggers>>, Publishing(e)' \subseteq Publishing(e)
      PROVE  WithinJobs(e, n)'
  BY <1>1, <1>2 DEF broker, triggers, Triggering
<1>3. CASE Create \/ Update \/ Delete
  BY <1>2, <1>3 DEF Create, Update, Delete, retrying, Publishing
<1>4. CASE CallStops
  <2>1. queue' = queue
    BY <1>4 DEF CallStops, broker
  <2>2. Publishing(e)' \subseteq Publishing(e)
    BY <1>a, <1>4 DEF CallStops, Publishing, LeaveRetry, retrying
  <2>3. Triggering(e)' => Triggering(e)
    BY <1>a, <1>4 DEF CallStops, Triggering, triggers
  <2> QED BY <1>1, <2>1, <2>2, <2>3
<1>5. ASSUME NEW x \in Executions, ReadEnabled(x) \/ CreateExecution(x) PROVE WithinJobs(e, n)'
  <2>1. queue' = queue /\ UNCHANGED retrying
    BY <1>5 DEF ReadEnabled, CreateExecution, broker
  <2>2. Triggering(e)' => Triggering(e)
    BY <1>a, <1>5 DEF ReadEnabled, CreateExecution, Triggering
  <2>3. Publishing(e)' = Publishing(e)
    BY <2>1 DEF Publishing, retrying
  <2> QED BY <1>1, <2>1, <2>2, <2>3
<1>6. ASSUME NEW x \in Executions, PublishExecution(x) PROVE WithinJobs(e, n)'
  <2> DEFINE m == [exec |-> x, graph |-> egraph[x], by |-> Nil, attempt |-> 0]
  <2>1. /\ epc[x] = "publish" /\ epc' = [epc EXCEPT ![x] = "done"] /\ m.exec = x
        /\ queue' = queue \cup {m} /\ UNCHANGED <<records, retrying>>
    BY <1>6 DEF PublishExecution
  <2>2. Publishing(e)' = Publishing(e) /\ retries' = retries
    BY <2>1 DEF Publishing, retrying, records
  <2>3. CASE e = x
    <3>1. ToTrigger(e) = 1 /\ ToTrigger(e)' = 0
      BY <1>a, <2>1, <2>3 DEF ToTrigger, Triggering
    <3>2. Queued(e)' \subseteq Queued(e) \cup {m}
      BY <2>1 DEF Queued
    <3>3. Cardinality(Queued(e)') \in Nat /\ Cardinality(Queued(e)') <= Cardinality(Queued(e)) + 1
      BY <1>b, <3>2, OneMore
    <3> QED BY <1>a, <1>b, <1>c, <1>d, <2>2, <3>1, <3>3 DEF WithinJobs, Owed
  <2>4. CASE e # x
    <3>1. Queued(e)' = Queued(e) /\ Triggering(e)' = Triggering(e)
      BY <1>a, <2>1, <2>4 DEF Queued, Triggering
    <3> QED BY <1>c, <1>d, <2>2, <3>1, WithinKept
  <2> QED BY <2>3, <2>4
<1>7. ASSUME NEW r \in Retriers, ReadWorkflow(r) \/ \E x \in Executions : ReadFailed(r, x)
      PROVE  WithinJobs(e, n)'
  <2>1. UNCHANGED <<broker, triggers>>
    BY <1>7 DEF ReadWorkflow, ReadFailed
  <2>2. Publishing(e)' \subseteq Publishing(e)
    BY <1>a, <1>7 DEF ReadWorkflow, ReadFailed, Publishing, LeaveRetry
  <2> QED BY <1>2, <2>1, <2>2
<1>8. ASSUME NEW r \in Retriers, Requeue(r) PROVE WithinJobs(e, n)'
  <2>1. /\ UNCHANGED <<broker, triggers>> /\ rexec' = rexec /\ rexec[r] \in Executions
        /\ rpc' = [rpc EXCEPT ![r] = "publish"]
        /\ retries' = [retries EXCEPT ![rexec[r]] = @ + 1]
    BY <1>a, <1>8 DEF Requeue, HoldsAll
  <2>2. CASE e = rexec[r]
    <3>1. retries'[e] = retries[e] + 1
      BY <1>a, <2>1, <2>2 DEF TypeOK
    <3>2. Publishing(e)' \subseteq Publishing(e) \cup {r}
      BY <1>a, <2>1 DEF Publishing
    <3>3. /\ Cardinality(Publishing(e)') \in Nat
          /\ Cardinality(Publishing(e)') <= Cardinality(Publishing(e)) + 1
      BY <1>b, <3>2, OneMore
    <3>4. Queued(e)' = Queued(e) /\ ToTrigger(e)' = ToTrigger(e)
      BY <2>1 DEF Queued, ToTrigger, Triggering, broker, triggers
    <3> QED BY <1>a, <1>b, <1>c, <1>d, <3>1, <3>3, <3>4 DEF WithinJobs, Owed
  <2>3. CASE e # rexec[r]
    <3>1. Publishing(e)' \subseteq Publishing(e)
      BY <1>a, <2>1, <2>3 DEF Publishing
    <3> QED BY <1>2, <2>1, <3>1
  <2> QED BY <2>2, <2>3
<1>9. ASSUME NEW r \in Retriers, PublishRetry(r) PROVE WithinJobs(e, n)'
  <2> DEFINE m == [exec |-> rexec[r], graph |-> rgraph[r], by |-> r,
                   attempt |-> retries[rexec[r]]]
  <2>1. /\ rpc[r] = "publish" /\ LeaveRetry(r) /\ m.exec = rexec[r]
        /\ queue' = queue \cup {m} /\ UNCHANGED <<records, triggers>>
    BY <1>9 DEF PublishRetry
  <2>2. Publishing(e)' \subseteq Publishing(e) \ {r} /\ ToTrigger(e)' = ToTrigger(e)
    BY <1>a, <2>1 DEF Publishing, LeaveRetry, ToTrigger, Triggering, triggers
  <2>3. CASE e = rexec[r]
    <3>1. r \in Publishing(e)
      BY <2>1, <2>3 DEF Publishing
    <3>2. /\ Cardinality(Publishing(e)') \in Nat
          /\ Cardinality(Publishing(e)') + 1 <= Cardinality(Publishing(e))
      BY <1>b, <2>2, <3>1, OneFewer
    <3>3. Queued(e)' \subseteq Queued(e) \cup {m}
      BY <2>1 DEF Queued
    <3>4. Cardinality(Queued(e)') \in Nat /\ Cardinality(Queued(e)') <= Cardinality(Queued(e)) + 1
      BY <1>b, <3>3, OneMore
    <3>5. retries' = retries
      BY <2>1 DEF records
    <3> QED BY <1>a, <1>b, <1>c, <1>d, <2>2, <3>2, <3>4, <3>5 DEF WithinJobs, Owed
  <2>4. CASE e # rexec[r]
    <3>1. Queued(e)' = Queued(e)
      BY <2>1, <2>4 DEF Queued
    <3>2. Triggering(e)' = Triggering(e)
      BY <2>1 DEF Triggering, triggers
    <3> QED BY <1>c, <1>d, <2>2, <3>1, <3>2, WithinKept
  <2> QED BY <2>3, <2>4
<1> QED BY <1>3, <1>4, <1>5, <1>6, <1>7, <1>8, <1>9 DEF TriggerStep, RetryStep

LEMMA SlotKeepsWithin ==
  ASSUME RunInv, RunInv', [Next]_vars, IsFiniteSet(queue), NEW e \in Executions, NEW n \in Nodes,
         NoLoops, \A u \in Slots : RunClimbs(u),
         WithinJobs(e, n), NEW s \in Slots, SlotStep(s) \/ SlotFault(s)
  PROVE  WithinJobs(e, n)'
<1> USE DEF broker, triggers, retrying, history
<1>a. /\ TypeOK /\ HoldsAll /\ wpc \in [Slots -> WorkSteps \cup {"idle"}]
      /\ retries[e] \in Nat /\ redelivered[e] \in Nat /\ effects[e][n] \in Nat
  <2>1. TypeOK /\ HoldsAll
    BY DEF RunInv
  <2> QED BY <2>1 DEF TypeOK
<1>b. /\ Cardinality(Queued(e)) \in Nat /\ Cardinality(Ahead(e, n)) \in Nat
      /\ Cardinality(Publishing(e)) \in Nat /\ ToTrigger(e) \in {0, 1}
      /\ IsFiniteSet(Queued(e)) /\ IsFiniteSet(Ahead(e, n))
  BY CountsFinite
<1>c. UNCHANGED <<triggers, retrying, retries, redelivered>>
  BY DEF SlotStep, SlotFault, Deliver, Start, PushRunning, Execute, SetResult, Succeed, Fail,
         End, Count, Settle, records
<1>d. Publishing(e)' = Publishing(e) /\ ToTrigger(e)' = ToTrigger(e) /\ Triggering(e)' = Triggering(e)
  BY <1>c DEF Publishing, ToTrigger, Triggering
<1>1. CASE Deliver(s)
  <2>1. PICK m \in queue :
            /\ wpc[s] = "idle" /\ queue' = queue \ {m} /\ UNCHANGED <<effects, ran>>
            /\ wpc' = [wpc EXCEPT ![s] = "start"] /\ job' = [job EXCEPT ![s] = m]
    BY <1>1 DEF Deliver
  <2>2. Queued(e)' = Queued(e) \ {m}
    BY <2>1 DEF Queued
  <2>3. CASE m.exec = e
    <3>1. m \in Queued(e)
      BY <2>1, <2>3 DEF Queued
    <3>2. /\ Cardinality(Queued(e)') \in Nat
          /\ Cardinality(Queued(e)') + 1 <= Cardinality(Queued(e))
      BY <1>b, <2>2, <3>1, OneFewer
    <3>3. Ahead(e, n)' \subseteq Ahead(e, n) \cup {s}
      BY <1>a, <2>1 DEF Ahead, TypeOK
    <3>4. /\ Cardinality(Ahead(e, n)') \in Nat
          /\ Cardinality(Ahead(e, n)') <= Cardinality(Ahead(e, n)) + 1
      BY <1>b, <3>3, OneMore
    <3>5. effects' = effects /\ retries' = retries /\ redelivered' = redelivered
      BY <1>c, <2>1
    <3> QED BY <1>a, <1>b, <1>d, <3>2, <3>4, <3>5 DEF WithinJobs, Owed
  <2>4. CASE m.exec # e
    <3>1. Ahead(e, n)' \subseteq Ahead(e, n)
      BY <1>a, <2>1, <2>4 DEF Ahead, TypeOK
    <3> QED BY <1>d, <2>1, <2>2, <3>1, WithinKept
  <2> QED BY <2>3, <2>4
<1>2. ASSUME UNCHANGED <<job, queue, ran, effects>>, \A u \in Slots \ {s} : wpc'[u] = wpc[u],
             \/ wpc[s] \in {"start", "push", "execute", "set"}
             \/ wpc'[s] \notin {"start", "push", "execute", "set"}
      PROVE  WithinJobs(e, n)'
  <2>1. Ahead(e, n)' \subseteq Ahead(e, n)
    BY <1>2 DEF Ahead
  <2>2. Queued(e)' = Queued(e)
    BY <1>2 DEF Queued
  <2> QED BY <1>2, <1>d, <2>1, <2>2, WithinKept
<1>3. CASE Start(s) \/ PushRunning(s) \/ SetResult(s) \/ Succeed(s) \/ Fail(s) \/ Count(s)
  <2>1. UNCHANGED <<job, queue, ran, effects>> /\ \A u \in Slots \ {s} : wpc'[u] = wpc[u]
    BY <1>a, <1>3 DEF Start, PushRunning, SetResult, Succeed, Fail, End, Count, Stored
  <2>2. \/ wpc[s] \in {"start", "push", "execute", "set"}
        \/ wpc'[s] \notin {"start", "push", "execute", "set"}
    BY <1>a, <1>3 DEF Start, PushRunning, SetResult, Succeed, Fail, End, Count, Stored
  <2> QED BY <1>2, <2>1, <2>2
<1>4. CASE SlotFault(s)
  <2>1. UNCHANGED <<job, queue, ran, effects>> /\ \A u \in Slots \ {s} : wpc'[u] = wpc[u]
    BY <1>a, <1>4 DEF SlotFault
  <2>2. wpc'[s] \in {"fail", "nack"}
    BY <1>a, <1>4 DEF SlotFault
  <2> QED BY <1>2, <2>1, <2>2
<1>5. CASE Settle(s)
  <2>1. Vacated({s}) /\ queue' = queue /\ effects' = effects
    BY <1>5 DEF Settle, Requeued
  <2>2. Ahead(e, n)' \subseteq Ahead(e, n) /\ Queued(e)' = Queued(e)
    BY <2>1 DEF Vacated, Ahead, Queued
  <2> QED BY <1>d, <2>1, <2>2, WithinKept
<1>6. CASE Execute(s)
  <2> DEFINE x == job[s].exec
  <2>1. PICK o : ran' = [ran EXCEPT ![s] = Append(@, [node |-> node[s], status |-> o])]
    BY <1>6 DEF Execute
  <2>2. /\ wpc[s] = "execute" /\ wpc' = [wpc EXCEPT ![s] = "set"] /\ job' = job /\ queue' = queue
        /\ effects' = [effects EXCEPT ![x][node[s]] = @ + 1]
        /\ node[s] \in Nodes /\ x \in Executions /\ ran[s] \in Seq(NodeResults)
        /\ job[s].graph \in Graphs
    <3>1. wpc[s] = "execute"
      BY <1>6 DEF Execute
    <3>2. FollowsGraph(s) /\ job[s] \in Jobs
      BY <1>a, <3>1, JobOfSlot DEF RunInv
    <3>3. /\ node[s] \in Nodes /\ x \in Executions /\ job[s].graph \in Graphs
          /\ ran[s] \in Seq(NodeResults)
      BY <1>a, <3>1, <3>2 DEF FollowsGraph, TypeOK, Jobs
    <3> QED BY <1>6, <3>3 DEF Execute
  <2> DEFINE entry == [node |-> node[s], status |-> o]
  <2>3. /\ ran'[s] = Append(ran[s], entry) /\ \A u \in Slots \ {s} : ran'[u] = ran[u]
        /\ wpc'[s] = "set" /\ \A u \in Slots \ {s} : wpc'[u] = wpc[u]
    BY <1>a, <2>1, <2>2 DEF TypeOK
  <2>4. /\ Len(ran'[s]) = Len(ran[s]) + 1 /\ Len(ran[s]) \in Nat
        /\ ran'[s][Len(ran[s]) + 1].node = node[s]
        /\ \A k \in 1..Len(ran[s]) : ran'[s][k] = ran[s][k]
    <3>1. /\ Len(Append(ran[s], entry)) = Len(ran[s]) + 1
          /\ Append(ran[s], entry)[Len(ran[s]) + 1] = entry
          /\ \A k \in 1..Len(ran[s]) : Append(ran[s], entry)[k] = ran[s][k]
          /\ Len(ran[s]) \in Nat /\ entry.node = node[s]
      BY <2>2
    <3> QED BY <2>3, <3>1
  <2>5. Ahead(e, n)' \subseteq Ahead(e, n)
    <3> SUFFICES ASSUME NEW u \in Slots, u \in Ahead(e, n)' PROVE u \in Ahead(e, n)
      BY DEF Ahead
    <3>1. CASE u = s
      <4>1. job[s].exec = e /\ \A k \in 1..Len(ran'[s]) : ran'[s][k].node # n
        BY <2>2, <3>1 DEF Ahead
      <4>2. \A k \in 1..Len(ran[s]) : ran[s][k].node # n
        BY <2>4, <4>1
      <4> QED BY <2>2, <3>1, <4>1, <4>2 DEF Ahead
    <3>2. CASE u # s
      BY <2>2, <2>3, <3>2 DEF Ahead
    <3> QED BY <3>1, <3>2
  <2>6. Queued(e)' = Queued(e)
    BY <2>2 DEF Queued
  <2>7. CASE e = x /\ n = node[s]
    <3>1. effects'[e][n] = effects[e][n] + 1
      BY <1>a, <2>2, <2>7 DEF TypeOK
    <3>2. s \in Ahead(e, n)
      <4>1. ASSUME NEW k \in 1..Len(ran[s]) PROVE ran[s][k].node # n
        <5> DEFINE rank == RankOf(job[s].graph)
        <5>1. rank[ran[s][k].node] < rank[n]
          BY <2>2, <2>7 DEF RunClimbs
        <5>2. rank[n] \in Int
          BY <2>2, RankClimbs
        <5> QED BY <5>1, <5>2
      <4> QED BY <2>2, <2>7, <4>1 DEF Ahead
    <3>3. s \notin Ahead(e, n)'
      BY <2>4, <2>7 DEF Ahead
    <3>4. Ahead(e, n)' \subseteq Ahead(e, n) \ {s}
      BY <2>5, <3>3
    <3>5. /\ Cardinality(Ahead(e, n)') \in Nat
          /\ Cardinality(Ahead(e, n)') + 1 <= Cardinality(Ahead(e, n))
      BY <1>b, <3>2, <3>4, OneFewer
    <3>6. retries' = retries /\ redelivered' = redelivered
      BY <1>c
    <3> QED BY <1>a, <1>b, <1>d, <2>6, <3>1, <3>5, <3>6 DEF WithinJobs, Owed
  <2>8. CASE ~(e = x /\ n = node[s])
    <3>1. effects'[e][n] = effects[e][n]
      BY <1>a, <2>2, <2>8 DEF TypeOK
    <3> QED BY <1>d, <2>5, <2>6, <3>1, WithinKept
  <2> QED BY <2>7, <2>8
<1> QED BY <1>1, <1>3, <1>4, <1>5, <1>6 DEF SlotStep

LEMMA BrokerKeepsWithin ==
  ASSUME RunInv, RunInv', [Next]_vars, IsFiniteSet(queue), NEW e \in Executions, NEW n \in Nodes,
         WithinJobs(e, n),
         \/ \E p \in Procs : ProcessStep(p)
         \/ ExpireJob \/ UNCHANGED vars
  PROVE  WithinJobs(e, n)'
<1> USE DEF broker, triggers, retrying, history, records
<1>a. /\ TypeOK /\ HoldsAll /\ retries[e] \in Nat /\ redelivered[e] \in Nat
      /\ effects[e][n] \in Nat
  <2>1. TypeOK /\ HoldsAll
    BY DEF RunInv
  <2> QED BY <2>1 DEF TypeOK
<1>b. /\ Cardinality(Queued(e)) \in Nat /\ Cardinality(Ahead(e, n)) \in Nat
      /\ Cardinality(Publishing(e)) \in Nat /\ ToTrigger(e) \in {0, 1}
      /\ IsFiniteSet(Queued(e)) /\ IsFiniteSet(Ahead(e, n))
  BY CountsFinite
<1>c. UNCHANGED <<triggers, retrying, retries, effects>>
  BY DEF ProcessStep, LoseConnection, Disconnect, Exit, Crash, Restart, ExpireJob, vars
<1>d. Publishing(e)' = Publishing(e) /\ ToTrigger(e)' = ToTrigger(e) /\ Triggering(e)' = Triggering(e)
  BY <1>c DEF Publishing, ToTrigger, Triggering
<1>1. ASSUME UNCHANGED slots, queue' \subseteq queue PROVE WithinJobs(e, n)'
  <2>1. Ahead(e, n)' = Ahead(e, n) /\ Queued(e)' \subseteq Queued(e)
    BY <1>1 DEF Ahead, Queued, slots
  <2> QED BY <1>c, <1>d, <2>1, WithinKept
<1>2. ASSUME NEW p \in Procs, PutBack(p), UNCHANGED slots \/ Vacated(Busy(p))
      PROVE  WithinJobs(e, n)'
  <2> DEFINE back == {m \in Unacked(p) : m.exec = e}
  <2>1. IsFiniteSet(back) /\ Cardinality(back) \in Nat
    BY <1>a, UnackedAreJobs
  <2>2. redelivered'[e] = redelivered[e] + Cardinality(back)
    BY <1>2 DEF PutBack
  <2>3. Queued(e)' = Queued(e) \cup back
    BY <1>2 DEF PutBack, Queued
  <2>4. /\ Cardinality(Queued(e)') \in Nat
        /\ Cardinality(Queued(e)') <= Cardinality(Queued(e)) + Cardinality(back)
    <3>1. /\ IsFiniteSet(Queued(e) \cup back)
          /\ Cardinality(Queued(e) \cup back) =
                Cardinality(Queued(e)) + Cardinality(back) - Cardinality(Queued(e) \cap back)
      BY <1>b, <2>1, FS_Union
    <3>2. Cardinality(Queued(e) \cap back) \in Nat
      BY <1>b, <2>1, FS_Intersection, FS_CardinalityType
    <3>3. Cardinality(Queued(e) \cup back) \in Nat
      BY <3>1, FS_CardinalityType
    <3> HIDE DEF back
    <3> QED BY <1>b, <2>1, <2>3, <3>1, <3>2, <3>3
  <2>5. Ahead(e, n)' \subseteq Ahead(e, n)
    BY <1>2 DEF Ahead, slots, Vacated
  <2>6. Cardinality(Ahead(e, n)') \in Nat /\ Cardinality(Ahead(e, n)') <= Cardinality(Ahead(e, n))
    BY <1>b, <2>5, FewerOf
  <2> HIDE DEF back
  <2> QED BY <1>a, <1>b, <1>c, <1>d, <2>1, <2>2, <2>4, <2>6 DEF WithinJobs, Owed
<1>3. ASSUME NEW p \in Procs, LoseConnection(p) \/ Disconnect(p) \/ Exit(p) \/ Crash(p)
      PROVE  WithinJobs(e, n)'
  BY <1>2, <1>3 DEF LoseConnection, Disconnect, Exit, Crash, Restart
<1>5. CASE ExpireJob \/ UNCHANGED vars
  BY <1>1, <1>5 DEF ExpireJob, vars
<1> QED BY <1>3, <1>5 DEF ProcessStep

LEMMA EffectInvNext == RunInv /\ EffectInv /\ [Next]_vars => EffectInv'
<1> SUFFICES ASSUME RunInv, EffectInv, [Next]_vars PROVE EffectInv'
  OBVIOUS
<1>1. RunInv' /\ IsFiniteSet(queue) /\ IsFiniteSet(queue')
  BY RunInvNext, QueueStaysFinite DEF EffectInv
<1>2. ASSUME NoLoops, NEW s \in Slots PROVE RunClimbs(s)'
  BY <1>2, ClimbsNext DEF EffectInv
<1>3. ASSUME NoLoops, NEW e \in Executions, NEW n \in Nodes PROVE WithinJobs(e, n)'
  <2>1. WithinJobs(e, n) /\ \A u \in Slots : RunClimbs(u)
    BY <1>3 DEF EffectInv
  <2> QED BY <1>1, <1>3, <2>1, ServiceKeepsWithin, SlotKeepsWithin, BrokerKeepsWithin DEF Next
<1> QED BY <1>1, <1>2, <1>3 DEF EffectInv, NoLoops

LEMMA EffectInvInit == Init => EffectInv
<1> SUFFICES ASSUME Init PROVE EffectInv
  OBVIOUS
<1>1. IsFiniteSet({}) /\ Cardinality({}) = 0
  BY FS_EmptySet
<1>2. ASSUME NEW s \in Slots PROVE RunClimbs(s)
  BY DEF Init, RunClimbs
<1>3. ASSUME NEW e \in Executions, NEW n \in Nodes PROVE WithinJobs(e, n)
  <2>1. Queued(e) = {} /\ Ahead(e, n) = {} /\ Publishing(e) = {} /\ ToTrigger(e) = 1
    BY DEF Init, Queued, Ahead, Publishing, ToTrigger, Triggering
  <2>2. effects[e][n] = 0 /\ retries[e] = 0 /\ redelivered[e] = 0
    BY DEF Init
  <2> QED BY <1>1, <2>1, <2>2 DEF WithinJobs, Owed
<1> QED BY <1>1, <1>2, <1>3 DEF Init, EffectInv

LEMMA EffectsWithinJobs == RunInv /\ EffectInv => EffectsBounded
<1> SUFFICES ASSUME RunInv, EffectInv, NoLoops, NEW e \in Executions, NEW n \in Nodes
             PROVE  effects[e][n] <= 1 + retries[e] + redelivered[e]
  BY DEF EffectsBounded
<1>1. /\ Cardinality(Queued(e)) \in Nat /\ Cardinality(Ahead(e, n)) \in Nat
      /\ Cardinality(Publishing(e)) \in Nat /\ ToTrigger(e) \in {0, 1}
  BY CountsFinite DEF EffectInv
<1>2. retries[e] \in Nat /\ redelivered[e] \in Nat /\ effects[e][n] \in Nat
  BY DEF RunInv, TypeOK
<1> QED BY <1>1, <1>2 DEF EffectInv, WithinJobs, Owed

(* Jobs are not claimed, yet neither runs nor what nodes do multiply: a    *)
(* node of a graph without loops is executed once for the trigger, once    *)
(* per retry and once per copy the broker puts back, and one run of an     *)
(* execution is at work at a time (workflow.worker.js, executeWorkflow).   *)
THEOREM RunsAreSound == Spec => []RunsSound
<1>1. RunInv /\ EffectInv /\ LoneInv => RunsSound
  BY EffectsWithinJobs, LoneRunIsSole DEF RunsSound, RunInv
<1> QED BY <1>1, RunInvariant, EffectInvInit, EffectInvNext, LoneInvInit, LoneInvNext, PTL DEF Spec
=============================================================================
