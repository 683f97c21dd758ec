--------------------------- MODULE WorkflowService ---------------------------
(***************************************************************************)
(* workflow.service.js and the state it shares with the workflow worker:   *)
(* one workflow document, its executions and the workflow_queue.  Calls    *)
(* create, change, trigger and delete the workflow and retry its failed    *)
(* executions, each await a step of its own.                               *)
(***************************************************************************)
EXTENDS Naturals, Sequences, FiniteSets, FiniteSetsExt

CONSTANTS
    Executions,  \* executions that may be created, each by its own trigger call
    Retriers,    \* clients that retry executions
    Nodes,       \* node ids
    TypeOf,      \* the type of each node: "action", "condition" or "delay"
    Graphs,      \* what the workflow's nodes may be: [first, next] records
    MaxRetries,  \* maxRetries of an execution
    Slots,       \* jobs the workers handle at once (prefetch of each process)
    Procs,       \* worker processes
    ProcOf,      \* the process of each slot
    Unsteady,    \* bound: processes that are stopped, die or lose their connection
    Nil,
    Budget,      \* bound on each kind of event of the surroundings ...
    Total        \* ... and on all of them together

\* fault: a store call rejects or a trigger or retry is cut short.
\* crash: a worker process dies or is told to stop.   conn: a worker loses its
\* connection.   expire: a job reaches the queue's TTL.   edit: somebody
\* changes, disables or deletes the workflow.
Kinds == {"fault", "crash", "conn", "expire", "edit"}

\* A message: the nodes its call read, and what tells it apart from others.
Jobs == [exec : Executions, graph : Graphs, by : Retriers \cup {Nil}, attempt : Nat]
Documents == [enabled : BOOLEAN, graph : Graphs]

ASSUME WorkflowAssumption ==
    /\ IsFiniteSet(Retriers) /\ Retriers # {} /\ IsFiniteSet(Slots)
    /\ \A g \in Graphs : /\ g.first \in Nodes \cup {Nil}
                         /\ g.next \in [Nodes -> SUBSET (Nodes \cup {Nil}) \ {{}}]
    /\ TypeOf \in [Nodes -> {"action", "condition", "delay"}]
    /\ MaxRetries \in Nat
    /\ ProcOf \in [Slots -> Procs]
    /\ Nil \notin Nodes \cup Executions \cup Retriers \cup Graphs \cup Documents \cup Jobs
    /\ Budget \in [Kinds -> Nat] /\ Total \in Nat

VARIABLES
    workflow,            \* the document
    status, results, retries,  \* the executions' documents
    queue, dlq,          \* workflow_queue and its dead letters
    epc, egraph,         \* trigger calls: next step, nodes they read
    rpc, rexec, rgraph,  \* retry calls: next step, their execution, nodes read
    wpc, job, node, ran, \* slots: next step, message, node, nodeResults so far
    channel, stopping,   \* processes: their channel is open; they are shutting down
    spent,
    effects,             \* history: how often a node of an execution was executed
    redelivered,         \* history: copies of its jobs the broker put back
    raced,               \* history: executions two retries passed the check of
    abandoned            \* history: executions whose handler died after the broker
                         \* had put their job back

records  == <<status, results, retries>>
broker   == <<queue, dlq>>
triggers == <<epc, egraph>>
retrying == <<rpc, rexec, rgraph>>
slots    == <<wpc, job, node, ran>>
procs    == <<channel, stopping>>
history  == <<effects, redelivered, raced, abandoned>>
vars == <<workflow, records, broker, triggers, retrying, slots, procs, spent, history>>

Spend(kind) == /\ spent[kind] < Budget[kind]
               /\ MapThenSumSet(LAMBDA k : spent[k], Kinds) < Total
               /\ spent' = [spent EXCEPT ![kind] = @ + 1]

-----------------------------------------------------------------------------
(* The workflow document: each call is one atomic update *)

Create ==
    /\ workflow = Nil /\ \A e \in Executions : status[e] = "absent"
    /\ workflow' \in Documents
    /\ UNCHANGED <<records, broker, triggers, retrying, slots, procs, spent, history>>

\* updateWorkflow and setWorkflowEnabled: findOneAndUpdate.
Update ==
    /\ workflow # Nil
    /\ workflow' \in Documents \ {workflow}
    /\ Spend("edit")
    /\ UNCHANGED <<records, broker, triggers, retrying, slots, procs, history>>

\* deleteWorkflow leaves the executions and their jobs alone.
Delete ==
    /\ workflow # Nil
    /\ workflow' = Nil
    /\ Spend("edit")
    /\ UNCHANGED <<records, broker, triggers, retrying, slots, procs, history>>

-----------------------------------------------------------------------------
(* triggerWorkflow *)

\* getWorkflow; a disabled one is refused.
ReadEnabled(e) ==
    /\ epc[e] = "idle"
    /\ workflow # Nil /\ workflow.enabled
    /\ epc' = [epc EXCEPT ![e] = "create"]
    /\ egraph' = [egraph EXCEPT ![e] = workflow.graph]
    /\ UNCHANGED <<workflow, records, broker, retrying, slots, procs, spent, history>>

CreateExecution(e) ==
    /\ epc[e] = "create"
    /\ epc' = [epc EXCEPT ![e] = "publish"]
    /\ status' = [status EXCEPT ![e] = "queued"]
    /\ UNCHANGED <<workflow, results, retries, broker, egraph, retrying, slots,
                   procs, spent, history>>

\* sendToQueue; that it may return false is ignored.
PublishExecution(e) ==
    /\ epc[e] = "publish"
    /\ epc' = [epc EXCEPT ![e] = "done"]
    /\ egraph' = [egraph EXCEPT ![e] = Nil]
    /\ queue' = queue \cup {[exec |-> e, graph |-> egraph[e], by |-> Nil, attempt |-> 0]}
    /\ UNCHANGED <<workflow, records, dlq, retrying, slots, procs, spent, history>>

-----------------------------------------------------------------------------
(* retryExecution *)

CanBeRetried_Ended(e) == status[e] \in {"running", "failed"} /\ retries[e] < MaxRetries
CanBeRetried_OneMore(e) == status[e] = "failed" /\ retries[e] <= MaxRetries
CanBeRetried(e) == status[e] = "failed" /\ retries[e] < MaxRetries

\* Retrier r has read execution e and has yet to update it.
Between(r, e) == rexec[r] = e /\ rpc[r] \in {"workflow", "update"}

ReadFailed(r, e) ==
    /\ rpc[r] = "idle"
    /\ CanBeRetried(e)
    /\ rpc' = [rpc EXCEPT ![r] = "workflow"]
    /\ rexec' = [rexec EXCEPT ![r] = e]
    /\ raced' = IF \E q \in Retriers : Between(q, e) THEN raced \cup {e} ELSE raced
    /\ UNCHANGED <<workflow, records, broker, triggers, rgraph, slots, procs,
                   spent, effects, redelivered, abandoned>>

LeaveRetry(r) ==
    /\ rpc' = [rpc EXCEPT ![r] = "idle"]
    /\ rexec' = [rexec EXCEPT ![r] = Nil]
    /\ rgraph' = [rgraph EXCEPT ![r] = Nil]

\* findById: the nodes as they are now, enabled or not; a deleted workflow
\* ends the retry.
ReadWorkflow(r) ==
    /\ rpc[r] = "workflow"
    /\ \/ workflow = Nil /\ LeaveRetry(r)
       \/ /\ workflow # Nil
          /\ rpc' = [rpc EXCEPT ![r] = "update"]
          /\ rgraph' = [rgraph EXCEPT ![r] = workflow.graph]
          /\ UNCHANGED rexec
    /\ UNCHANGED <<workflow, records, broker, triggers, slots, procs, spent, history>>

\* findByIdAndUpdate, whatever the status is by now; nodeResults stay.
Requeue(r) ==
    /\ rpc[r] = "update"
    /\ rpc' = [rpc EXCEPT ![r] = "publish"]
    /\ status' = [status EXCEPT ![rexec[r]] = "queued"]
    /\ retries' = [retries EXCEPT ![rexec[r]] = @ + 1]
    /\ UNCHANGED <<workflow, results, broker, triggers, rexec, rgraph, slots,
                   procs, spent, history>>

\* Retries that raced publish one message each, all after the last increment.
PublishRetry(r) ==
    /\ rpc[r] = "publish"
    /\ queue' = queue \cup {[exec |-> rexec[r], graph |-> rgraph[r], by |-> r,
                             attempt |-> retries[rexec[r]]]}
    /\ LeaveRetry(r)
    /\ UNCHANGED <<workflow, records, dlq, triggers, slots, procs, spent, history>>

\* A call of the service is cut short: a store call or sendToQueue throws, or
\* the instance dies.
CallStops ==
    /\ \/ \E e \in Executions :
             /\ epc[e] \in {"create", "publish"}
             /\ epc' = [epc EXCEPT ![e] = "done"]
             /\ egraph' = [egraph EXCEPT ![e] = Nil]
             /\ UNCHANGED retrying
       \/ \E r \in Retriers :
             rpc[r] # "idle" /\ LeaveRetry(r) /\ UNCHANGED triggers
    /\ Spend("fault")
    /\ UNCHANGED <<workflow, records, broker, slots, procs, history>>

TriggerStep(e) == ReadEnabled(e) \/ CreateExecution(e) \/ PublishExecution(e)
RetryStep(r) == ReadWorkflow(r) \/ Requeue(r) \/ PublishRetry(r)
=============================================================================
