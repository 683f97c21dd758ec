----------------------------- MODULE Workflows -----------------------------
(***************************************************************************)
(* workflow.worker.js: processes that take jobs from the workflow_queue    *)
(* and execute the nodes one after the other, and the whole system.        *)
(* Everything the processes know of an execution is in the job; nothing    *)
(* claims the execution.                                                   *)
(***************************************************************************)
EXTENDS WorkflowService

Outcomes == {"running", "success", "failed"}
NodeResults == [node : Nodes, status : Outcomes]

\* Where a slot is in the try block of executeWorkflow.
InTry == {"push", "execute", "set", "succeed", "count"}
WorkSteps == InTry \cup {"start", "fail", "note", "ack", "nack"}

Open(p) == channel[p]

\* The store call of step `from' goes through and the slot goes on at `to'; or
\* it takes effect and rejects all the same, which leads to `catch'.
Stored(s, from, to, catch) ==
    /\ wpc[s] = from
    /\ \/ wpc' = [wpc EXCEPT ![s] = to] /\ UNCHANGED spent
       \/ wpc' = [wpc EXCEPT ![s] = catch] /\ Spend("fault")

Deliver(s) ==
    \E m \in queue :
       /\ wpc[s] = "idle" /\ Open(ProcOf[s])
       /\ queue' = queue \ {m}
       /\ wpc' = [wpc EXCEPT ![s] = "start"]
       /\ job' = [job EXCEPT ![s] = m]
       /\ node' = [node EXCEPT ![s] = m.graph.first]
       /\ UNCHANGED <<workflow, records, dlq, triggers, retrying, ran, procs,
                      spent, history>>

\* The step that follows once the next node is known: none is left, or its
\* entry is pushed.
Onward(n) == IF n = Nil THEN "succeed" ELSE "push"

\* "running", outside the try block: a rejection only dead-letters the job.
Start(s) ==
    /\ Stored(s, "start", Onward(node[s]), "nack")
    /\ status' = [status EXCEPT ![job[s].exec] = "running"]
    /\ UNCHANGED <<workflow, results, retries, broker, triggers, retrying, job,
                   node, ran, procs, history>>

PushRunning(s) ==
    /\ Stored(s, "push", "execute", "fail")
    /\ results' = [results EXCEPT ![job[s].exec] =
                      Append(@, [node |-> node[s], status |-> "running"])]
    /\ UNCHANGED <<workflow, status, retries, broker, triggers, retrying, job,
                   node, ran, procs, history>>

\* A delay and a condition cannot fail; an agent, a message, a mail or a
\* request can, with or without its effect.
NodeOutcomes(n) == IF TypeOf[n] = "action" THEN {"success", "failed"} ELSE {"success"}

Execute(s) ==
    /\ wpc[s] = "execute"
    /\ wpc' = [wpc EXCEPT ![s] = "set"]
    /\ effects' = [effects EXCEPT ![job[s].exec][node[s]] = @ + 1]
    /\ \E o \in NodeOutcomes(node[s]) :
          ran' = [ran EXCEPT ![s] = Append(@, [node |-> node[s], status |-> o])]
    /\ UNCHANGED <<workflow, records, broker, triggers, retrying, job, node,
                   procs, spent, redelivered, raced, abandoned>>

\* $set of nodeResults.<index>: beyond the end the array is filled with null.
SetAt(seq, i, v) ==
    [k \in 1..(IF i > Len(seq) THEN i ELSE Len(seq)) |->
        IF k = i THEN v ELSE IF k <= Len(seq) THEN seq[k] ELSE Nil]

LastRan(s) == ran[s][Len(ran[s])]

\* The index is that of this run's own list.  Then the next node: a condition
\* chooses between two.
SetResult(s) ==
    /\ wpc[s] = "set"
    /\ \E n \in job[s].graph.next[node[s]] :
          LET next == IF LastRan(s).status = "failed" THEN "fail" ELSE Onward(n) IN
          /\ Stored(s, "set", next, "fail")
          /\ node' = [node EXCEPT ![s] = n]
    /\ results' = [results EXCEPT ![job[s].exec] = SetAt(@, Len(ran[s]), LastRan(s))]
    /\ UNCHANGED <<workflow, status, retries, broker, triggers, retrying, job,
                   ran, procs, history>>

\* The last update replaces nodeResults by this run's list.
FinalResults_Kept(old, own) == old
FinalResults(old, own) == own

End(s, from, outcome, to, catch) ==
    LET e == job[s].exec IN
    /\ Stored(s, from, to, catch)
    /\ status' = [status EXCEPT ![e] = outcome]
    /\ results' = [results EXCEPT ![e] = FinalResults(@, ran[s])]
    /\ UNCHANGED <<workflow, retries, broker, triggers, retrying, job, node,
                   ran, procs, history>>

Succeed(s) == End(s, "succeed", "success", "count", "fail")

\* The catch block, also of a rejection after the success was stored.
Fail(s) == End(s, "fail", "failed", "note", "nack")

\* The workflow's statistics, which nothing reads.
Count(s) ==
    /\ \/ Stored(s, "count", "ack", "fail")
       \/ Stored(s, "note", "nack", "nack")
    /\ UNCHANGED <<workflow, records, broker, triggers, retrying, job, node,
                   ran, procs, history>>

\* A store call rejects without effect.
SlotFault(s) ==
    /\ wpc[s] \in WorkSteps \ {"execute", "ack", "nack"}
    /\ wpc' = [wpc EXCEPT ![s] = IF @ \in InTry THEN "fail" ELSE "nack"]
    /\ Spend("fault")
    /\ UNCHANGED <<workflow, records, broker, triggers, retrying, job, node,
                   ran, procs, history>>

Vacated(S) ==
    /\ wpc' = [s \in Slots |-> IF s \in S THEN "idle" ELSE wpc[s]]
    /\ job' = [s \in Slots |-> IF s \in S THEN Nil ELSE job[s]]
    /\ node' = [s \in Slots |-> IF s \in S THEN Nil ELSE node[s]]
    /\ ran' = [s \in Slots |-> IF s \in S THEN <<>> ELSE ran[s]]

\* nack(msg, false, false) dead-letters the message, whatever its retry count.
Requeued(m) == {}

\* ack, or nack of a failed job.  On a closed channel both throw: the rejection
\* nobody handles shuts the process down.
Settle(s) ==
    LET p == ProcOf[s] IN
    /\ wpc[s] \in {"ack", "nack"}
    /\ IF ~Open(p) THEN stopping' = stopping \cup {p} /\ UNCHANGED broker
       ELSE /\ UNCHANGED stopping
            /\ IF wpc[s] = "ack" THEN UNCHANGED broker
               ELSE /\ dlq' = dlq \cup {job[s]}
                    /\ queue' = queue \cup Requeued(job[s])
    /\ Vacated({s})
    /\ UNCHANGED <<workflow, records, triggers, retrying, channel, spent, history>>

-----------------------------------------------------------------------------
(* Processes and the broker *)

Busy(p) == {s \in Slots : ProcOf[s] = p /\ wpc[s] # "idle"}

\* noAck: false: the broker keeps what process p has not acknowledged ...
Unacked_None(p) == {}
Unacked(p) == IF Open(p) THEN {job[s] : s \in Busy(p)} ELSE {}

\* ... and puts it back.
PutBack(p) ==
    /\ queue' = queue \cup Unacked(p)
    /\ redelivered' = [e \in Executions |->
          redelivered[e] + Cardinality({m \in Unacked(p) : m.exec = e})]

\* The connection drops; what is under way runs on, and nothing subscribes the
\* process again on the new connection.
LoseConnection(p) ==
    /\ Open(p) /\ p \in Unsteady
    /\ Spend("conn")
    /\ PutBack(p)
    /\ channel' = [channel EXCEPT ![p] = FALSE]
    /\ UNCHANGED <<workflow, records, dlq, triggers, retrying, slots, stopping,
                   effects, raced, abandoned>>

\* shutdown(), after SIGTERM and the five seconds in which nothing changes: it
\* closes the channel, and the broker puts back what is not settled; the handlers
\* go on while Redis and MongoDB are being disconnected, which may reject a store
\* call of theirs (a fault).
Disconnect(p) ==
    /\ p \in Unsteady \ stopping
    /\ Spend("crash")
    /\ stopping' = stopping \cup {p}
    /\ PutBack(p)
    /\ channel' = [channel EXCEPT ![p] = FALSE]
    /\ UNCHANGED <<workflow, records, dlq, triggers, retrying, slots,
                   effects, raced, abandoned>>

\* What the handlers of process p were at has been put back before.
Disowned(p) == IF Open(p) THEN {} ELSE {job[s].exec : s \in Busy(p)}

Restart(p) ==
    /\ PutBack(p)
    /\ abandoned' = abandoned \cup Disowned(p)
    /\ Vacated(Busy(p))
    /\ channel' = [channel EXCEPT ![p] = TRUE]
    /\ stopping' = stopping \ {p}
    /\ UNCHANGED <<workflow, records, dlq, triggers, retrying, effects, raced>>

\* ... then it exits, whatever is still under way, and is started again.
Exit(p) == p \in stopping /\ Restart(p) /\ UNCHANGED spent

Crash(p) == p \in Unsteady /\ Spend("crash") /\ Restart(p)

ExpireJob ==
    \E m \in queue :
       /\ Spend("expire")
       /\ queue' = queue \ {m}
       /\ dlq' = dlq \cup {m}
       /\ UNCHANGED <<workflow, records, triggers, retrying, slots, procs, history>>

-----------------------------------------------------------------------------
SlotStep(s) ==
    \/ Deliver(s) \/ Start(s) \/ PushRunning(s) \/ Execute(s) \/ SetResult(s)
    \/ Succeed(s) \/ Fail(s) \/ Count(s) \/ Settle(s)
ProcessStep(p) ==
    LoseConnection(p) \/ Disconnect(p) \/ Exit(p) \/ Crash(p)

Init ==
    /\ workflow = Nil
    /\ status = [e \in Executions |-> "absent"]
    /\ results = [e \in Executions |-> <<>>]
    /\ retries = [e \in Executions |-> 0]
    /\ queue = {} /\ dlq = {}
    /\ epc = [e \in Executions |-> "idle"]
    /\ egraph = [e \in Executions |-> Nil]
    /\ rpc = [r \in Retriers |-> "idle"]
    /\ rexec = [r \in Retriers |-> Nil]
    /\ rgraph = [r \in Retriers |-> Nil]
    /\ wpc = [s \in Slots |-> "idle"]
    /\ job = [s \in Slots |-> Nil]
    /\ node = [s \in Slots |-> Nil]
    /\ ran = [s \in Slots |-> <<>>]
    /\ channel = [p \in Procs |-> TRUE]
    /\ stopping = {}
    /\ spent = [kind \in Kinds |-> 0]
    /\ effects = [e \in Executions |-> [n \in Nodes |-> 0]]
    /\ redelivered = [e \in Executions |-> 0]
    /\ raced = {} /\ abandoned = {}

Next ==
    \/ Create \/ Update \/ Delete
    \/ \E e \in Executions : TriggerStep(e)
    \/ \E r \in Retriers : RetryStep(r) \/ \E e \in Executions : ReadFailed(r, e)
    \/ CallStops
    \/ \E s \in Slots : SlotStep(s) \/ SlotFault(s)
    \/ \E p \in Procs : ProcessStep(p)
    \/ ExpireJob

Spec == Init /\ [][Next]_vars

\* Fairness of the event loops, of the broker's delivery and of the supervisor
\* that restarts a process that exited.
Fairness ==
    /\ \A e \in Executions : WF_vars(CreateExecution(e) \/ PublishExecution(e))
    /\ \A r \in Retriers : WF_vars(RetryStep(r))
    /\ \A s \in Slots : WF_vars(SlotStep(s))
    /\ \A p \in Procs : WF_vars(Exit(p))

FairSpec == Spec /\ Fairness

-----------------------------------------------------------------------------
(* Properties *)

\* Every variable keeps its type: among others, a slot never executes a node
\* that does not exist.
TypeOK ==
    /\ workflow \in Documents \cup {Nil}
    /\ status \in [Executions -> {"absent", "queued", "running", "success", "failed"}]
    /\ results \in [Executions -> Seq(NodeResults \cup {Nil})]
    /\ retries \in [Executions -> Nat]
    /\ queue \subseteq Jobs /\ dlq \subseteq Jobs
    /\ epc \in [Executions -> {"idle", "create", "publish", "done"}]
    /\ egraph \in [Executions -> Graphs \cup {Nil}]
    /\ rpc \in [Retriers -> {"idle", "workflow", "update", "publish"}]
    /\ rexec \in [Retriers -> Executions \cup {Nil}]
    /\ rgraph \in [Retriers -> Graphs \cup {Nil}]
    /\ wpc \in [Slots -> WorkSteps \cup {"idle"}]
    /\ job \in [Slots -> Jobs \cup {Nil}]
    /\ node \in [Slots -> Nodes \cup {Nil}]
    /\ ran \in [Slots -> Seq(NodeResults)]
    /\ channel \in [Procs -> BOOLEAN]
    /\ stopping \in SUBSET Procs
    /\ spent \in [Kinds -> Nat]
    /\ effects \in [Executions -> [Nodes -> Nat]]
    /\ redelivered \in [Executions -> Nat]
    /\ raced \in SUBSET Executions /\ abandoned \in SUBSET Executions

\* "Maximum retry attempts reached": the check and the increment are two calls,
\* so clients that retry together may each get one retry in, but no more.
RetriesBounded ==
    \A e \in Executions : retries[e] + 1 <= MaxRetries + Cardinality(Retriers)

\* Nothing rejects nodes that lead back to one another: a run of such a graph
\* never ends unless a condition gets it out.
Climbs(rank, g) == \A n \in Nodes : \A m \in g.next[n] \ {Nil} : rank[n] < rank[m]
Ranks == [Nodes -> 0..Cardinality(Nodes)]
NoLoops == \A g \in Graphs : \E rank \in Ranks : Climbs(rank, g)

\* A node acts on the outside world once per job of its execution: once for the
\* trigger, once for each retry, and once more for each copy the broker put
\* back, the run starting over from the first node every time.
EffectsBounded ==
    NoLoops =>
       \A e \in Executions, n \in Nodes :
          effects[e][n] <= 1 + retries[e] + redelivered[e]

\* Among the processes that are connected to the broker, only one runs an
\* execution at a time, though nothing claims it: two overlap only if two retries
\* raced, or if one of them follows a failure whose job was not given up, as a
\* store rejected or the job was put back.  A process that lost its connection, or
\* that closed it as it shuts down, is another matter: it goes on with a job that
\* somebody else is given meanwhile, and both execute the nodes.
AtWork(s, e) == wpc[s] \in InTry \ {"count"} /\ job[s].exec = e /\ Open(ProcOf[s])
SoleRun ==
    \A e \in Executions :
       \/ retries[e] = 0
       \/ e \notin raced /\ spent["fault"] = 0 /\ redelivered[e] = 0
       => Cardinality({s \in Slots : AtWork(s, e)}) <= 1

\* Jobs are not claimed, yet they do not multiply: neither runs nor the acts of
\* nodes do, and no run leaves the nodes it was given.
RunsSound == TypeOK /\ SoleRun /\ EffectsBounded

\* Once no job of an execution is left, its record is that of one run: the
\* entries an earlier run left behind, or a concurrent one mixed in, are gone.
\* Only a process that is cut off from the broker, by a lost connection or as it
\* shuts down, may still write to the record after another one has finished the
\* job that was put back, and exit before its own run ends.
NoJob(e) == /\ \A m \in queue : m.exec # e
            /\ \A s \in Slots : job[s] # Nil => job[s].exec # e
Undisturbed(e) == spent["fault"] = 0 /\ spent["expire"] = 0 /\ e \notin abandoned
IsPath(seq) ==
    \E g \in Graphs :
       /\ seq[1].node = g.first
       /\ \A k \in 1..(Len(seq) - 1) : seq[k + 1].node \in g.next[seq[k].node]
TellsTheRun(e) ==
    \/ results[e] = <<>> /\ status[e] = "success"
    \/ /\ results[e] # <<>> /\ IsPath(results[e])
       /\ \A k \in 1..Len(results[e]) :
             results[e][k].status = IF k = Len(results[e]) THEN status[e] ELSE "success"
Ended(e) == status[e] \in {"success", "failed"}
ResultsTellTheRun ==
    \A e \in Executions : NoJob(e) /\ Undisturbed(e) /\ Ended(e) => TellsTheRun(e)

\* Every execution that was queued ends if no node leads back to an earlier one,
\* although its worker may be stopped, crash or lose its connection: a store call
\* that fails, a job that waits for an hour, workers none of which is connected
\* and a handler that exits after its job was put back, its last write being the
\* record's, are the only reasons why it might not.
ExecutionsEnd ==
    NoLoops => \A e \in Executions :
       status[e] \in {"queued", "running"} ~>
          Ended(e) \/ ~Undisturbed(e) \/ \A p \in Procs : ~Open(p)

\* The inductive invariant behind TypeOK and ResultsTellTheRun: calls and slots
\* hold what their next step needs, the run of a slot follows its job's graph
\* and went well up to its last node ...
HoldsAll ==
    /\ \A e \in Executions : epc[e] \in {"create", "publish"} => egraph[e] # Nil
    /\ \A r \in Retriers : rpc[r] # "idle" => rexec[r] # Nil
    /\ \A r \in Retriers : rpc[r] \in {"update", "publish"} => rgraph[r] # Nil
    /\ \A s \in Slots : wpc[s] = "idle" <=> job[s] = Nil
    /\ \A s \in Slots : wpc[s] = "idle" => ran[s] = <<>>

AfterLast(s) == IF ran[s] = <<>> THEN {job[s].graph.first}
                ELSE job[s].graph.next[LastRan(s).node]
FollowsGraph(s) ==
    /\ ran[s] # <<>> => ran[s][1].node = job[s].graph.first
    /\ \A k \in 1..(Len(ran[s]) - 1) :
          ran[s][k + 1].node \in job[s].graph.next[ran[s][k].node]
    /\ wpc[s] \in {"start", "push", "execute", "succeed"} => node[s] \in AfterLast(s)
    /\ wpc[s] \in {"push", "execute"} => node[s] # Nil
    /\ wpc[s] = "start" => ran[s] = <<>>
    /\ wpc[s] = "succeed" => node[s] = Nil
    /\ wpc[s] = "set" => ran[s] # <<>> /\ node[s] = LastRan(s).node
WentWell(s) ==
    /\ \A k \in 1..Len(ran[s]) :
          \/ ran[s][k].status = "success"
          \/ k = Len(ran[s]) /\ ran[s][k].status = "failed"
    /\ wpc[s] \in {"push", "execute", "succeed"} /\ ran[s] # <<>> =>
          LastRan(s).status = "success"
    /\ wpc[s] = "fail" /\ spent["fault"] = 0 =>
          ran[s] # <<>> /\ LastRan(s).status = "failed"
RunInv ==
    /\ TypeOK /\ HoldsAll
    /\ \A s \in Slots : wpc[s] # "idle" => FollowsGraph(s) /\ WentWell(s)

\* ... and an execution that is marked as ended either tells that run, or has a
\* job whose end is yet to be recorded.
BeforeEnd == {"start", "push", "execute", "set", "succeed", "fail"}
Queued(e) == {m \in queue : m.exec = e}
Working(s, e) == wpc[s] \in BeforeEnd /\ job[s].exec = e
ResultInv ==
    \A e \in Executions :
       Undisturbed(e) /\ Ended(e) =>
          (\E s \in Slots : Working(s, e)) \/ Queued(e) # {} \/ TellsTheRun(e)

\* Behind SoleRun: who may bring an execution to another run is alone.  Until
\* something is redelivered that is the trigger, a job, a run before its end or a
\* retry, and none of the first three is there once a failure is stored ...
Triggering(e) == epc[e] # "done"
Retrying(r, e) == rpc[r] # "idle" /\ rexec[r] = e
Quiet(e) == \A s \in Slots : ~Working(s, e)
LoneClaim(e) ==
    /\ \A m1, m2 \in Queued(e) : m1 = m2
    /\ \A s, u \in Slots : Working(s, e) /\ Working(u, e) => s = u
    /\ \A r, q \in Retriers : Retrying(r, e) /\ Retrying(q, e) => r = q
    /\ Queued(e) = {} \/ Quiet(e)
    /\ Triggering(e) \/ (\E r \in Retriers : Retrying(r, e)) \/ status[e] = "failed"
          => Queued(e) = {} /\ Quiet(e)
    /\ Triggering(e) => \A r \in Retriers : ~Retrying(r, e)
    /\ status[e] = "failed" => /\ ~Triggering(e)
                               /\ \A r \in Retriers : Retrying(r, e) => Between(r, e)
\* ... and until something is retried there is one job that is settled or put back.
Handles(s, e) == wpc[s] # "idle" /\ job[s].exec = e /\ Open(ProcOf[s])
LoneJob(e) ==
    /\ \A m1, m2 \in Queued(e) : m1 = m2
    /\ \A s, u \in Slots : Handles(s, e) /\ Handles(u, e) => s = u
    /\ Queued(e) = {} \/ \A s \in Slots : ~Handles(s, e)
    /\ Triggering(e) => Queued(e) = {} /\ \A s \in Slots : ~Handles(s, e)
LoneInv ==
    /\ \A r \in Retriers : rpc[r] = "publish" => retries[rexec[r]] > 0
    /\ \A s \in Slots : wpc[s] # "idle" /\ ~Open(ProcOf[s]) => redelivered[job[s].exec] > 0
    /\ \A e \in Executions :
          /\ spent["fault"] = 0 /\ e \notin raced /\ redelivered[e] = 0 => LoneClaim(e)
          /\ retries[e] = 0 => LoneJob(e)

\* Behind EffectsBounded: what a node did and who may still execute it count
\* together, and a run climbs along its graph, so it meets no node twice.
RankOf(g) == CHOOSE rank \in Ranks : Climbs(rank, g)
RunClimbs(s) ==
    \A k \in 1..Len(ran[s]) :
       LET this == RankOf(job[s].graph)[ran[s][k].node]
           next == RankOf(job[s].graph)[node[s]]
       IN  /\ wpc[s] \in {"push", "execute"} => this < next
           /\ wpc[s] = "set" => this <= next
Ahead(e, n) == {s \in Slots : /\ wpc[s] \in {"start", "push", "execute", "set"}
                              /\ job[s].exec = e
                              /\ \A k \in 1..Len(ran[s]) : ran[s][k].node # n}
Publishing(e) == {r \in Retriers : rpc[r] = "publish" /\ rexec[r] = e}
ToTrigger(e) == IF Triggering(e) THEN 1 ELSE 0
Owed(e, n) == Cardinality(Queued(e)) + Cardinality(Ahead(e, n))
                 + Cardinality(Publishing(e)) + ToTrigger(e)
WithinJobs(e, n) == effects[e][n] + Owed(e, n) <= 1 + retries[e] + redelivered[e]
EffectInv ==
    /\ IsFiniteSet(queue)
    /\ NoLoops => \A s \in Slots : RunClimbs(s)
    /\ NoLoops => \A e \in Executions, n \in Nodes : WithinJobs(e, n)

\* The inductive invariant behind RetriesBounded: a retry under way has passed
\* the check.
InFlight(e) == {r \in Retriers : Between(r, e)}
RetryInv ==
    /\ retries \in [Executions -> Nat]
    /\ rpc \in [Retriers -> {"idle", "workflow", "update", "publish"}]
    /\ rexec \in [Retriers -> Executions \cup {Nil}]
    /\ \A r \in Retriers : rpc[r] # "idle" => rexec[r] # Nil
    /\ \A e \in Executions :
          retries[e] + Cardinality(InFlight(e)) + 1 <= MaxRetries + Cardinality(Retriers)
=============================================================================
