------------------------------- MODULE Payout -------------------------------
(***************************************************************************)
(* The payout pipeline: gateway calls, worker processes, the other users   *)
(* of the balance and the environment, over the shared stores.             *)
(***************************************************************************)
EXTENDS PayoutGateway, PayoutWorker, PayoutAccount

\* The lock key reaches its TTL.
ExpireLock ==
    /\ lock # Nil
    /\ Spend("expire")
    /\ lock' = Nil
    /\ UNCHANGED <<mongoVars, redisBalance, brokerVars, callVars, slotVars,
                   procVars, opVars, history>>

\* The balance key reaches its TTL, or Redis is flushed.
EvictBalance ==
    /\ redisBalance # Nil
    /\ Spend("evict")
    /\ redisBalance' = Nil
    /\ UNCHANGED <<mongoVars, lock, brokerVars, callVars, slotVars, procVars,
                   opVars, history>>

Init ==
    /\ mongoBalance = InitialBalance
    /\ active = TRUE
    /\ tx = [t \in Txns |-> "absent"]
    /\ redisBalance = Nil
    /\ lock = Nil
    /\ queue = {} /\ dlq = {}
    /\ gpc = [t \in Txns |-> "start"]
    /\ seen = [t \in Txns |-> [balance |-> 0, active |-> FALSE]]
    /\ tries = [t \in Txns |-> 0]
    /\ held = [t \in Txns |-> FALSE]
    /\ wpc = [s \in Slots |-> "idle"]
    /\ job = [s \in Slots |-> Nil]
    /\ owned = [s \in Slots |-> FALSE]
    /\ newBalance = [s \in Slots |-> 0]
    /\ channel = [p \in Procs |-> "open"]
    /\ timers = [p \in Procs |-> {}]
    /\ opc = [o \in Operations |-> "start"]
    /\ opBalance = [o \in Operations |-> 0]
    /\ spent = [k \in Kinds |-> 0]
    /\ debits = [t \in Txns |-> 0]
    /\ credits = [t \in Txns |-> 0]

\* The code's own steps, which its event loops keep taking.
Progress ==
    \/ \E t \in Txns : GatewayStep(t)
    \/ \E s \in Slots : HandlerStep(s)
    \/ \E p \in Procs : Republish(p)
    \/ \E r \in Readers : ReaderStep(r)
    \/ \E a \in Adjusters : AdjusterStep(a)

\* What the surroundings may do, within the budget.
Environment ==
    \/ \E t \in Txns : CallFault(t) \/ CallCrash(t)
    \/ \E s \in Slots : HandlerFault(s)
    \/ \E p \in Procs : LoseConnection(p) \/ Restart(p)
    \/ \E o \in Operations : OperationFault(o) \/ OperationCrash(o)
    \/ SetStatus \/ ExpireLock \/ EvictBalance

\* Nothing is left to do: every call is over and no message can be delivered.
AtRest ==
    /\ \A t \in Txns : gpc[t] \in CallOver
    /\ \A s \in Slots : wpc[s] = "idle"
    /\ \A p \in Procs : timers[p] = {}
    /\ \A o \in Operations : opc[o] = "done"
    /\ queue = {} \/ \A s \in Slots : ~Open(ProcOf[s])

Rest == AtRest /\ UNCHANGED vars

Next == Progress \/ Environment \/ Rest

Spec == Init /\ [][Next]_vars

\* Fairness of the event loops and of the broker's delivery to idle slots, and
\* of Redis's clock: a lock that is not released reaches its TTL.
Fairness ==
    /\ \A t \in Txns : WF_vars(GatewayStep(t))
    /\ \A s \in Slots : WF_vars(HandlerStep(s))
    /\ \A p \in Procs : WF_vars(Republish(p))
    /\ \A r \in Readers : WF_vars(ReaderStep(r))
    /\ \A a \in Adjusters : WF_vars(AdjusterStep(a))
    /\ WF_vars(ExpireLock)

FairSpec == Spec /\ Fairness
=============================================================================
