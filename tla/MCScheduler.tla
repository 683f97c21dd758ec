---------------------------- MODULE MCScheduler ----------------------------
(***************************************************************************)
(* Finite values of Scheduler's constants: two plans due together, two     *)
(* ticks, a cancellation and an edit of the same plan.                     *)
(***************************************************************************)
EXTENDS SchedulerProperties

CONSTANTS d1, d2, k1, k2, c1, e1

MCPlanOf == [r \in Requests |-> d1]

Rough == [kind \in Kinds |-> 1]
=============================================================================
