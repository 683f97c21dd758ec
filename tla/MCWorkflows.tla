---------------------------- MODULE MCWorkflows ----------------------------
(***************************************************************************)
(* Finite values of Workflows' constants: an execution, two clients that   *)
(* retry it, two processes that handle one job each; a graph whose second  *)
(* node can fail, one whose first chooses whether a second is executed,    *)
(* and one without nodes.                                                  *)
(***************************************************************************)
EXTENDS Workflows

CONSTANTS x1, r1, r2, n1, n2, n3, s1, s2, p1, p2

MCTypeOf == [n \in Nodes |->
    CASE n = n1 -> "condition" [] n = n2 -> "action" [] n = n3 -> "delay"]
Graph(first, second) ==
    [first |-> first, next |-> [n \in Nodes |-> IF n = first THEN second ELSE {Nil}]]
MCGraphs == {Graph(n1, {n2}), Graph(n1, {n3, Nil}), Graph(Nil, {Nil})}
MCProcOf == [s \in Slots |-> IF s = s1 THEN p1 ELSE p2]

Rough == [kind \in Kinds |-> 1]
=============================================================================
