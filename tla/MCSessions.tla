----------------------------- MODULE MCSessions -----------------------------
(***************************************************************************)
(* Finite values of Sessions' constants: three calls of any kind, one that *)
(* stops anywhere, a mail that is not sent, a key that expires.            *)
(***************************************************************************)
EXTENDS Sessions

CONSTANTS c1, c2, c3, b, e1, e2

Rough == [kind \in Kinds |-> 1]
=============================================================================
