--------------------------- MODULE MCIdempotency ---------------------------
(***************************************************************************)
(* Finite values of Idempotency's constants: a request and three retries.  *)
(***************************************************************************)
EXTENDS IdempotencyProperties

CONSTANTS q1, q2, q3, q4

Disturbed == [kind \in Kinds |-> IF kind = "fault" THEN 2 ELSE 1]
=============================================================================
