----------------------- MODULE IdempotencyProperties -----------------------
(***************************************************************************)
(* What the idempotency key promises a client that retries.                *)
(***************************************************************************)
EXTENDS Idempotency

Began == {r \in Requests : started[r]}
Told(r) == pc[r] = "done" /\ answer[r] \in Responses
Undisturbed == spent["fault"] = 0 /\ spent["expire"] = 0

\* "prevents duplicate payout requests caused by client retries": while Redis
\* answers and the record lives, all requests with the key start one payout,
\* whatever instances serve them, in whatever order, and whichever of them die.
SinglePayout ==
    Undisturbed => \A q, r \in Requests : started[q] /\ started[r] => q = r

\* Failing open has its price, but a bounded one: each Redis failure and each
\* expiry of the record lets at most one more payout through.
DuplicatesBounded ==
    Cardinality(Began) <= 1 + spent["fault"] + spent["expire"]

\* "the client gets the same result as the first request": two requests that
\* got more than a conflict got the same response.
SameAnswer ==
    Undisturbed =>
       \A q, r \in Requests : Told(q) /\ Told(r) => answer[q] = answer[r]

\* One key, one payout and one response.
OncePerKey == SinglePayout /\ SameAnswer

\* The key does not stay pending: sooner or later a retry gets an answer,
\* unless an instance died or Redis failed while the first was at work.
KeySettles ==
    record = Pending ~> \/ record # Pending
                        \/ spent["crash"] > 0 \/ spent["fault"] > 0

\* The inductive invariant behind SinglePayout and SameAnswer: one request
\* holds the key from its claim on, nobody else gets to the handler, the record
\* stays pending until the holder stores its response, and what anybody is told
\* is what is stored.
HandlingHolds ==
    \A r \in Requests : pc[r] \in {"handle", "store"} \/ started[r] => intercepts[r]
SoleHolder ==
    \A q, r \in Requests : intercepts[q] /\ intercepts[r] => q = r
HeldIsRecorded ==
    \A r \in Requests : intercepts[r] => record # Nil
HolderAtWork ==
    \A r \in Requests : pc[r] \in {"handle", "store"} => record = Pending
ToldIsStored ==
    \A r \in Requests : Told(r) => record = answer[r]
HasAnswer ==
    \A r \in Requests : pc[r] = "store" => answer[r] \in Responses
Promise ==
    /\ HandlingHolds
    /\ SoleHolder
    /\ HeldIsRecorded
    /\ HolderAtWork
    /\ ToldIsStored
KeyInv == TypeOK /\ HasAnswer /\ (Undisturbed => Promise)
=============================================================================
