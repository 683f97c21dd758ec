---------------------------- MODULE Idempotency ----------------------------
(***************************************************************************)
(* idempotencyCheck in front of POST /api/payout: several requests with    *)
(* one X-Idempotency-Key (a client and its retries, in any number of       *)
(* gateway instances), and the Redis record of that key.  Keys do not      *)
(* interact.  The handler behind the middleware is one step that starts a  *)
(* payout or refuses to.                                                   *)
(***************************************************************************)
EXTENDS Naturals, FiniteSets

CONSTANTS
    Requests,    \* the requests that carry the key
    Nil,
    Budget       \* bound on each kind of event of the surroundings

\* fault: a Redis call rejects.   crash: an instance dies.   expire: the record
\* reaches its TTL.
Kinds == {"fault", "crash", "expire"}

\* A response is known by the request it was made for and by its success.
Responses == [status : {"completed"}, of : Requests, ok : BOOLEAN]
Pending == [status |-> "pending"]
Conflict == [status |-> "conflict"]

ASSUME IdempotencyAssumption == /\ Nil \notin Responses \cup {Pending, Conflict}
                                /\ Budget \in [Kinds -> Nat]

VARIABLES
    record,      \* idempotency:<key>
    pc,          \* where each request is
    intercepts,  \* its res.json stores the response
    started,     \* its handler started a payout
    answer,      \* what it was answered
    spent

vars == <<record, pc, intercepts, started, answer, spent>>

Steps == {"check", "claim", "handle", "store", "done", "dead"}

TypeOK ==
    /\ record \in Responses \cup {Pending, Nil}
    /\ pc \in [Requests -> Steps]
    /\ intercepts \in [Requests -> BOOLEAN]
    /\ started \in [Requests -> BOOLEAN]
    /\ answer \in [Requests -> Responses \cup {Conflict, Nil}]
    /\ spent \in [Kinds -> Nat]

Spend(kind) == /\ spent[kind] < Budget[kind]
               /\ spent' = [spent EXCEPT ![kind] = @ + 1]

Goto(r, step) == pc' = [pc EXCEPT ![r] = step]

\* The response leaves, and with it the request is over.
Reply(r, response) == /\ answer' = [answer EXCEPT ![r] = response]
                      /\ Goto(r, "done")

\* GET: an unknown key is claimed, a pending one refused, a completed one
\* answered from the record.
Check(r) ==
    /\ pc[r] = "check"
    /\ \/ record = Nil /\ Goto(r, "claim") /\ UNCHANGED answer
       \/ record = Pending /\ Reply(r, Conflict)
       \/ record \in Responses /\ Reply(r, record)
    /\ UNCHANGED <<record, intercepts, started, spent>>

\* SET NX EX: of two first requests one wins and goes on to the handler.  When
\* the answer to the winner is lost it goes on as well (fail open), but
\* its response will not be stored.
ClaimWins_Always == TRUE
ClaimWins == record = Nil

Claim(r) ==
    /\ pc[r] = "claim"
    /\ ClaimWins
    /\ record' = Pending
    /\ Goto(r, "handle")
    /\ \/ intercepts' = [intercepts EXCEPT ![r] = TRUE] /\ UNCHANGED spent
       \/ Spend("fault") /\ UNCHANGED intercepts
    /\ UNCHANGED <<started, answer>>

ClaimRefused(r) ==
    /\ pc[r] = "claim"
    /\ ~ClaimWins
    /\ Reply(r, Conflict)
    /\ UNCHANGED <<record, intercepts, started, spent>>

\* Redis rejects before any effect: the request is let through unrecorded.
FailOpen(r) ==
    /\ pc[r] \in {"check", "claim"}
    /\ Spend("fault")
    /\ Goto(r, "handle")
    /\ UNCHANGED <<record, intercepts, started, answer>>

\* Validation, the controller and its error path: in the end res.json with a
\* success or an error, which the interceptor treats alike.
Handle(r) ==
    /\ pc[r] = "handle"
    /\ \E ok \in BOOLEAN :
          LET response == [status |-> "completed", of |-> r, ok |-> ok] IN
          /\ started' = [started EXCEPT ![r] = ok]
          /\ IF intercepts[r]
             THEN Goto(r, "store") /\ answer' = [answer EXCEPT ![r] = response]
             ELSE Reply(r, response)
    /\ UNCHANGED <<record, intercepts, spent>>

\* The interceptor's SET, then the response; a rejection (before or after its
\* effect) is logged and the response sent all the same.
Stored_Pending(r) == Pending
Stored(r) == answer[r]

Store(r) ==
    /\ pc[r] = "store"
    /\ \/ record' = Stored(r) /\ UNCHANGED spent
       \/ UNCHANGED record /\ Spend("fault")
    /\ Goto(r, "done")
    /\ UNCHANGED <<intercepts, started, answer>>

\* The instance dies before the response is sent.
Crash(r) ==
    /\ pc[r] \notin {"done", "dead"}
    /\ Spend("crash")
    /\ Goto(r, "dead")
    /\ answer' = [answer EXCEPT ![r] = Nil]
    /\ UNCHANGED <<record, intercepts, started>>

Expire ==
    /\ record # Nil
    /\ Spend("expire")
    /\ record' = Nil
    /\ UNCHANGED <<pc, intercepts, started, answer>>

Init ==
    /\ record = Nil
    /\ pc = [r \in Requests |-> "check"]
    /\ intercepts = [r \in Requests |-> FALSE]
    /\ started = [r \in Requests |-> FALSE]
    /\ answer = [r \in Requests |-> Nil]
    /\ spent = [kind \in Kinds |-> 0]

RequestStep(r) == \/ Check(r) \/ Claim(r) \/ ClaimRefused(r) \/ Handle(r)
                  \/ Store(r)

Finished == /\ \A r \in Requests : pc[r] \in {"done", "dead"}
            /\ UNCHANGED vars

Next ==
    \/ \E r \in Requests : RequestStep(r) \/ FailOpen(r) \/ Crash(r)
    \/ Expire
    \/ Finished

Spec == Init /\ [][Next]_vars

\* Every event loop goes on; clients arrive at "check" whenever they like,
\* which weak fairness of their first step does not restrict.
FairSpec == Spec /\ \A r \in Requests : WF_vars(RequestStep(r))
=============================================================================
