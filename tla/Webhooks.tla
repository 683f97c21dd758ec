------------------------------ MODULE Webhooks ------------------------------
(***************************************************************************)
(* webhook.service.js: the registered endpoints, the delivery of an event  *)
(* to each of them with its retries, the log of the attempts and the       *)
(* endpoint's statistics.  Deliveries live in the memory of the process    *)
(* that fired the event and end with it.                                   *)
(***************************************************************************)
EXTENDS Integers, Sequences, FiniteSets

CONSTANTS
    Hooks,          \* webhooks, one of each _id
    HookEvents,     \* event names a webhook can subscribe to
    Firings,        \* calls of deliverEvent and testWebhook
    MaxAttempts,    \* MAX_RETRIES
    NoHook          \* no webhook is being edited

ASSUME WebhooksAssumption == MaxAttempts \in Nat \ {0} /\ NoHook \notin Hooks

VARIABLES
    hook,       \* the Webhook document of each
    edit,       \* an update between its findOne and its save
    delivery,   \* of each firing to each webhook
    attempts    \* the WebhookDelivery entries of each, success or not

webhookVars == <<hook, edit, delivery, attempts>>

Sent == Firings \X Hooks

Hook == [is : {"none", "there", "deleted"}, active : BOOLEAN, events : SUBSET HookEvents,
         total : Nat, ok : Nat, bad : Nat]
Edits == {NoHook} \cup [hook : Hooks, active : BOOLEAN, events : SUBSET HookEvents]
\* due: logged and not in the statistics.
Delivery == [at : {"idle", "post", "log", "count", "wait", "over", "lost"},
             attempt : 0..MaxAttempts, good : BOOLEAN, due : BOOLEAN]

NoDelivery == [at |-> "idle", attempt |-> 0, good |-> FALSE, due |-> FALSE]
Attempt(n) == [at |-> "post", attempt |-> n, good |-> FALSE, due |-> FALSE]

WebhooksType ==
    /\ hook \in [Hooks -> Hook]
    /\ edit \in Edits
    /\ delivery \in [Sent -> Delivery]
    /\ attempts \in [Sent -> Seq(BOOLEAN)]

WebhooksInit ==
    /\ hook = [h \in Hooks |-> [is |-> "none", active |-> FALSE, events |-> {},
                                total |-> 0, ok |-> 0, bad |-> 0]]
    /\ edit = NoHook
    /\ delivery = [x \in Sent |-> NoDelivery]
    /\ attempts = [x \in Sent |-> << >>]

Registered(h) == hook[h].is = "there"

-----------------------------------------------------------------------------
(* Registration *)

CreateWebhook(h, E) ==
    /\ hook[h].is = "none"
    /\ hook' = [hook EXCEPT ![h] = [@ EXCEPT !.is = "there", !.active = TRUE, !.events = E]]
    /\ UNCHANGED <<edit, delivery, attempts>>

FindWebhook(h) ==
    /\ edit = NoHook /\ Registered(h)
    /\ edit' = [hook |-> h, active |-> hook[h].active, events |-> hook[h].events]
    /\ UNCHANGED <<hook, delivery, attempts>>

\* save() sends the fields that differ from what was read, and matches
\* nothing when the webhook is gone.
Saved(w, read, on, E) ==
    [w EXCEPT !.active = IF on # read.active THEN on ELSE @,
              !.events = IF E # read.events THEN E ELSE @]

SaveWebhook(on, E) ==
    /\ edit # NoHook
    /\ hook' = IF Registered(edit.hook)
               THEN [hook EXCEPT ![edit.hook] = Saved(@, edit, on, E)] ELSE hook
    /\ edit' = NoHook
    /\ UNCHANGED <<delivery, attempts>>

DeleteWebhook(h) ==
    /\ Registered(h)
    /\ hook' = [hook EXCEPT ![h].is = "deleted"]
    /\ UNCHANGED <<edit, delivery, attempts>>

-----------------------------------------------------------------------------
(* Delivery *)

Unfired(f) == \A h \in Hooks : delivery[<<f, h>>].at = "idle"

Wanted(h, e) == Registered(h) /\ hook[h].active /\ e \in hook[h].events

Fire(f, H) ==
    /\ Unfired(f)
    /\ delivery' = [x \in Sent |-> IF x[1] = f /\ x[2] \in H THEN Attempt(1)
                                   ELSE delivery[x]]
    /\ UNCHANGED <<hook, edit, attempts>>

DeliverEvent(f, e) == Fire(f, {h \in Hooks : Wanted(h, e)})

\* A test goes to an inactive webhook too.
TestWebhook(f, h) == Registered(h) /\ Fire(f, {h})

Move(x, from, d) ==
    /\ delivery[x].at = from
    /\ delivery' = [delivery EXCEPT ![x] = d]

\* The endpoint answers with 2xx or another status, the connection fails, or
\* the ten seconds are over.
Post(x, good) ==
    /\ Move(x, "post", [delivery[x] EXCEPT !.at = "log", !.good = good])
    /\ UNCHANGED <<hook, edit, attempts>>

LogAttempt(x) ==
    /\ Move(x, "log", [delivery[x] EXCEPT !.at = "count", !.due = TRUE])
    /\ attempts' = [attempts EXCEPT ![x] = Append(@, delivery[x].good)]
    /\ UNCHANGED <<hook, edit>>

\* What follows an attempt that is in the statistics.
Retried_Always(d) == d.attempt < MaxAttempts
Retried(d) == ~d.good /\ d.attempt < MaxAttempts

\* The $inc of a deleted webhook's statistics matches nothing; the delivery
\* goes on.
Counted_OkOnly(w, good) == [w EXCEPT !.total = @ + 1, !.ok = IF good THEN @ + 1 ELSE @]
Counted(w, good) ==
    [w EXCEPT !.total = @ + 1, !.ok = IF good THEN @ + 1 ELSE @,
              !.bad = IF good THEN @ ELSE @ + 1]

CountAttempt(x) ==
    LET d == delivery[x] IN
    /\ Move(x, "count", [d EXCEPT !.at = IF Retried(d) THEN "wait" ELSE "over", !.due = FALSE])
    /\ hook' = IF Registered(x[2]) THEN [hook EXCEPT ![x[2]] = Counted(@, d.good)] ELSE hook
    /\ UNCHANGED <<edit, attempts>>

\* The timer fires: the webhook is not read again, so a paused, changed or
\* deleted one is tried as it was.
RetryAttempt(x) ==
    LET d == delivery[x] IN
    /\ Move(x, "wait", Attempt(d.attempt + 1))
    /\ UNCHANGED <<hook, edit, attempts>>

\* MongoDB refuses the log entry or the statistics: the error is logged and
\* the delivery is not tried again.
FailAttempt(x) ==
    /\ delivery[x].at \in {"log", "count"}
    /\ delivery' = [delivery EXCEPT ![x].at = "lost"]
    /\ UNCHANGED <<hook, edit, attempts>>

\* The process restarts.
ForgetDeliveries ==
    /\ delivery' = [x \in Sent |-> IF delivery[x].at \in {"idle", "over"} THEN delivery[x]
                                   ELSE [delivery[x] EXCEPT !.at = "lost"]]
    /\ edit' = NoHook
    /\ UNCHANGED <<hook, attempts>>

WebhooksNext ==
    \/ \E h \in Hooks : FindWebhook(h) \/ DeleteWebhook(h)
    \/ \E h \in Hooks, E \in SUBSET HookEvents : CreateWebhook(h, E)
    \/ edit # NoHook /\ \E on \in BOOLEAN, E \in SUBSET HookEvents : SaveWebhook(on, E)
    \/ \E f \in Firings : \/ \E e \in HookEvents : DeliverEvent(f, e)
                          \/ \E h \in Hooks : TestWebhook(f, h)
    \/ \E x \in Sent : \/ \E good \in BOOLEAN : Post(x, good)
                       \/ LogAttempt(x) \/ CountAttempt(x)
                       \/ RetryAttempt(x) \/ FailAttempt(x)
    \/ ForgetDeliveries

-----------------------------------------------------------------------------
(* Properties *)

\* The attempts of h logged with the given result, and those of them whose
\* statistics are still due or never came.
Logged(h, good) ==
    UNION {{<<x, i>> : i \in {j \in 1..Len(attempts[x]) : attempts[x][j] = good}} :
           x \in {y \in Sent : y[2] = h}}
Due(h, good) == {x \in Sent : x[2] = h /\ delivery[x].due /\ delivery[x].good = good}

(* A webhook's statistics (webhook.service.js:231) tell its delivery log   *)
(* (217) except for the entries whose update is outstanding or was lost,   *)
(* whatever deliveries, edits and restarts overlap.                        *)
StatsTellLog ==
    \A h \in Hooks : Registered(h) =>
        /\ hook[h].ok = Cardinality(Logged(h, TRUE)) - Cardinality(Due(h, TRUE))
        /\ hook[h].bad = Cardinality(Logged(h, FALSE)) - Cardinality(Due(h, FALSE))
        /\ hook[h].total = hook[h].ok + hook[h].bad

\* Given up, as the attempts failed.
GivenUp(x) == delivery[x].at = "over" /\ ~attempts[x][Len(attempts[x])]

(* Once the log has a success an event is not sent again; it is retried    *)
(* MAX_RETRIES times at most; and deliveries under which nothing fails are *)
(* given up after equally many attempts, at least one, whatever else goes  *)
(* on (webhook.service.js:238-263).  How many there should be is left open *)
(* here, and an endpoint that answers too late is sent the event again.    *)
RetriedAlike ==
    /\ \A x \in Sent :
          /\ Len(attempts[x]) - 1 <= MaxAttempts
          /\ \A i \in 1..Len(attempts[x]) - 1 : ~attempts[x][i]
          /\ delivery[x].at = "over" => attempts[x] # <<>>
    /\ \A x, y \in Sent : GivenUp(x) /\ GivenUp(y) => Len(attempts[x]) = Len(attempts[y])

\* The log and the statistics are one record of the attempts.
WebhooksSound == WebhooksType /\ StatsTellLog
=============================================================================
