# A specification of NexusFlow

This directory holds TLA+ modules that model the services of NexusFlow, TLC
configurations that check them on small instances, and proofs, checked by TLAPS, of
what matters most for every instance.  Paths below are relative to the application,
so `worker/index.js` is `src/worker/index.js` there.

## 1. The system

NexusFlow is a set of Node processes around three stores.  The *API gateway*
(`server.js`, `app.js`) serves HTTP and Socket.IO and may run in several
instances; the *payout worker* (`worker/index.js`) and the *workflow worker*
(`worker/workflow.worker.js`) consume RabbitMQ queues and may be replicated.
MongoDB holds the documents, Redis the locks, balances, counters, sessions,
caches and pub/sub channels.  Inside a process handlers interleave at every
`await`; between processes nothing is ordered except by the stores.

| component | state | operations | interacts with |
|---|---|---|---|
| payout gateway (`services/payout.service.js`) | locals of each call (user document, lock value) | `initiatePayout`, `getUserBalance` | lock, balance, Transaction, `payout_queue`, spending limits |
| payout worker (`worker/index.js`) | locals of each message | `processMessage`, start, shutdown | Transaction, balance, PayoutUser, lock, spending limits |
| consumer / publisher (`services/message-*.service.js`) | retry timers, unacknowledged messages | deliver, ack, nack, delayed retry, publish | RabbitMQ |
| distributed lock (`services/distributed-lock.service.js`) | `lock:<user>` with a TTL | `acquire`, `acquireWithRetry`, `release` | Redis |
| balance service (`services/balance.service.js`) | `balance:<user>` with a TTL | get, sync, check, deduct, add (Lua) | Redis |
| admin service (`services/admin.service.js`) | none of its own | `adjustBalance`, `updateUserStatus`, limits | PayoutUser, balance |
| spending limits (`services/spending-limit.service.js`) | limits in MongoDB, usage counters in Redis | check, record, set, delete | gateway, worker |
| scheduler (`services/scheduler.service.js`, its controller) | scheduled payouts, leader key | tick, execute, create, cancel, update | gateway |
| idempotency (`middleware/idempotency.middleware.js`) | one record per key in Redis | check, claim, store, replay | gateway |
| auth and tokens (`services/auth.service.js`, `token.service.js`, `middleware/auth.middleware.js`) | the account; session, OTP, permit and cached profile in Redis | register, verify, login, refresh, logout, update, OTP, reset | Redis, MongoDB |
| workflows (`services/workflow.service.js`, `worker/workflow.worker.js`) | the workflow, its executions, `workflow_queue` | create, edit, trigger, retry, execute the graph | MongoDB, RabbitMQ |
| workspaces (`services/workspace.service.js`) | document, cached copy, members | create, read, update, deactivate, invite, change role, remove | MongoDB, Redis |
| channels and messages (`services/channel.service.js`, `message.service.js`) | documents with members, pins, reactions, counters | create, rename, join, pin; send, edit, delete, react | workspace members |
| direct messages (`services/dm.service.js`) | conversations | open, send, close | workspace members, notifications |
| webhooks (`services/webhook.service.js`) | endpoints, log, statistics; deliveries in memory | register, edit, deliver with retries, test | payout worker, payout gateway |
| wallets (`controllers/payout.controller.js`) | `PayoutUser` and its wallet map | create, update, delete, credit, debit | MongoDB |
| websocket server and bridge (`config/websocket*.js`) | sockets, rooms, `clients` | authenticate, subscribe, forward | Redis pub/sub |
| rabbitmq connection (`config/rabbitmq.js`) | connection, channel, pool, timer | connect, reconnect, disconnect | RabbitMQ |
| lookups (`services/public-api`, `currency-validator`, `ip-validator`) | copies and counters in Redis | ask, fall back | outside services |
| AI clients (`services/openrouter`, `groq`, `ai-agent`) | active key; memory of a session | request over several keys, converse | outside services |

Hard in it: a payout is begun in one process and finished in another, under a
lock that is taken by the first, released by the second and may expire in
between; messages are at-least-once, and nothing claims a workflow's execution;
the balance lives in Redis and MongoDB and is written by four operations of which
two take no lock; most handlers read a document, await, and save what they made
of it; caches are filled by readers that may be slower than the writers that
drop them; every `await` may reject after its effect; retries are timers in memory.

What makes each part correct, in a sentence: a payout is paid at most once and
a completed one exactly once; money never goes below zero, is never lost and
never minted; a failed payout has its money back; a lock is removed by its holder
only; every accepted payout is settled and every lock given back; limits are not
exceeded; a scheduled payout runs once and a cancelled one never; a retried
request has the effect and the answer of the first; a session does not
outlive the password it was opened with, and one OTP serves one change of it; an execution ends, and its
record is that of one run; counters next to lists tell the lists; no late save
takes back what another call did; a failing delivery is retried, equally often
everywhere, and a logged one is not sent again; news reaches those, and only those, it is for; the process
keeps trying to be connected.

## 2. The modules

| module | models |
|---|---|
| `RedisStore` | the Redis commands and Lua scripts on one key, as functions of its value |
| `PayoutState` | constants, variables, types of the pipeline |
| `PayoutGateway` | `initiatePayout`, one action per await that touches shared state, and its catch block |
| `PayoutWorker` | `processMessage`, the consumer around it, broker redelivery, lost connections, restarts |
| `PayoutAccount` | `getUserBalance`, `adjustBalance`, `updateUserStatus` |
| `Payout` | their composition, the environment, fairness |
| `PayoutLedger` | the abstract specification: an account and the payouts drawn on it |
| `PayoutProperties` | what is promised, and the refinement mapping to `PayoutLedger` |
| `Scheduler`, `SchedulerProperties` | scheduled payouts: ticks, and the requests that cancel and edit them |
| `Idempotency`, `IdempotencyProperties` | the requests of one `X-Idempotency-Key` |
| `SpendingLimits` | the check of a user's limits and the counters behind it |
| `Sessions` | one account: document, session, OTP, permit, cached profile |
| `WorkflowService` | the workflow, trigger and retry calls, `workflow_queue` |
| `Workflows` | the worker processes on top of it, with the properties |
| `CollabState` | the calls on one workspace, its members, Mongoose's `save()` |
| `Workspaces` | the workspace document, its cached copy, membership |
| `Channels`, `Messages`, `DirectMessages` | one channel, one message in it, the conversations of two users |
| `Collaboration` | their composition, with the properties |
| `Webhooks`, `Realtime`, `Wallets`, `Lookups`, `AiClients`, `Broker` | a service each, with its properties |
| `Services` | their composition: they share no state |
| `FiniteSums` | a sum over a finite set, and what follows from it for the sums of the models (`FiniteSumTheorems`) |
| `MC...` | finite constants for TLC |
| `...Proofs` | theorems; those about the spending limits are in `ServicesProofs` |

`PayoutGateway`, `PayoutWorker` and `PayoutAccount` share the state of `PayoutState`.
The scheduler, the idempotent requests and the spending limits stand alone: what
they share with the pipeline is the call of `initiatePayout`, which each of them
takes as one step (or, in `SpendingLimits`, three: admitted, complete, failed)
that may go either way; the scheduler's may also reject and publish (`Execute`).  `Workspaces`, `Channels`, `Messages` and `DirectMessages`
share the members, which `Workspaces` changes and every other call checks.

### The pipeline

One user is modelled, since every key and document is per user.  `mongoBalance`
and `active` are the PayoutUser document, `tx` the `status` of each Transaction
(`"absent"` before `Transaction.create`), `redisBalance` and `lock` the two Redis
keys (`Nil` when missing), `queue` and `dlq` the broker's queues.  A member of
`Txns` is a call of `initiatePayout`, the transaction id it generates and the
random lock value it generates, all three of which are unique to the call.
`gpc`, `seen`, `tries` and `held` are where the call is and its locals (the document
read first, the attempts at the lock, whether `lockValue` is set).  A member of
`Slots` is an in-flight message of a worker process (`prefetch` allows several);
`wpc`, `job`, `owned`, `newBalance` are its handler's locals, `owned` meaning that
`transaction` is not null.  `channel` and `timers` belong to a process.  `debits`
and `credits` are history variables: how often the Lua scripts took or gave
back the amount of a payout.

Money is an integer number of minor units, `Unit` of them to the whole one.  Redis
turns the number a Lua script returns into an integer, so the balance that
`deductBalance` reports is the true one without its fraction (`ScriptReply`),
while the stored string is exact.

Every await that changes shared state is an action of its own; reads and
purely local work are joined to it.  `Answered` gives such an await its two
endings: it answers, or its effect took place and the answer is lost.  `CallFault`
and `HandlerFault` are awaits that reject before any effect.  Audit records,
metrics, logs, WebSocket events, webhooks and notifications swallow their own
errors and are never read back, so they are left out here; so is the record an
adjustment writes about itself.  The fraud score, the currency check and the
spending limit may turn any call down.

The environment is bounded by `Budget`, one number for each kind of event: store
calls that reject, crashes of gateway or worker, lock expiry, balance eviction,
lost broker connections, a full write buffer, status changes.

### The ways into a payout

`Scheduler`: `status`, `amount`, `due` are a ScheduledPayout document, `due` saying that
`scheduledAt` has passed; `leader` says that the key `scheduler:leader` exists.  A
member of `Ticks` runs `_tick` again and again, fired by a timer or by `setImmediate`,
in one instance or several; `plan` and `asked` are the document it claimed and the
amount that document had.  `Cancels` and `Edits` are calls of the controller,
which read, check and save: two actions, with anything in between.

`Idempotency`: `record` is the Redis key.  Each member of `Requests` goes from
`"check"` (GET) through `"claim"` (SET NX) to the handler; `intercepts` says that `res.json`
was replaced, so that the response is stored (`Store`) before it is sent.  When
Redis rejects, the catch block calls `next()` without that replacement (`FailOpen`,
and the second alternative of `Claim` when the SET had its effect).

`SpendingLimits`: `limit` are the documents, `counter` and `ttl` the Redis keys.  A payout
holds the user's lock from `Acquire` to `Complete` or `Fail`; the counters are raised
after that by a `recordSpend` that nobody waits for, whose three Redis calls are
three actions.  `CheckFails` includes the missing counter: the service computes the
usage from MongoDB and then calls `redis.setEx`, which `ioredis` does not have, so the
call throws and the payout is refused.  `before` and `unchecked` are history.

### The account

`Sessions`: `user` is the document, `session`, `verifier`, `cache`, `otp` and `permit` the
Redis keys.  A call may be any operation of `auth.service.js`; `pc` is the await it is
suspended at, `doc`, `email` and `key` what it has read.  What a call creates (a
token, an OTP, a password) bears the call's name, so that two of them are never
confused; a permit bears the OTP it was stored for.  `granted`, `changed`, `cut` and the
field `again` are history: OTPs with a permit, with a saved change, with a change that ended
between the save and the DEL, and permits stored when the OTP had one already.  `Stop` ends a call at any await, which stands for a
rejection before the effect, one after it, and the death of the process.

### Workflows

A member of `Executions` is an execution and the call that triggers it; `Graphs` are
the node graphs the document may have, and a job carries the graph that its call
read, and who published it: two retries that raced have read the same retry
count, and are two messages all the same.  A slot works on one job: `wpc` is the await in `executeWorkflow`, `node` the
current node, `ran` its own list of results, which `results` in the database
follows by index.  A step either answers, or takes effect and rejects (`Stored`),
or rejects first.  A worker that is told to stop works on for five seconds,
then closes its channel, which has its jobs put back (`Disconnect`), and
exits after two more awaits (`Exit`); in between its handlers go on.  One that dies or
loses its connection has its jobs put back as well.  After a lost
connection the process goes on with its job but gets no other: nothing
consumes from the new channel, and its `ack` on the old one throws.  `abandoned` holds
the executions one of whose handlers died after its job had been put back.
A graph may lead back to a node (`NoLoops` says that none does): neither the validator
nor the model of the document rejects that.

### Collaboration

A call is suspended at an await `at` with what it has read in `doc`.  No handler
undoes what it has done, so a call that is cut short, by a rejection or a crash, is
one that stands still for ever; TLC checks every such state, since no fairness is
assumed.  `Fresh` is the version check of Mongoose's `save()`: a push or `$pull` of
an array element is merged, an array assigned as a whole or changed inside an
element is sent only if `__v` is unchanged.  Names, pins, reactions and
conversations are named after the calls that create them.

### The other services

`Webhooks`: a member of `Firings` is a call of `deliverEvent` or `testWebhook`, and
`delivery` how far it is with each endpoint: `post`, `log`, `count`, `wait` for the
timer.  `attempts` is the delivery log.  `ForgetDeliveries` is the end of the process.
`Realtime`: `socket` is a connection with its instance, user, rooms and the tokens
that are being verified; `clients` is each instance's map.  An event is published by a
worker and forwarded by every instance whose bridge listens, or emitted by one
instance, and carried to the others by the adapter.
`Wallets`: `profile` are the documents; a credit or debit reads one and saves a copy of
its map later, of which Mongoose sends the one currency that changed.
`Lookups`: a request reads its copy, asks its source, falls back, stores; each call may
fail; one currency is in `FALLBACK_RATES` and one is not.  `AiClients`: one request over up to four keys, and turns of one agent session
that share a history across an await.  `Broker`: `phase` is how far `connect()` or
`disconnect()` is, `link` the connection, `pool` the connection each pooled channel
belongs to; the connection is lost at any point.

## 3. The runs

Every run checks deadlock except those named below.

| run | question and properties | instance and bounds |
|---|---|---|
| `payout_quiet` | is the pipeline right when nothing fails? `LockProtects` (handlers apart, both copies of the balance exact, what is accepted is funded, books agree at rest), `LockFreed`, and `ImplementsLedger`: it refines `PayoutLedger` | three payouts of 2, 2 and 1 on a balance of 3 (some pairs fit, some do not), one worker with two slots |
| `payout_crash` | does at-least-once delivery pay twice, and what keeps a payout from being settled? `AtMostOneDebit`, `OneLiveCopy`, `LockLeftByHolder`, `AcceptedIsSettled` | two payouts of 2, two processes, one crash, one lost connection, one lock expiry, one eviction at any point |
| `payout_faults` | what survives rejected awaits and the operations outside the lock? `CompletedMeansDebited`, `NeverOverdrawn`, `FailedIsRefunded` | one payout, a reader, an admin debit, two units to a whole one; two rejections, one of each other event but a lost connection |
| `scheduler_plans` | is a scheduled payout published once, reported truthfully, and not forgotten? `RunsOnce`, `OutcomeIsTrue`, `CancelledIsLeftAlone`, `PlansMove` | two plans, two ticks, a cancellation and an edit of the same plan, one fault, one full write buffer, one crash; the leader key expires at any moment, any number of times |
| `idempotent_requests` | one payout and one answer per key? `OncePerKey`, `DuplicatesBounded`, `KeySettles` | four requests, two rejected Redis calls, one crash, one expiry of the record |
| `spending_caps` | do limits bind, do counters end with their period? `LimitEnforced`, `NoImmortalCounter` | payouts of 1, 1 and 2, limits of 1 and 2 on one period, set twice; one each of remove, delete, end of period, fault, crash, lock expiry |
| `account_sessions` | does an OTP serve twice, does a session or a cached profile outlive what it is true of? `SessionInv`, `KeysAreCurrent` | any three calls, two addresses; one call stops anywhere, one mail is lost, one key expires; the profile's copy any number of times |
| `workflow_runs` | is an execution run as often as allowed, recorded as one run, and ended? `RetriesBounded`, `RunsSound`, `ResultsTellTheRun`, `ExecutionsEnd` | one execution, two retriers; a graph whose second node can fail, one whose first chooses whether there is a second, an empty one; two processes that are alike, of which one may be disturbed (`Unsteady`), one retry allowed, one disturbance of any kind (`Total`) |
| `collaboration` | do counters tell their lists, do late saves lose anything, do names and conversations stay unique? `WorkspaceSound`, `DocumentsSound`, `CountsTellReactions`, `HiddenByChoice`, `ChangesKept`, `OneConversation` | any three calls by an owner, an author and a guest on one of the four subjects at a time; two names, one pin, one stored edit |
| `services` | one property or two for each of six services: `WebhooksSound`, `RetriedAlike`, `PersonalNews`, `RealtimeSound`, `WalletsSound`, `KeepsTrying`, `BrokerSound`, `LookupsSound`, `AiClientsSound` | each service alone (`Parts`): two events at one webhook, three attempts; two instances, sockets and users, one piece of news; four wallet calls, sums of 1 and 2; two lookups on two days; one to four keys, two turns on a history of four and two sessions; three reconnection attempts, four connections |

Two or three actors are enough for the hazards: they are races of two calls, or of
a call and its own redelivery; the third lets a lock change hands twice, or reads
what the two others left.  One retry exhausts a budget of one.  Four requests let two
of them meet in the handler while a third claims and a fourth reads; two ticks meet
on a plan while the other plan waits; three payouts are one to create a counter, one
to overtake its recording and one to be checked against the result.  Four wallet
calls create a profile, read it twice and delete it between; four connections are
three attempts and one that succeeds.  Parts that share no state, or only the
memberships, are not multiplied with each other: in `collaboration` the members are
constant while a channel, message or conversation is busy, so that any standing
membership is checked, but not a change of role between two awaits of one call.  The
theorems have none of these bounds.

`CHECK_DEADLOCK FALSE` where the system really stops when its calls are done and the
budget is spent: `spending_caps`, `account_sessions`, `workflow_runs`, `collaboration`,
`services`.  In the others the end of all work is the explicit stutter `Rest` or
`Finished`, and a scheduler ticks for ever.  Symmetry is used where the property is an
invariant or an action property: payouts of one amount in `spending_caps`, calls
in `collaboration`, instances, sockets and users in `services`.

`LockProtects` speaks of the histories in which the lock, the balance key and the processes
live, no call to a store fails and only payouts use the balance (`Undisturbed`), and of
whole amounts (`WholeAmounts`); `FailedIsRefunded` of those with at most one rejected
call and no eviction.  What happens otherwise is below.

Runs in which TLC finds the code at odds with what it says of itself:

| run | what the code says | what happens |
|---|---|---|
| `refund_bug` | `worker/index.js:203` "there's nothing to undo" | an error before the deduction is "rolled back" too: the account gains money it never lost |
| `skip_bug` | `worker/index.js:101` "another worker has it" | the worker that had it died; likewise each retry finds the status "failed" its first attempt left, and is dropped |

### Deviations the properties are scoped around

Payouts.  The status "rechecked" under the lock was read before it
(`payout.service.js:86`).  A balance reported by Lua has lost its cents, and so has the
copy synced from it (`worker/index.js:132`).  With a reader, `getUserBalance` may
overwrite a deduction; with an adjuster, absolute writes to MongoDB cross; with a lock
expiry, two handlers run at once.  The first failure already puts a message in the
dead-letter queue, because `nack` without requeue does so.  A call that is told
the queue is full is carried out all the same.  A worker that dies after the claim
leaves the payout in "processing" (`AcceptedIsSettled` excepts crashes).

Ways in.  A tick may claim a plan between the check and the save of its cancellation;
the plan is paid and its cancellation confirmed (`scheduler.controller.js:95`), which
`CancelledIsLeftAlone` excepts; the tick then writes its outcome over "cancelled".
`initiatePayout` rejects on a full write buffer although the message is sent, and the
update that records a completion may reject after the payout was published: a failure
is recorded then for a plan that is paid.  `OutcomeIsTrue` allows one such plan per
rejected call or full buffer.  A plan whose tick died stays in "processing".  The leader key lives longer than the interval and is never deleted,
so the tick that `setImmediate` starts finds it taken: plans are picked up one per
key lifetime.  A key whose instance died, or whose response could not be stored,
answers conflicts until its TTL; a retry that lost the claim may hear that the first
request "is already being processed" although it has finished since.  `ioredis` has no
`setEx`: a user who sets a limit while none of his payouts is on its way cannot pay
until it is removed, and a counter that starts with a payout on its way does not
count what was spent before (`LimitEnforced` exempts those in `unchecked`).

Accounts.  `verifyEmailService` leaves the cached profile as it is.  A verification
token sent to an old address verifies the new one.  Taking back an OTP whose mail
failed deletes whatever OTP is there.  Two verifications of one OTP at once both pass,
and the slower one stores a permit again after the first one's change is through
(`auth.service.js:219-226`); a change that dies between the save and the DEL leaves its
permit to a second change until the TTL.  `OtpServesOnce` names both.
A login under way when the password changes leaves its session behind, and a slow reader of the profile puts an older one into the cache for up to an hour (the store has answered, the cache is written after the change dropped it).

Workflows.  A failed job is never published again, although
`workflow.worker.js:355` counts its retries: `nack` without requeue dead-letters it.  An
execution whose job could not be published stays "queued".  A retry leaves the old
`nodeResults` until it succeeds.  A rejected update of the statistics after a success
records a failure.  A worker is deaf after a lost connection; its next `ack` on the
closed channel is a rejection nobody handles, which shuts the process down, and
the supervisor starts it anew.  Until then, and between `rabbitmq.disconnect()` and
`process.exit` of an orderly stop (`workflow.worker.js:388-393`), its handlers go on with
jobs that the broker has given to others: two runs of an execution that was never
retried act at once, and the last write of the one that dies may stay in the record.
`SoleRun` counts the connected processes only; `ResultsTellTheRun` and `ExecutionsEnd`
except what is in `abandoned`.  A workflow whose nodes lead back to one another is
accepted, and its run goes round until a condition gets it out
(`workflow.worker.js:210`), which `EffectsBounded` and `ExecutionsEnd` except.

Collaboration.  A removal takes one from `memberCount` also for somebody who is no
member or was removed before, and concurrent re-invitations add two.  The cached
workspace does not follow `memberCount`.  A creation that fails midway leaves a
workspace without owner or channels.  The name of an archived channel stays taken.
Two first reactions at once make two elements.  Edits, leaving and closing ask for no
membership.  A late edit overwrites the text of a deleted message.  Changes of
unrelated arrays reject each other's saves.  Two concurrent calls create two
conversations (`dm.service.js:15` "calling it twice is safe").

Services.  "Retried up to 3 times" and "2s, 4s, 8s" (`webhook.service.js:4`, 245) come to
three attempts, so two retries; `RetriedAlike` asks for no more than `MAX_RETRIES` retries
and as many for every delivery, and leaves the number open.  An endpoint that has the event but answers after
ten seconds (187-212) is logged as a failure and gets it again, so only successes in the log
end a delivery.  An empty list of events matches none although `webhook.model.js:24` says "it
fires for all events"; retries send to the endpoint as it was when the event fired,
paused or deleted, and a restart forgets them.  With N bridges every client gets N
copies of what a worker publishes.  A token verified after its socket is gone leaves
the socket in `clients`, and a second authentication leaves the old room joined.
Concurrent saves of a wallet lose updates; a recreated customer inherits the balance in
Redis.  A rejected SETEX turns an answer into an error or a fallback.  A counter whose
EXPIRE failed counts for ever; limits are only warned about.  With two or four keys only
every second is tried, despite "after exhausting all API keys"
(`openrouter.service.js:161`); `KeysTried` speaks of an odd number.  The agent's history
"capped at 20 messages" (`groq.service.js:37`) is trimmed from 23 on, by two messages a
question, and answers of concurrent turns come on top; no property bounds it.  After a
reconnection the pool keeps the channels of the lost connection and `getChannel`
(`rabbitmq.js:206-219`) hands them out in their turn; `BrokerSound` counts the open ones.  The process's own `close` schedules a
reconnection during shutdown.

### Fairness

`Payout!FairSpec` asks weak fairness of each call, slot, retry timer, reader and adjuster:
an event loop does not stop running callbacks that are ready, store calls answer or
reject, and the broker delivers to a consumer with free prefetch.  `WF` of
`ExpireLock` is Redis's clock; with a budget of no expiry it is never enabled, so
`payout_quiet` shows that the code itself gives locks back.  The scheduler's ticks are
driven by `setInterval`, hence `WF` of each tick's next step; Redis expires the leader
key and `scheduledAt` passes.  In `Idempotency` each request's own steps are weakly fair.
In `Workflows` they are each call's, each slot's, and the `Exit` of a
process that is shutting down, which the two awaits before it bring about.  Clients owe nothing, and
no fairness is assumed of faults, crashes or lost connections.  The other modules
state safety only.

## 4. What is proved

The theorems hold for any number of actors, any values and any budgets; they assume
only what `ASSUME` in the module concerned says of the constants: their types, `Nil`
being none of the values it stands beside, and that there are finitely many of the
actors that are counted or summed over (calls, slots, payouts, retriers, instances,
lookups, turns), that there is a call (all that overlap but one may pass a limit) and a
message to pin.

`FiniteSumTheorems`.  What payouts took, what counts within a period and what a limit
allows are sums over finite sets, and bounds on messages and runs are cardinalities.
The lemmas about `Sum` (`SumAdd`, `SumChange`, `SumAgrees`, `SumNat` and what they rest on)
are proved without an induction theorem, by taking a smallest set for which
they fail.

`PayoutProofs` (`TypeCorrect`, `DebitedAtMostOnce`, `CompletedWasDebited`, `OwnerIsAlone`,
`NoOverdraft`, `LocksAreLeft`, `FailureRefunds`, `MessageIsUnique`, `LockWorks`,
`LedgerImplemented`).
`AtMostOneDebit` is not inductive: it has to be known that a handler standing before
the deduction belongs to a transaction never debited.  `DebitInv` adds what makes it
so.  `CreatedOnce`: a call that has not yet created its transaction finds it absent,
so a transaction enters "initiated" once.  `OwnerClaimed` and `TryOwned`: from the
claim on a handler owns its transaction, which has left "initiated" for good.
`SoleOwner`: therefore a second claim fails and the owner is alone.
`DebitFollowsClaim`: an unclaimed transaction was never debited, nor was one whose
owner has not reached the deduction, and one whose owner stands before
`markAsCompleted` was debited once.  Crashes and lost connections only forget owners,
and the claim's filter keeps the orphaned transaction from ever having another one.
`NeverOverdrawn` speaks of the two stored balances only; `MoneyInv` adds every copy on
its way from one to the other (`seen`, `newBalance`, `opBalance`), all naturals: the Lua
scripts check before they subtract, `ScriptReply` only cuts off, and MongoDB receives
nothing but such copies, or a sum its own guard has checked.  `LocksAreLeft` needs only
`TypeCorrect`: of all actions, a release with the holder's own value and the expiry
are the only ones that take a lock away.
`FailureRefunds` rests on `RefundInv`, which follows a deduction through the handler: what
was taken is either still to be refunded by the handler that took it, or no rejection
has been spent yet.  `MessageIsUnique` rests on `CopyInv`: before its call publishes, a
transaction has no message at all, and a message moves between queue, slot and timer in
one step.  `LockInv`, behind `LockWorks`, says of every unsettled payout which single call,
message or handler holds the lock for it, and that the balance is the opening one less
`TakenOut`.  `LedgerImplemented` is the safety half of the refinement: under the same
conditions the initial state is one of `PayoutLedger` and every step is one of its steps
or a stutter; that an accepted payout is settled there too needs fairness.

`SchedulerProofs` (`SchedulerInvariant`, `ScheduledRunsOnce`, `OutcomesAreTrue`,
`CancelledPlansRest`).  `RunInv` says that a plan in
"pending" was never handed over and is in no tick's hands (`UnclaimedIsNew`), that two
ticks never hold the same plan (`SoleTick`) and that a tick about to execute holds a new
one (`ExecutesNew`).  No step makes a plan pending again, neither a late save of a
cancellation nor an edit.  The leader key plays no part in the proof.
`OutcomeInv` adds that no tick is about to execute a plan shown as failed, and that the
published plans which are shown as failed, or which a tick is about to show so
(`Misled`), are finitely many and no more than the rejected calls and the full buffers:
every step but those leaves `Misled` as it is or takes plans out of it (`MisledStep`,
with the library's facts on cardinality).  `CancelInv` says that a plan whose
cancellation is answered is not pending again, so no claim finds it; it says nothing
of a tick that had claimed the plan before.

`IdempotencyProofs` (`KeyInvariant`, `KeysServeOnce`, `DuplicatesAreBounded`).  While no Redis call was rejected and
the record has not expired, whoever is in the handler intercepts (`HandlingHolds`), one
request does (`SoleHolder`), the record stays pending until that request stores its
response (`HolderAtWork`), and what was told is what is stored (`ToldIsStored`).

`DuplicatesAreBounded` counts instead: each request that got past the record, or may yet,
is paid for by a fault or an expiry, but one (`PassInv`).

`SessionProofs` (`PermitsAreSound`, `KeysCurrent`).  `PermitInv`: whatever is found of an OTP
(its key, the calls that verify or use it, its permits) is at one address (`Places`), so
that the DEL of a key or a permit leaves nothing of it elsewhere; a call about to store a
permit finds its OTP under no key any more, which is why no third verification can
pass; and a permit comes before a change.  A step that only loses some of this is one case
(`LostOtps`); finding, storing and saving are the others.  `AccountInv` says which
documents there are and that before the account only registrations are under way;
`CurrentInv` joins both to the two halves of `KeysAreCurrent`, which are inductive with
them: `late` marks a token or a profile that was out of date when it was stored, and
the call that makes any other one out of date is still to drop it.

`WorkflowProofs` (`RetryInvariant`, `RetriesAreBounded`, `RunInvariant`,
`ResultsAreOneRun`, `RunsAreAlone`, `RunsAreSound`).  The counter alone is not
inductive: a retrier that has read may still increment.  `RetryInv` counts the counter
and those retriers (`Between`) together; with the check in `ReadFailed` the sum stays
within the limit plus the number of clients less one.
`RunInv` ties what a slot has executed to the graph of its job: a walk from the first
node, successful up to its last entry.  `ResultInv` then says that an ended execution tells
such a walk, or has a job whose end is yet to be recorded and will replace the list.
A handler that dies leaves its job in the queue, unless the job was put back before,
which `abandoned` remembers.
`LoneInv` gives the two reasons why runs do not overlap: before anything is
redelivered, the trigger, the job, the run and the retry of an execution are one thing
in turns (`LoneClaim`); before anything is retried, there is one message in the queue and
the hands of connected processes (`LoneJob`).  A handler without connection belongs to an
execution that was redelivered (`CutOff`).
`EffectInv` counts what a node did together with everything that may still execute it;
that one run passes a node once follows from a rank that rises along a graph without
loops.  Two attempts at these proofs failed for good reasons: with messages told
apart by their retry count alone, the two of a race were one, and without `NoLoops`
the bound on effects is false.

`CollaborationProofs` (`NamesAreUnique`, `ReactionsAreCounted`, `ChangesAreKept`,
`ConversationsAreHiddenByChoice`, `ConversationsAreFound`, `DocumentsAreSound`,
`WorkspaceIsSound`).  With these, all properties of run `collaboration` are theorems, for
any number of calls and with every part of the workspace busy at once, where the run has
three calls on one part at a time.  `CallInv` says at which step a suspended call may be;
each part has an invariant of its own, which a step of another part (`Goes`) leaves alone.
`NamesUnique` is inductive with `NamesInv`.
`MessageInv` says what a call on the message holds (`Held`, `WasRead`): the document it
read was, at its version, the message's.  Since `Fresh` refuses a save over another
version, a count changed from a document read earlier is right when it is saved, and
unless two first reactions have made two elements only the caller's own reaction goes
(`ReactionsStay`).  A deleted message gets its text
back only from an edit that had read it before (`StaysDeleted`).
`ChannelInv` says the same of the channel (`Knows`): the members who go are those who
leave (`MembersStay`) and the pin that goes is the one unpinned (`PinsStay`).  What
`Without` leaves of the pins is defined by recursion over their number, and known here
by a smallest number for which the claim fails (`WhatIsLeft`).  `PinsInv` counts the pins
together with the calls about to add one, of which the last to look saw room;
`EditsBounded` does so for the edits a message keeps (`Growing`).
For conversations, `DmInv` has to tell what a reader saw from what has happened since
(`Follows`): its copy of `closedBy` is out of date only by closings, which are single
updates, and by messages, which reset the list (`Pending`).  A conversation that is there
when its call looks is found, which is `OneConversation`.
`SpaceInv` lets nobody but a member act (`Acts`): where there never was one, all calls
create or read, and one of them at most is past the unique slug.  The equation
of `CountTellsMembers` is `Balanced` between the counter, the calls about to change it, the
members, the owner to come and `strays`, and each step moves one from one term to
another.  The cached copy is behind the document only while
a call stands between its write and the drop that follows, or when a slower reader has
stored it (`late`).

`ServicesProofs` (`SpendingInvariant`, `CountersExpire`, `LimitsEnforced`, `WalletSafe`, `WalletsAreSound`,
`NeverStopsTrying`, `BrokerIsSound`, `DeliveriesAreRetriedAlike`, `WebhooksAreSound`, `NewsStaysPersonal`, `SocketsAreSound`,
`LookupsAreSound`, `AiClientsAreSound`).  Each service has an invariant of its own, which no step of
another can disturb, and all properties of run `services` are theorems.  For the limits: the recorder that creates a counter is at its TTL
step, and nothing but a crash or a rejected call takes it away from there.  `CapInv`
compares each counter with what it should hold: of the completed payouts that count
in, those not recorded are still in a `recordSpend`, and an admitted payout found
room for itself in the counter it read.  The proof makes no use of the lock.  It showed
that payouts overtaken while their amount was on its way have to be exempted one by one
(`unchecked`), not those of a whole period.
`WalletInv`: what a debit is about to save was affordable in the
document it read, so it is not negative whatever is there by now.  `BookInv` adds what a
suspended request holds, and that nothing is booked on a profile that is not there
(`NothingMoved`), which a profile made anew needs.  `BrokerInv`: a timer that
is set has its timeout due, and the attempts stay within their limit.  `PoolInv` counts
the pool's channels by connection (`OfLink`): each connection adds at most `PoolMin`, a new
one starts with none, and `LinkInv` ties the phases to a living connection.
`DeliveryInv`: how `attempt` and `good` of a delivery relate to the log.  `StatsInv`: a
webhook's counters are the attempts in the log less those that are `Due`, which are
the deliveries at their `count` step or lost there.  `RoomsInv`: the personal rooms of a
socket are those of users whose token was presented on it, verifications under way
included.  `EntriesInv`: a socket that has not come is in nobody's entry and holds no
pending verification.  `CopiesInv`: a socket received as many copies of an event as
are `Through` to its instance, those emitted there and those no longer on the wire to
it, exactly as many if it was in the room from the start.  `LookupsInv`: each refusal has its
fault or is of a rare currency without an API key; an ip lookup
counted but not yet sent is in `Counting`, which the counter covers besides the
calls; `today` may pass between the two.  `KeyInv`: as long as no answer was garbled the
active key equals the attempt, so that attempt `i` uses key `2 * i % n`, which comes to all
keys when `n` is odd.  `MemoryInv`: a turn
holds no session that is to come, which is why a late answer of a cleared session
cannot reach the next one.

Only model-checked: the liveness properties (`LockFreed`, `AcceptedIsSettled`, `PlansMove`,
`KeySettles`, `ExecutionsEnd`) and the liveness half of the refinement (`ImplementsLedger`),
which need fairness and `ENABLED`.  Every invariant and every action property of a
passing run is a theorem.

## 5. What is not modelled

Components with status `not_modelled` or `partly` in `PROJECT.json`:

  - rate limiting and the set-up of the MongoDB and Redis clients: configuration of
    libraries whose behaviour is not in the repository;
  - validators, routes, e-mail texts, helpers, the audit tool: no state of their own;
  - prompts, the parsing of model answers, scores derived from them: their outcome is
    a free choice where it matters;
  - notification e-mails, SMS, preferences: output nothing reads back;
  - listings, exports, searches, reports: they only read.

Within the modelled ones: malformed messages (the gateway never writes one), the
24-hour TTL of `payout_queue`, and graceful shutdown of the gateway, which is a restart
at a moment when the handlers happen to be done.
