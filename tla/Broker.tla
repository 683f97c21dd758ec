------------------------------- MODULE Broker -------------------------------
(***************************************************************************)
(* rabbitmq.js: one process's connection to RabbitMQ, its pool of channels *)
(* and its reconnection with growing delays.                               *)
(***************************************************************************)
EXTENDS Integers, Sequences, FiniteSets

CONSTANTS
    PoolMin,            \* channels the pool is given on each connection
    MaxReconnects,      \* maxReconnectAttempts
    MaxConnections      \* bound: connections RabbitMQ accepts

ASSUME BrokerAssumption ==
    /\ PoolMin \in Nat \ {0} /\ MaxReconnects \in Nat \ {0} /\ MaxConnections \in Nat \ {0}

VARIABLES
    phase,      \* how far connect() or disconnect() is
    link,       \* connections so far, and whether the last one is alive
    isConnected,
    channel,    \* the connection this.channel belongs to, 0 for none
    pool,       \* the connection each pooled channel belongs to
    started,    \* the first connect() has succeeded
    timer,      \* this.reconnectTimer is set, and its timeout is still to come
    reconnectAttempts

brokerVars == <<phase, link, isConnected, channel, pool, started, timer, reconnectAttempts>>

Phases == {"dial", "channel", "queues", "pool", "up", "wait", "closing", "gone"}
Setup == {"channel", "queues", "pool"}

BrokerType ==
    /\ phase \in Phases
    /\ link \in [n : 0..MaxConnections, alive : BOOLEAN]
    /\ isConnected \in BOOLEAN
    /\ channel \in 0..MaxConnections
    /\ pool \in Seq(1..MaxConnections) /\ Len(pool) <= PoolMin * MaxConnections
    /\ started \in BOOLEAN
    /\ timer \in [set : BOOLEAN, due : BOOLEAN]
    /\ reconnectAttempts \in 0..MaxReconnects

BrokerInit ==
    /\ phase = "dial"
    /\ link = [n |-> 0, alive |-> FALSE]
    /\ isConnected = FALSE
    /\ channel = 0
    /\ pool = << >> /\ started = FALSE
    /\ timer = [set |-> FALSE, due |-> FALSE]
    /\ reconnectAttempts = 0

-----------------------------------------------------------------------------
(* _scheduleReconnect *)

Scheduled == ~timer.set /\ reconnectAttempts < MaxReconnects

ScheduleReconnect ==
    /\ timer' = IF Scheduled THEN [set |-> TRUE, due |-> TRUE] ELSE timer
    /\ reconnectAttempts' = IF Scheduled THEN reconnectAttempts + 1 ELSE reconnectAttempts

Fired_Kept(t) == [t EXCEPT !.due = FALSE]
Fired(t) == [t EXCEPT !.set = FALSE, !.due = FALSE]

Reconnect ==
    /\ phase = "wait" /\ timer.due
    /\ timer' = Fired(timer)
    /\ phase' = "dial"
    /\ UNCHANGED <<link, isConnected, channel, pool, started, reconnectAttempts>>

-----------------------------------------------------------------------------
(* connect *)

\* The catch block.  A process that never was connected exits: server.js.
ConnectFails ==
    /\ isConnected' = FALSE
    /\ ScheduleReconnect
    /\ phase' = IF started THEN "wait" ELSE "gone"

Dial ==
    /\ phase = "dial"
    /\ \/ /\ link.n < MaxConnections
          /\ link' = [n |-> link.n + 1, alive |-> TRUE]
          /\ isConnected' = TRUE
          /\ reconnectAttempts' = 0
          /\ phase' = "channel"
          /\ UNCHANGED timer
       \/ ConnectFails /\ UNCHANGED link
    /\ UNCHANGED <<channel, pool, started>>

\* The steps that follow are requests to RabbitMQ on the new connection; the
\* listeners for its end are registered after the last of them.
OpenChannel ==
    /\ phase = "channel" /\ link.alive
    /\ channel' = link.n
    /\ phase' = "queues"
    /\ UNCHANGED <<link, isConnected, pool, started, timer, reconnectAttempts>>

SetupQueues ==
    /\ phase = "queues" /\ link.alive
    /\ phase' = "pool"
    /\ UNCHANGED <<link, isConnected, channel, pool, started, timer, reconnectAttempts>>

\* The pool keeps the channels of the connections before.
Filled_Once(p, n) == Len(p) >= PoolMin
Filled(p, n) == Cardinality({i \in 1..Len(p) : p[i] = n}) = PoolMin

AddToPool ==
    /\ phase = "pool" /\ link.alive
    /\ IF Filled(pool, link.n)
       THEN phase' = "up" /\ started' = TRUE /\ UNCHANGED pool
       ELSE pool' = Append(pool, link.n) /\ UNCHANGED <<phase, started>>
    /\ UNCHANGED <<link, isConnected, channel, timer, reconnectAttempts>>

Noticed(p) == p \in {"up", "closing"}

\* The connection is lost.  In the middle of connect() nobody listens: the
\* pending request rejects; once it is up, the listeners see it.
LoseLink ==
    /\ link.alive
    /\ link' = [link EXCEPT !.alive = FALSE]
    /\ IF Noticed(phase)
       THEN /\ isConnected' = FALSE
            /\ ScheduleReconnect
            /\ phase' = IF phase = "up" THEN "wait" ELSE phase
       ELSE UNCHANGED <<isConnected, timer, reconnectAttempts, phase>>
    /\ UNCHANGED <<channel, pool, started>>

SetupFails ==
    /\ phase \in Setup /\ ~link.alive
    /\ ConnectFails
    /\ UNCHANGED <<link, channel, pool, started>>

-----------------------------------------------------------------------------
(* disconnect *)

ClosePool ==
    /\ phase \in {"up", "wait"}
    /\ timer' = [set |-> FALSE, due |-> FALSE]
    /\ pool' = << >>
    /\ phase' = "closing"
    /\ UNCHANGED <<link, isConnected, channel, started, reconnectAttempts>>

\* Closing the channel of a lost connection throws; else the connection's own
\* close event schedules a reconnect, which the end of the process forestalls.
CloseConnection ==
    /\ phase = "closing"
    /\ phase' = "gone"
    /\ IF link.alive
       THEN /\ link' = [link EXCEPT !.alive = FALSE]
            /\ channel' = 0 /\ isConnected' = FALSE
            /\ ScheduleReconnect
       ELSE UNCHANGED <<link, channel, isConnected, timer, reconnectAttempts>>
    /\ UNCHANGED <<pool, started>>

-----------------------------------------------------------------------------
(* isHealthy *)

IsHealthy == isConnected /\ channel # 0

BrokerNext ==
    \/ Reconnect \/ Dial \/ OpenChannel \/ SetupQueues \/ AddToPool
    \/ LoseLink \/ SetupFails \/ ClosePool \/ CloseConnection

-----------------------------------------------------------------------------
(* Properties *)

(* Without a connection a timeout is running, or the attempts are used up: *)
(* whenever and however often the connection is lost, in the middle of a   *)
(* reconnection too, the process does not stop trying (rabbitmq.js:53-69,  *)
(* 150-175).                                                               *)
KeepsTrying ==
    phase = "wait" => timer.due \/ reconnectAttempts = MaxReconnects

(* Of the pooled channels as many as the pool's minimum are open, on the   *)
(* first connection and on every later one (rabbitmq.js:140-148).  The     *)
(* closed ones of earlier connections stay among them, and getChannel      *)
(* (206-219) hands them out in their turn.                                 *)
OpenInPool ==
    phase = "up" =>
        Cardinality({i \in 1..Len(pool) : pool[i] = link.n}) = PoolMin

(* A process that declares itself healthy has its connection, or is just   *)
(* setting it up and about to learn otherwise (rabbitmq.js:221-223).       *)
HealthTellsLink ==
    IsHealthy => link.alive \/ phase \in Setup

\* A process that is up has its connection and the open channels it asked for.
BrokerSound == BrokerType /\ OpenInPool /\ HealthTellsLink
=============================================================================
