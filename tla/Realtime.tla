------------------------------ MODULE Realtime ------------------------------
(***************************************************************************)
(* websocket.js and websocket-bridge.js: the sockets of every gateway      *)
(* instance, their rooms, each instance's map of connected users, and the  *)
(* way of an event to the sockets: published by a worker on Redis and      *)
(* forwarded by every instance's bridge, or emitted by one instance, and   *)
(* broadcast to the others by the Redis adapter.                           *)
(***************************************************************************)
EXTENDS Integers, FiniteSets

CONSTANTS
    Instances,      \* gateway processes
    Sockets,
    People,         \* users, and the names of their personal rooms
    Halls,          \* workspace and channel rooms
    News,           \* events
    AsksAtOnce,     \* tokens of one socket being verified at a time (a bound)
    Nobody

ASSUME RealtimeAssumption ==
    /\ People \cap Halls = {} /\ Nobody \notin People \cup Halls \cup Instances
    /\ IsFiniteSet(Instances)

VARIABLES
    listening,  \* instances whose bridge is subscribed
    socket,     \* its instance, state, user, rooms and tokens being verified
    clients,    \* of each instance: the sockets of each user
    news,       \* the progress of each event
    got,        \* copies of each event a socket received
    proved,     \* users a socket presented a valid token of (history)
    late        \* sockets verified after they were gone (history)

realtimeVars == <<listening, socket, clients, news, got, proved, late>>

Rooms == People \cup Halls

Socket == [on : Instances \cup {Nobody}, is : {"new", "up", "down"}, user : People \cup {Nobody},
           rooms : SUBSET Rooms, asks : SUBSET People]
\* copies: instances that emit it; audience: who was there when it came.
Item == [room : Rooms \cup {Nobody}, forward : SUBSET Instances,
         wire : SUBSET (Instances \X Instances), copies : SUBSET Instances,
         audience : SUBSET Sockets]

RealtimeType ==
    /\ listening \subseteq Instances
    /\ socket \in [Sockets -> Socket]
    /\ clients \in [Instances -> [People -> SUBSET Sockets]]
    /\ news \in [News -> Item]
    /\ got \in [Sockets -> [News -> 0..Cardinality(Instances)]]
    /\ proved \in [Sockets -> SUBSET People]
    /\ late \subseteq Sockets

RealtimeInit ==
    /\ listening = {}
    /\ socket = [s \in Sockets |-> [on |-> Nobody, is |-> "new", user |-> Nobody,
                                    rooms |-> {}, asks |-> {}]]
    /\ clients = [i \in Instances |-> [u \in People |-> {}]]
    /\ news = [e \in News |-> [room |-> Nobody, forward |-> {}, wire |-> {}, copies |-> {},
                               audience |-> {}]]
    /\ got = [s \in Sockets |-> [e \in News |-> 0]]
    /\ proved = [s \in Sockets |-> {}]
    /\ late = {}

Up(s) == socket[s].is = "up"

-----------------------------------------------------------------------------
(* Sockets *)

Connect(s, i) ==
    /\ socket[s].is = "new"
    /\ socket' = [socket EXCEPT ![s].on = i, ![s].is = "up"]
    /\ UNCHANGED <<listening, clients, news, got, proved, late>>

\* An authenticate message arrives; the token is verified asynchronously.
Authenticate(s, u) ==
    /\ Up(s) /\ u \notin socket[s].asks /\ Cardinality(socket[s].asks) < AsksAtOnce
    /\ socket' = [socket EXCEPT ![s].asks = @ \cup {u}]
    /\ UNCHANGED <<listening, clients, news, got, proved, late>>

RejectToken(s, u) ==
    /\ u \in socket[s].asks
    /\ socket' = [socket EXCEPT ![s].asks = @ \ {u}]
    /\ UNCHANGED <<listening, clients, news, got, proved, late>>

\* The rest of _handleAuth.  Whether the socket is still there is not asked,
\* and a socket that was another user's keeps that user's room and entry.
AcceptToken(s, u) ==
    /\ u \in socket[s].asks
    /\ socket' = [socket EXCEPT ![s].user = u, ![s].rooms = @ \cup {u}, ![s].asks = @ \ {u}]
    /\ clients' = [clients EXCEPT ![socket[s].on][u] = @ \cup {s}]
    /\ proved' = [proved EXCEPT ![s] = @ \cup {u}]
    /\ late' = IF Up(s) THEN late ELSE late \cup {s}
    /\ UNCHANGED <<listening, news, got>>

\* The rooms a socket may enter: its own and any hall.  A message that asks
\* for several rooms is as many messages; without an allowed one it is refused.
Safe_Any(s, r) == TRUE
Safe(s, r) == r \in Halls \cup {socket[s].user}

Subscribe(s, r) ==
    /\ Up(s) /\ socket[s].user # Nobody /\ Safe(s, r)
    /\ socket' = [socket EXCEPT ![s].rooms = @ \cup {r}]
    /\ UNCHANGED <<listening, clients, news, got, proved, late>>

\* Who is left in the user's entry after s is gone.
Remaining_All(S, s) == S
Remaining(S, s) == S \ {s}

\* Socket.IO takes it out of its rooms.
Disconnect(s) ==
    LET k == socket[s] IN
    /\ Up(s)
    /\ socket' = [socket EXCEPT ![s].is = "down", ![s].rooms = {}]
    /\ clients' = IF k.user = Nobody THEN clients
                  ELSE [clients EXCEPT ![k.on][k.user] = Remaining(@, s)]
    /\ UNCHANGED <<listening, news, got, proved, late>>

-----------------------------------------------------------------------------
(* Events *)

\* The bridge's SUBSCRIBE is confirmed, which may never happen.
Listen(i) ==
    /\ i \notin listening
    /\ listening' = listening \cup {i}
    /\ UNCHANGED <<socket, clients, news, got, proved, late>>

InRoom(r) == {s \in Sockets : Up(s) /\ r \in socket[s].rooms}

\* io.to(room).emit on i: to its own sockets, and by the adapter to the
\* other instances.
Reach(i) == {i} \X (Instances \ {i})

Received(e, i) ==
    LET here == {s \in InRoom(news[e].room) : socket[s].on = i} IN
    [s \in Sockets |-> IF s \in here THEN [got[s] EXCEPT ![e] = @ + 1] ELSE got[s]]

\* A worker publishes event e for room r, or a gateway has one to emit itself.
Announce(e, r, I) ==
    /\ news[e].room = Nobody
    /\ news' = [news EXCEPT ![e] = [room |-> r, forward |-> I, wire |-> {}, copies |-> I,
                                    audience |-> InRoom(r)]]
    /\ UNCHANGED <<listening, socket, clients, got, proved, late>>

PublishNews(e, r) == Announce(e, r, listening)
EmitNews(e, r, i) == Announce(e, r, {i})

Forward(e, i) ==
    /\ i \in news[e].forward
    /\ news' = [news EXCEPT ![e].forward = @ \ {i}, ![e].wire = @ \cup Reach(i)]
    /\ got' = Received(e, i)
    /\ UNCHANGED <<listening, socket, clients, proved, late>>

Relay(e, i, j) ==
    /\ <<i, j>> \in news[e].wire
    /\ news' = [news EXCEPT ![e].wire = @ \ {<<i, j>>}]
    /\ got' = Received(e, j)
    /\ UNCHANGED <<listening, socket, clients, proved, late>>

RealtimeNext ==
    \/ \E s \in Sockets, i \in Instances : Connect(s, i)
    \/ \E s \in Sockets, u \in People :
          Authenticate(s, u) \/ RejectToken(s, u) \/ AcceptToken(s, u)
    \/ \E s \in Sockets : \/ \E r \in Rooms : Subscribe(s, r)
                          \/ Disconnect(s)
    \/ \E i \in Instances : Listen(i)
    \/ \E e \in News, r \in Rooms :
          PublishNews(e, r) \/ \E i \in Instances : EmitNews(e, r, i)
    \/ \E e \in News, i \in Instances :
          Forward(e, i) \/ \E j \in Instances : Relay(e, i, j)

-----------------------------------------------------------------------------
(* Properties *)

(* A socket receives what concerns one user only if a valid token of that  *)
(* user was presented on it: no message, early, late or repeated, opens    *)
(* another user's room (websocket.js:123-176).                             *)
PersonalNews ==
    \A s \in Sockets, e \in News :
        got[s][e] > 0 /\ news[e].room \in People => news[e].room \in proved[s]

(* An instance's map of connected users holds its live sockets under their *)
(* user, and a dead one only if it was verified when it was already gone   *)
(* or had been another user's (websocket.js:100-108, 187-191).             *)
ClientsTellSockets ==
    \A s \in Sockets, u \in People :
        LET k == socket[s]
            listed == k.on # Nobody /\ s \in clients[k.on][u] IN
        /\ k.is = "up" /\ k.user = u => listed
        /\ k.is = "down" /\ listed => s \in late \/ k.user # u

(* When an event is through, whoever was in its room and still is connected *)
(* has it from every instance that emitted it, on whatever instance the     *)
(* socket is: once for an emit of one gateway, and as often as there are    *)
(* bridges for one a worker published (websocket-bridge.js:16,              *)
(* websocket.js:197-220).                                                   *)
EveryCopyArrives ==
    \A e \in News : news[e].forward = {} /\ news[e].wire = {} =>
        \A s \in news[e].audience : Up(s) => got[s][e] = Cardinality(news[e].copies)

\* The instances know their users and reach them on every instance.
RealtimeSound == RealtimeType /\ ClientsTellSockets /\ EveryCopyArrives
=============================================================================
