----------------------------- MODULE AiClients ------------------------------
(***************************************************************************)
(* openrouter.service.js: one request's way through the API keys (a client *)
(* is made for every request); and groq.service.js: the memory of the      *)
(* investigation agent, which concurrent turns of a session share.         *)
(***************************************************************************)
EXTENDS Integers, Sequences

CONSTANTS
    KeyCounts,      \* how many OPENROUTER_API_KEYs may be set (up to 4)
    Turns,          \* turns of the conversation that can be on at once
    HistoryLimit,   \* messages kept without trimming (22 in the code)
    MaxSessions     \* bound: how often the conversation is started anew

ASSUME AiClientsAssumption ==
    KeyCounts \subseteq 1..4 /\ HistoryLimit \in Nat \ {0} /\ MaxSessions \in Nat

VARIABLES
    request,    \* the keys, the active one, and the attempts made
    tried,      \* keys the request was sent with (history)
    garbled,    \* a 2xx answer had no content (history)
    memory,     \* of the sessionId: messages, each with the session it belongs to
    turn        \* the session whose memory each turn holds, 0 when it is over

aiVars == <<request, tried, garbled, memory, turn>>

Requests == [n : {0} \cup KeyCounts, active : 0..3, attempt : 0..4, key : 0..3,
             at : {"idle", "next", "sent", "parse", "answered", "failed"}]
Messages == [role : {"system", "user", "assistant"}, session : 1..MaxSessions]

AiClientsType ==
    /\ request \in Requests
    /\ tried \subseteq 0..3
    /\ garbled \in BOOLEAN
    /\ memory.session \in 0..MaxSessions /\ memory.open \in BOOLEAN
    /\ memory.said \in Seq(Messages)
    /\ turn \in [Turns -> 0..MaxSessions]

AiClientsInit ==
    /\ request = [n |-> 0, active |-> 0, attempt |-> 0, key |-> 0, at |-> "idle"]
    /\ tried = {} /\ garbled = FALSE
    /\ memory = [session |-> 0, open |-> FALSE, said |-> << >>]
    /\ turn = [t \in Turns |-> 0]

-----------------------------------------------------------------------------
(* OpenRouter *)

Rotated(k) == [k EXCEPT !.active = (@ + 1) % k.n]
NextAttempt(k) == [k EXCEPT !.attempt = @ + 1, !.at = "next"]

\* 429, 401, 403 and 5xx.
Refused(k) == NextAttempt(Rotated(k))

\* A timeout, a failed connection, another status, an answer without content:
\* after the last attempt nothing is rotated.
Thrown(k) == NextAttempt(IF k.attempt < k.n - 1 THEN Rotated(k) ELSE k)

AskModel(n) ==
    /\ request.at = "idle"
    /\ request' = [request EXCEPT !.n = n, !.at = "next"]
    /\ UNCHANGED <<tried, garbled, memory, turn>>

Exhausted_Early(k) == k.attempt >= k.n - 1
Exhausted(k) == k.attempt >= k.n

\* The attempt is added to an active key that was moved on as well.
SendRequest ==
    LET key == (request.active + request.attempt) % request.n IN
    /\ request.at = "next"
    /\ IF Exhausted(request)
       THEN request' = [request EXCEPT !.at = "failed"] /\ UNCHANGED tried
       ELSE /\ request' = [request EXCEPT !.key = key, !.at = "sent"]
            /\ tried' = tried \cup {key}
    /\ UNCHANGED <<garbled, memory, turn>>

ReceiveStatus ==
    /\ request.at = "sent"
    /\ request' \in {Refused(request), Thrown(request),
                     [request EXCEPT !.active = request.key, !.at = "parse"]}
    /\ UNCHANGED <<tried, garbled, memory, turn>>

ParseAnswer ==
    /\ request.at = "parse"
    /\ \/ request' = [request EXCEPT !.at = "answered"] /\ UNCHANGED garbled
       \/ request' = Thrown(request) /\ garbled' = TRUE
    /\ UNCHANGED <<tried, memory, turn>>

-----------------------------------------------------------------------------
(* The investigation agent *)

Pushed(said, role, s) == Append(said, [role |-> role, session |-> s])

\* splice(1, 2): the system prompt stays.
Trimmed(said) ==
    IF Len(said) > HistoryLimit THEN <<said[1]>> \o SubSeq(said, 4, Len(said)) ELSE said

StartSession ==
    [session |-> memory.session + 1, open |-> TRUE,
     said |-> Pushed(<< >>, "system", memory.session + 1)]

Investigate(t) ==
    LET m == IF memory.open THEN memory ELSE StartSession IN
    /\ turn[t] = 0
    /\ memory.open \/ memory.session < MaxSessions
    /\ memory' = [m EXCEPT !.said = Trimmed(Pushed(@, "user", m.session))]
    /\ turn' = [turn EXCEPT ![t] = m.session]
    /\ UNCHANGED <<request, tried, garbled>>

\* The turn appends to the array it took before the request, which is no
\* session's any more when the session was cleared meanwhile.
Held(s) == memory.open /\ memory.session = s

ReceiveAnswer(t) ==
    /\ turn[t] # 0
    /\ \/ memory' = IF Held(turn[t])
                    THEN [memory EXCEPT !.said = Pushed(@, "assistant", turn[t])] ELSE memory
       \/ UNCHANGED memory
    /\ turn' = [turn EXCEPT ![t] = 0]
    /\ UNCHANGED <<request, tried, garbled>>

ClearSession ==
    /\ memory.open
    /\ memory' = [memory EXCEPT !.open = FALSE, !.said = << >>]
    /\ UNCHANGED <<request, tried, garbled, turn>>

AiClientsNext ==
    \/ \E n \in KeyCounts : AskModel(n)
    \/ SendRequest \/ ReceiveStatus \/ ParseAnswer
    \/ \E t \in Turns : Investigate(t) \/ ReceiveAnswer(t)
    \/ ClearSession

-----------------------------------------------------------------------------
(* Properties *)

(* A request is given up only after as many attempts as there are keys,    *)
(* and when their number is odd each of them was tried then, whichever     *)
(* way the attempts before had failed: "after exhausting all API keys"     *)
(* (openrouter.service.js:82-83, 110, 156, 161).  Which keys an even       *)
(* number of attempts reaches is left open.                                *)
KeysTried ==
    request.at = "failed" /\ ~garbled =>
        /\ request.attempt = request.n
        /\ request.n % 2 = 1 => tried = 0..request.n - 1

(* The agent remembers the system prompt and, of the session it is in, no  *)
(* answer to a question of one that was cleared, though a turn of that     *)
(* session may still be waiting (groq.service.js:255-289, 307).            *)
MemoryOfSession ==
    memory.open =>
        /\ memory.said[1].role = "system"
        /\ \A i \in 1..Len(memory.said) : memory.said[i].session = memory.session

\* A request uses the keys it has, and a session's memory is its own.
AiClientsSound == AiClientsType /\ KeysTried /\ MemoryOfSession
=============================================================================
