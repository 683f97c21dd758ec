------------------------------ MODULE Lookups -------------------------------
(***************************************************************************)
(* public-api.service.js, currency-validator.service.js and                *)
(* ip-validator.service.js: questions to outside services, asked through a *)
(* copy in Redis, with what each falls back on when something fails.       *)
(***************************************************************************)
EXTENDS Integers, FiniteSets

CONSTANTS
    Lookups,        \* requests
    Days,           \* 0..n, days the run lasts (a bound)
    ApiKey          \* whether EXCHANGE_RATE_API_KEY is set

ASSUME LookupsAssumption ==
    /\ IsFiniteSet(Lookups) /\ ApiKey \in BOOLEAN
    /\ IsFiniteSet(Days) /\ 0 \in Days /\ Days = 0..Cardinality(Days) - 1

\* What can be asked.  "plain" is any of the public lookups that have one
\* source: rates, countries, VAT, card numbers, postcodes.  Of the currencies
\* "tabled" is one that FALLBACK_RATES has and "rare" one that it has not.
Currencies == {"tabled", "rare"}
Questions == {"plain", "crypto", "ip"} \cup Currencies

\* Who answers.  Each currency has a cached copy of its own.
Sources == {"plain", "coingecko", "coincap", "tabledrate", "rarerate", "ipapi"}
FirstSource == [plain |-> "plain", crypto |-> "coingecko", ip |-> "ipapi",
                tabled |-> "tabledrate", rare |-> "rarerate"]

VARIABLES
    lookup,     \* of each request: step, question, source, day, answer, faults
    copied,     \* sources with an answer cached in Redis
    today,
    usage,      \* cache:api_count:ipapi of each day: count and time to live
    called,     \* calls sent to ipapi on each day (history)
    uncounted   \* increments that failed on each day (history)

lookupVars == <<lookup, copied, today, usage, called, uncounted>>

Faults == {"get", "source", "store", "coincap"}
Answers == {"none", "cached", "live", "fixed", "open", "unknown", "error"}

NoLookup == [at |-> "idle", ask |-> "plain", source |-> "plain", day |-> 0,
             answer |-> "none", faults |-> {}]

LookupsType ==
    /\ lookup \in [Lookups ->
          [at : {"idle", "get", "count", "expire", "fetch", "store", "over"},
           ask : Questions, source : Sources, day : Days, answer : Answers,
           faults : SUBSET Faults]]
    /\ copied \subseteq Sources
    /\ today \in Days
    /\ usage \in [Days -> [count : Nat, ttl : BOOLEAN]]
    /\ called \in [Days -> Nat] /\ uncounted \in [Days -> Nat]

LookupsInit ==
    /\ lookup = [r \in Lookups |-> NoLookup]
    /\ copied = {}
    /\ today = 0
    /\ usage = [d \in Days |-> [count |-> 0, ttl |-> FALSE]]
    /\ called = [d \in Days |-> 0] /\ uncounted = [d \in Days |-> 0]

In(r, step) == lookup[r].at = step
Put(r, k) == lookup' = [lookup EXCEPT ![r] = k]
Step(r, step) == Put(r, [lookup[r] EXCEPT !.at = step])
Answered(k, a) == [k EXCEPT !.at = "over", !.answer = a]

-----------------------------------------------------------------------------
(* Failures: each catch block *)

\* _fallback
FixedRate_Error(k) == Answered(k, "error")
FixedRate(k) == Answered(k, IF k.ask = "tabled" THEN "fixed" ELSE "error")

Failed(k) ==
    CASE k.ask = "ip"             -> Answered(k, "open")
      [] k.ask \in Currencies     -> FixedRate(k)
      [] k.source = "coingecko"   -> [k EXCEPT !.at = "get", !.source = "coincap"]
      [] OTHER                    -> Answered(k, "error")

\* The read of the cached copy is inside the try block of the two validators
\* and before it in the public lookups.
Unread(k) == IF k.ask \in {"ip"} \cup Currencies THEN Failed(k) ELSE Answered(k, "error")

Fault(k, step) ==
    [k EXCEPT !.faults = @ \cup {IF k.source = "coincap" /\ step # "get" THEN "coincap" ELSE step}]

-----------------------------------------------------------------------------
(* Steps *)

Ask(r, q) ==
    /\ Put(r, [NoLookup EXCEPT !.at = "get", !.ask = q, !.source = FirstSource[q], !.day = today])
    /\ UNCHANGED <<copied, today, usage, called, uncounted>>

\* A miss goes on to the source: the ip lookup by its counter, the currency
\* lookup only with an API key.
Missed(k) ==
    CASE k.ask = "ip"                       -> [k EXCEPT !.at = "count", !.day = today]
      [] k.ask \in Currencies /\ ~ApiKey    -> FixedRate(k)
      [] OTHER                              -> [k EXCEPT !.at = "fetch"]

ReadCopy(r) ==
    LET k == lookup[r] IN
    /\ In(r, "get")
    /\ \/ Put(r, IF k.source \in copied THEN Answered(k, "cached") ELSE Missed(k))
       \/ Put(r, Unread(Fault(k, "get")))
    /\ UNCHANGED <<copied, today, usage, called, uncounted>>

Incremented(u) == [u EXCEPT !.count = @ + 1]

\* _incrementCounter: INCR, then EXPIRE; a failure of either is swallowed.
CountCall(r) ==
    LET d == lookup[r].day IN
    /\ In(r, "count")
    /\ \/ /\ usage' = [usage EXCEPT ![d] = Incremented(@)]
          /\ Step(r, "expire")
          /\ UNCHANGED uncounted
       \/ /\ uncounted' = [uncounted EXCEPT ![d] = @ + 1]
          /\ Step(r, "fetch")
          /\ UNCHANGED usage
    /\ UNCHANGED <<copied, today, called>>

ExpireUsage(r) ==
    LET d == lookup[r].day IN
    /\ In(r, "expire")
    /\ \/ usage' = [usage EXCEPT ![d].ttl = @ \/ usage[d].count > 0]
       \/ UNCHANGED usage
    /\ Step(r, "fetch")
    /\ UNCHANGED <<copied, today, called, uncounted>>

\* The source answers; or answers that it does not know the currency; or
\* fails, or does not answer in time.
Unknown(k) == k.ask \in Currencies

FetchAnswer(r) ==
    LET k == lookup[r] IN
    /\ In(r, "fetch")
    /\ \/ Step(r, "store")
       \/ Unknown(k) /\ Put(r, Answered(k, "unknown"))
       \/ Put(r, Failed(Fault(k, "source")))
    /\ called' = IF k.ask = "ip" THEN [called EXCEPT ![k.day] = @ + 1] ELSE called
    /\ UNCHANGED <<copied, today, usage, uncounted>>

\* SETEX: when it fails, so does the lookup, with the answer at hand.
StoreCopy(r) ==
    LET k == lookup[r] IN
    /\ In(r, "store")
    /\ \/ copied' = copied \cup {k.source} /\ Put(r, Answered(k, "live"))
       \/ Put(r, Failed(Fault(k, "store"))) /\ UNCHANGED copied
    /\ UNCHANGED <<today, usage, called, uncounted>>

ExpireCopy(s) ==
    /\ s \in copied
    /\ copied' = copied \ {s}
    /\ UNCHANGED <<lookup, today, usage, called, uncounted>>

\* A counter outlives its day: its last increment and EXPIRE give it 24 hours.
ExpireCounter(d) ==
    /\ d < today /\ usage[d].ttl
    /\ usage' = [usage EXCEPT ![d] = [count |-> 0, ttl |-> FALSE]]
    /\ UNCHANGED <<lookup, copied, today, called, uncounted>>

Midnight ==
    /\ today + 1 \in Days
    /\ today' = today + 1
    /\ UNCHANGED <<lookup, copied, usage, called, uncounted>>

LookupsNext ==
    \/ \E r \in Lookups, q \in Questions : In(r, "idle") /\ Ask(r, q)
    \/ \E r \in Lookups : \/ ReadCopy(r) \/ FetchAnswer(r) \/ StoreCopy(r)
                         \/ CountCall(r) \/ ExpireUsage(r)
    \/ \E s \in Sources : ExpireCopy(s)
    \/ \E d \in Days : ExpireCounter(d)
    \/ Midnight

-----------------------------------------------------------------------------
(* Properties *)

(* A lookup is refused only for a fault its fallbacks cannot cover: the    *)
(* address check never (ip-validator.service.js:93); crypto prices only    *)
(* when the cache cannot be read or the second source fails too            *)
(* (public-api.service.js:404-411).  Of a currency that FALLBACK_RATES has *)
(* a rate is given whatever fails, and the fixed one only when something   *)
(* does or there is no API key; one that it lacks is refused in no other   *)
(* case (currency-validator.service.js:62-66, 109-133).                    *)
RefusedForFault ==
    \A r \in Lookups :
        LET k == lookup[r] IN
        /\ k.answer = "open" => k.ask = "ip"
        /\ k.answer = "unknown" => k.ask \in Currencies
        /\ k.answer = "fixed" => k.ask = "tabled" /\ (~ApiKey \/ k.faults # {})
        /\ k.answer = "error" =>
              /\ k.ask \notin {"ip", "tabled"}
              /\ k.ask = "crypto" => k.faults \cap {"get", "coincap"} # {}
              /\ k.ask = "plain" => k.faults # {}
              /\ k.ask = "rare" => ~ApiKey \/ k.faults # {}

(* The daily counter tells how often ipapi was called, up to increments    *)
(* that failed, so that the warning before its limit comes in time         *)
(* (ip-validator.service.js:101-123).                                      *)
CallsCounted ==
    \A d \in Days : d >= today => called[d] <= usage[d].count + uncounted[d]

\* Neither a fallback nor the counting of calls breaks down under a fault.
LookupsSound == LookupsType /\ RefusedForFault /\ CallsCounted
=============================================================================
