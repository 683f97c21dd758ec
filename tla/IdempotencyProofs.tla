------------------------- MODULE IdempotencyProofs -------------------------
(***************************************************************************)
(* One key starts at most one payout and has one answer, for any number of *)
(* requests: KeyInv is inductive, and both promises follow from it.  When  *)
(* Redis fails, the payouts started are bounded by the failures.           *)
(***************************************************************************)
EXTENDS IdempotencyProperties, FiniteSetTheorems, TLAPS

\* What is done in a step that spends an event is no promise any more, and
\* what was undisturbed after a step was so before it.
LEMMA SpendDisturbs ==
    ASSUME TypeOK, NEW kind \in Kinds, Spend(kind)
    PROVE  /\ spent' \in [Kinds -> Nat]
           /\ kind \in {"fault", "expire"} => ~Undisturbed'
           /\ Undisturbed' => Undisturbed
  BY IdempotencyAssumption DEF Spend, TypeOK, Kinds, Undisturbed

LEMMA InitKey == Init => KeyInv
  BY IdempotencyAssumption
  DEF Init, KeyInv, TypeOK, HasAnswer, Undisturbed, HandlingHolds, SoleHolder,
      HeldIsRecorded, HolderAtWork, ToldIsStored, Told, Steps, Kinds, Responses,
      Promise

\* The part that holds whatever happens to Redis.
LEMMA TypeStep == TypeOK /\ HasAnswer /\ [Next]_vars => TypeOK' /\ HasAnswer'
<1> SUFFICES ASSUME TypeOK, HasAnswer, [Next]_vars PROVE TypeOK' /\ HasAnswer'
  OBVIOUS
<1> USE DEF TypeOK, HasAnswer, Steps, Goto, Reply
<1>1. ASSUME NEW r \in Requests, Check(r) PROVE TypeOK' /\ HasAnswer'
  BY <1>1 DEF Check
<1>2. ASSUME NEW r \in Requests, Claim(r) PROVE TypeOK' /\ HasAnswer'
  <2>1. spent' \in [Kinds -> Nat]
    BY <1>2, SpendDisturbs DEF Claim, Kinds
  <2> QED BY <1>2, <2>1 DEF Claim
<1>3. ASSUME NEW r \in Requests, ClaimRefused(r) PROVE TypeOK' /\ HasAnswer'
  BY <1>3 DEF ClaimRefused
<1>4. ASSUME NEW r \in Requests, FailOpen(r) PROVE TypeOK' /\ HasAnswer'
  <2>1. spent' \in [Kinds -> Nat]
    BY <1>4, SpendDisturbs DEF FailOpen, Kinds
  <2> QED BY <1>4, <2>1 DEF FailOpen
<1>5. ASSUME NEW r \in Requests, Handle(r) PROVE TypeOK' /\ HasAnswer'
  <2>1. PICK ok \in BOOLEAN :
           LET response == [status |-> "completed", of |-> r, ok |-> ok] IN
           /\ started' = [started EXCEPT ![r] = ok]
           /\ IF intercepts[r]
              THEN Goto(r, "store") /\ answer' = [answer EXCEPT ![r] = response]
              ELSE Reply(r, response)
    BY <1>5 DEF Handle
  <2>2. [status |-> "completed", of |-> r, ok |-> ok] \in Responses
    BY DEF Responses
  <2> QED BY <1>5, <2>1, <2>2 DEF Handle
<1>6. ASSUME NEW r \in Requests, Store(r) PROVE TypeOK' /\ HasAnswer'
  <2>1. spent' \in [Kinds -> Nat]
    BY <1>6, SpendDisturbs DEF Store, Kinds
  <2> QED BY <1>6, <2>1 DEF Store, Stored
<1>7. ASSUME NEW r \in Requests, Crash(r) PROVE TypeOK' /\ HasAnswer'
  <2>1. spent' \in [Kinds -> Nat]
    BY <1>7, SpendDisturbs DEF Crash, Kinds
  <2> QED BY <1>7, <2>1 DEF Crash
<1>8. ASSUME Expire PROVE TypeOK' /\ HasAnswer'
  <2>1. spent' \in [Kinds -> Nat]
    BY <1>8, SpendDisturbs DEF Expire, Kinds
  <2> QED BY <1>8, <2>1 DEF Expire
<1>9. CASE UNCHANGED vars
  BY <1>9 DEF vars
<1> QED
  BY <1>1, <1>2, <1>3, <1>4, <1>5, <1>6, <1>7, <1>8, <1>9
  DEF Next, RequestStep, Finished

\* While Redis answers and the record lives, the claim is exclusive: each step
\* of each request keeps the holder alone and the record his.
LEMMA PromiseStep ==
    ASSUME TypeOK, HasAnswer, Promise, Undisturbed', [Next]_vars
    PROVE  Promise'
<1> USE IdempotencyAssumption
    DEF TypeOK, Promise, HandlingHolds, SoleHolder, HeldIsRecorded,
        HolderAtWork, ToldIsStored, Told, Steps, Goto, Reply
<1>1. ASSUME NEW r \in Requests, Check(r) PROVE Promise'
  BY <1>1 DEF Check, Conflict, Responses
<1>2. ASSUME NEW r \in Requests, Claim(r) PROVE Promise'
  <2>1. /\ UNCHANGED spent
        /\ intercepts' = [intercepts EXCEPT ![r] = TRUE]
    BY <1>2, SpendDisturbs DEF Claim, Kinds
  <2>2. record = Nil /\ record' = Pending
    BY <1>2 DEF Claim, ClaimWins
  <2>3. \A q \in Requests : ~intercepts[q]
    BY <2>2
  <2>4. \A q \in Requests : ~Told(q)
    BY <2>2
  <2> QED BY <1>2, <2>1, <2>2, <2>3, <2>4 DEF Claim
<1>3. ASSUME NEW r \in Requests, ClaimRefused(r) PROVE Promise'
  BY <1>3 DEF ClaimRefused, Conflict, Responses
<1>4. ASSUME NEW r \in Requests, FailOpen(r) PROVE Promise'
  BY <1>4, SpendDisturbs DEF FailOpen, Kinds
<1>5. ASSUME NEW r \in Requests, Handle(r) PROVE Promise'
  BY <1>5 DEF Handle
<1>6. ASSUME NEW r \in Requests, Store(r) PROVE Promise'
  <2>1. record' = answer[r] /\ answer[r] \in Responses
    BY <1>6, SpendDisturbs DEF Store, Stored, Kinds, HasAnswer
  <2>2. \A q \in Requests : q # r => pc[q] \notin {"handle", "store"}
    BY <1>6 DEF Store
  <2>3. \A q \in Requests : ~Told(q)
    BY <1>6 DEF Store, Pending, Responses
  <2> QED BY <1>6, <2>1, <2>2, <2>3 DEF Store
<1>7. ASSUME NEW r \in Requests, Crash(r) PROVE Promise'
  BY <1>7 DEF Crash
<1>8. ASSUME Expire PROVE Promise'
  BY <1>8, SpendDisturbs DEF Expire, Kinds
<1>9. CASE UNCHANGED vars
  BY <1>9 DEF vars
<1> QED
  BY <1>1, <1>2, <1>3, <1>4, <1>5, <1>6, <1>7, <1>8, <1>9
  DEF Next, RequestStep, Finished

\* No step makes a disturbed run undisturbed again.
LEMMA UndisturbedBefore ==
    ASSUME TypeOK, Undisturbed', [Next]_vars PROVE Undisturbed
  BY SpendDisturbs
  DEF Next, RequestStep, Check, Claim, ClaimRefused, FailOpen, Handle, Store,
      Crash, Expire, Finished, vars, Kinds, Undisturbed

\* KeyInv holds in every state, for every number of requests and events.
THEOREM KeyInvariant == Spec => []KeyInv
<1>1. KeyInv /\ [Next]_vars => KeyInv'
  <2> SUFFICES ASSUME KeyInv, [Next]_vars PROVE KeyInv'
    OBVIOUS
  <2>1. TypeOK' /\ HasAnswer'
    BY TypeStep DEF KeyInv
  <2>2. ASSUME Undisturbed' PROVE Promise'
    BY <2>2, UndisturbedBefore, PromiseStep DEF KeyInv
  <2> QED BY <2>1, <2>2 DEF KeyInv
<1> QED BY InitKey, <1>1, PTL DEF Spec

\* "prevents duplicate payout requests caused by client retries", and "the
\* client gets the same result as the first request", for any number of retries
\* in any number of instances: the handler runs for the request whose claim won
\* alone, and everybody is told what the record holds.
THEOREM KeysServeOnce == Spec => []OncePerKey
<1>1. KeyInv => SinglePayout
  BY DEF KeyInv, Promise, SinglePayout, HandlingHolds, SoleHolder
<1>2. KeyInv => SameAnswer
  BY DEF KeyInv, Promise, SameAnswer, ToldIsStored
<1>3. KeyInv => OncePerKey
  BY <1>1, <1>2 DEF OncePerKey
<1> QED BY KeyInvariant, <1>3, PTL

-----------------------------------------------------------------------------
(* The price of failing open.                                              *)

\* The requests that got, or will get, to the handler; an absent record lets one
\* more through.
Passed == {r \in Requests : pc[r] \in {"handle", "store"} \/ started[r]}
MayPass == IF record = Nil THEN 1 ELSE 0
PassInv ==
    /\ IsFiniteSet(Passed)
    /\ Cardinality(Passed) + MayPass <= 1 + spent["fault"] + spent["expire"]

\* Counting one event more leaves the other counters alone.
LEMMA SpendCounts ==
    ASSUME TypeOK, NEW kind \in Kinds, Spend(kind)
    PROVE  /\ spent'[kind] = spent[kind] + 1
           /\ \A other \in Kinds \ {kind} : spent'[other] = spent[other]
  BY DEF Spend, TypeOK

\* At most one request more gets to the handler: then the record is claimed, or
\* one failure more was counted.
LEMMA PassOne ==
    ASSUME PassInv, NEW r \in Requests, Passed' \subseteq Passed \cup {r},
           MayPass' \in Nat, MayPass \in Nat,
           spent["fault"] \in Nat, spent["expire"] \in Nat,
           spent'["fault"] \in Nat, spent'["expire"] \in Nat,
           Passed' \subseteq Passed \/ MayPass' + 1 + spent["fault"] + spent["expire"]
                                        <= MayPass + spent'["fault"] + spent'["expire"],
           MayPass' + spent["fault"] + spent["expire"]
              <= MayPass + spent'["fault"] + spent'["expire"]
    PROVE  PassInv'
<1>1. IsFiniteSet(Passed) /\ Cardinality(Passed) \in Nat
  BY FS_CardinalityType DEF PassInv
<1>2. /\ IsFiniteSet(Passed \cup {r}) /\ Cardinality(Passed \cup {r}) \in Nat
      /\ Cardinality(Passed \cup {r}) <= Cardinality(Passed) + 1
  <2>1. /\ IsFiniteSet(Passed \cup {r})
        /\ \/ Cardinality(Passed \cup {r}) = Cardinality(Passed)
           \/ Cardinality(Passed \cup {r}) = Cardinality(Passed) + 1
    BY <1>1, FS_AddElement
  <2> QED
    BY <1>1, <2>1
<1>3. /\ IsFiniteSet(Passed') /\ Cardinality(Passed') \in Nat
      /\ Cardinality(Passed') <= Cardinality(Passed \cup {r})
      /\ Passed' \subseteq Passed => Cardinality(Passed') <= Cardinality(Passed)
  BY <1>1, <1>2, FS_Subset, FS_CardinalityType
<1> QED
  BY <1>1, <1>2, <1>3 DEF PassInv

LEMMA InitPass == Init => PassInv
<1> SUFFICES ASSUME Init PROVE PassInv
  OBVIOUS
<1>1. Passed = {}
  BY DEF Init, Passed
<1> QED
  BY <1>1, FS_EmptySet DEF Init, PassInv, MayPass, Kinds

LEMMA PassStep == TypeOK /\ HasAnswer /\ PassInv /\ [Next]_vars => PassInv'
<1> SUFFICES ASSUME TypeOK, HasAnswer, PassInv, [Next]_vars PROVE PassInv'
  OBVIOUS
<1>1. /\ MayPass \in Nat /\ MayPass' \in Nat
      /\ \A kind \in Kinds : spent[kind] \in Nat /\ spent'[kind] \in Nat
  BY TypeStep DEF MayPass, TypeOK
<1>2. "fault" \in Kinds /\ "expire" \in Kinds /\ "crash" \in Kinds
  BY DEF Kinds
<1> USE DEF Goto, Reply, Steps
<1>3. ASSUME NEW r \in Requests, Claim(r) PROVE PassInv'
  <2>1. /\ Passed' \subseteq Passed \cup {r}
        /\ MayPass = 1 /\ MayPass' = 0
    BY <1>3, IdempotencyAssumption DEF Claim, ClaimWins, TypeOK, Passed, MayPass
  <2>2. spent'["expire"] = spent["expire"] /\ spent'["fault"] >= spent["fault"]
    BY <1>1, <1>2, <1>3, SpendCounts DEF Claim
  <2> QED BY <1>1, <1>2, <2>1, <2>2, PassOne
<1>4. ASSUME NEW r \in Requests, FailOpen(r) PROVE PassInv'
  <2>1. Passed' \subseteq Passed \cup {r} /\ MayPass' = MayPass
    BY <1>4 DEF FailOpen, TypeOK, Passed, MayPass
  <2>2. spent'["expire"] = spent["expire"] /\ spent'["fault"] = spent["fault"] + 1
    BY <1>2, <1>4, SpendCounts DEF FailOpen
  <2> QED BY <1>1, <1>2, <2>1, <2>2, PassOne
<1>5. ASSUME NEW r \in Requests, Check(r) \/ ClaimRefused(r) \/ Handle(r) PROVE PassInv'
  <2>1. Passed' \subseteq Passed /\ MayPass' = MayPass /\ UNCHANGED spent
    BY <1>5 DEF Check, ClaimRefused, Handle, TypeOK, Passed, MayPass
  <2> QED BY <1>1, <1>2, <2>1, PassOne
<1>6. ASSUME NEW r \in Requests, Store(r) PROVE PassInv'
  <2>1. Passed' \subseteq Passed
    BY <1>6 DEF Store, TypeOK, Passed
  <2>2. MayPass' <= MayPass
    BY <1>6, IdempotencyAssumption DEF Store, Stored, HasAnswer, MayPass, TypeOK
  <2>3. spent'["expire"] = spent["expire"] /\ spent'["fault"] >= spent["fault"]
    BY <1>1, <1>2, <1>6, SpendCounts DEF Store
  <2> QED BY <1>1, <1>2, <2>1, <2>2, <2>3, PassOne
<1>7. ASSUME NEW r \in Requests, Crash(r) PROVE PassInv'
  <2>1. Passed' \subseteq Passed /\ MayPass' = MayPass
    BY <1>7 DEF Crash, TypeOK, Passed, MayPass
  <2>2. spent'["expire"] = spent["expire"] /\ spent'["fault"] = spent["fault"]
    BY <1>2, <1>7, SpendCounts DEF Crash, Kinds
  <2> QED BY <1>1, <1>2, <2>1, <2>2, PassOne
<1>8. ASSUME Expire PROVE PassInv'
  <2>1. Passed' = Passed /\ MayPass = 0 /\ MayPass' = 1
    BY <1>8 DEF Expire, Passed, MayPass
  <2>2. spent'["expire"] = spent["expire"] + 1 /\ spent'["fault"] = spent["fault"]
    BY <1>2, <1>8, SpendCounts DEF Expire
  <2>3. Cardinality(Passed) \in Nat
    BY FS_CardinalityType DEF PassInv
  <2> QED BY <1>1, <1>2, <2>1, <2>2, <2>3 DEF PassInv
<1>9. ASSUME UNCHANGED vars PROVE PassInv'
  BY <1>9 DEF vars, PassInv, Passed, MayPass
<1> QED
  BY <1>3, <1>4, <1>5, <1>6, <1>7, <1>8, <1>9 DEF Next, RequestStep, Finished

\* Whatever Redis does and whichever instances die, requests with one key start
\* at most one payout more than Redis failed or lost the record.
THEOREM DuplicatesAreBounded == Spec => []DuplicatesBounded
<1>1. TypeOK /\ PassInv => DuplicatesBounded
  <2> SUFFICES ASSUME TypeOK, PassInv PROVE DuplicatesBounded
    OBVIOUS
  <2>1. Began \subseteq Passed /\ IsFiniteSet(Passed)
    BY DEF Began, Passed, PassInv
  <2>2. /\ Cardinality(Began) \in Nat /\ Cardinality(Passed) \in Nat
        /\ Cardinality(Began) <= Cardinality(Passed)
    BY <2>1, FS_Subset, FS_CardinalityType
  <2>3. spent["fault"] \in Nat /\ spent["expire"] \in Nat /\ MayPass \in Nat
    BY DEF TypeOK, Kinds, MayPass
  <2> QED BY <2>2, <2>3 DEF PassInv, DuplicatesBounded
<1>2. Init => TypeOK /\ HasAnswer
  BY InitKey DEF KeyInv
<1> QED BY <1>1, <1>2, TypeStep, InitPass, PassStep, PTL DEF Spec
=============================================================================
