--------------------------- MODULE ServicesProofs ---------------------------
(***************************************************************************)
(* Theorems about the services, for all sets of sockets, requests and      *)
(* deliveries.  Each has its own inductive invariant, which only the steps *)
(* of one service can disturb.                                             *)
(***************************************************************************)
EXTENDS Services, SpendingLimits, FiniteSumTheorems, SequenceTheorems

-----------------------------------------------------------------------------
(* Wallets *)

\* A suspended request holds a copy whose wallets are not negative, and a
\* debit one that can pay for it.
Funded(k) ==
    k.at \in {"credit", "debit"} =>
        /\ k.coin \in Coins /\ k.sum \in Nat
        /\ k.copy.wallet \in [Coins -> Nat]
        /\ k.at = "debit" => k.copy.wallet[k.coin] >= k.sum

WalletInv ==
    /\ profile = [u \in Customers |-> profile[u]]
    /\ wcall = [r \in WalletCalls |-> wcall[r]]
    /\ \A u \in Customers : Exists(u) => profile[u].wallet \in [Coins -> Nat]
    /\ \A r \in WalletCalls : Funded(wcall[r])

LEMMA WalletInvInit == WalletsInit => WalletInv
  BY DEF WalletsInit, WalletInv, Exists, Funded, NoCall

LEMMA WalletInvNext == WalletInv /\ WalletsNext => WalletInv'
<1> SUFFICES ASSUME WalletInv, NEW r \in WalletCalls,
                    \/ Waiting(r) /\ WalletRequest(r)
                    \/ CreateProfile(r) \/ SaveWallet(r)
             PROVE  WalletInv'
  BY DEF WalletsNext
<1> USE DEF WalletInv, Exists, Document
<1>1. ASSUME NEW k, Funded(k), wcall' = [wcall EXCEPT ![r] = k]
      PROVE  /\ wcall' = [q \in WalletCalls |-> wcall'[q]]
             /\ \A q \in WalletCalls : Funded(wcall'[q])
  BY <1>1
<1>2. Funded(NoCall("over"))
  BY DEF Funded, NoCall
<1>3. CASE WalletRequest(r)
  <2>1. PICK u \in Customers :
            \/ \E n \in PrimarySums : FindProfile(r, u, n)
            \/ UpdateProfile(r, u) \/ DeleteProfile(r, u)
            \/ \E c \in Coins, n \in Sums : FindToCredit(r, u, c, n) \/ FindToDebit(r, u, c, n)
    BY <1>3 DEF WalletRequest
  <2>2. CASE \E n \in PrimarySums : FindProfile(r, u, n)
    <3>1. PICK n \in PrimarySums : FindProfile(r, u, n)
      BY <2>2
    <3>2. Funded([at |-> "create", who |-> u, coin |-> NoProfile, sum |-> n,
                  copy |-> profile[u]])
      BY DEF Funded
    <3> QED BY <1>1, <1>2, <3>1, <3>2 DEF FindProfile, EndCall, Suspend
  <2>3. CASE UpdateProfile(r, u)
    <3>1. \A v \in Customers : profile'[v] # NoProfile => profile'[v].wallet \in [Coins -> Nat]
      BY <2>3 DEF UpdateProfile
    <3> QED BY <1>1, <1>2, <2>3, <3>1 DEF UpdateProfile, EndCall
  <2>4. CASE DeleteProfile(r, u)
    BY <1>1, <1>2, <2>4 DEF DeleteProfile, EndCall
  <2>5. CASE \E c \in Coins, n \in Sums : FindToCredit(r, u, c, n) \/ FindToDebit(r, u, c, n)
    <3>1. PICK c \in Coins, n \in Sums : FindToCredit(r, u, c, n) \/ FindToDebit(r, u, c, n)
      BY <2>5
    <3>2. n \in Nat
      BY WalletsAssumption
    <3>3. ASSUME Exists(u)
          PROVE  /\ Funded([at |-> "credit", who |-> u, coin |-> c, sum |-> n,
                            copy |-> profile[u]])
                 /\ Affordable(profile[u].wallet[c], n) =>
                       Funded([at |-> "debit", who |-> u, coin |-> c, sum |-> n,
                               copy |-> profile[u]])
      BY <3>2, <3>3 DEF Funded, Affordable
    <3> QED BY <1>1, <1>2, <3>1, <3>3 DEF FindToCredit, FindToDebit, EndCall, Suspend
  <2> QED BY <2>1, <2>2, <2>3, <2>4, <2>5
<1>4. CASE CreateProfile(r)
  <2>1. NoFunds \in [Coins -> Nat]
    BY DEF NoFunds
  <2>2. \A v \in Customers : profile'[v] # NoProfile => profile'[v].wallet \in [Coins -> Nat]
    BY <1>4, <2>1 DEF CreateProfile
  <2> QED BY <1>1, <1>2, <1>4, <2>2 DEF CreateProfile, EndCall
<1>5. CASE SaveWallet(r)
  <2> DEFINE k == wcall[r]
  <2>1. k.coin \in Coins /\ NewFunds(k) \in Nat
    BY <1>5 DEF SaveWallet, Funded, NewFunds
  <2>2. ASSUME NEW w \in [Coins -> Nat]
        PROVE  SavedWallet(w, k) \in [Coins -> Nat]
    BY <2>1 DEF SavedWallet
  <2>3. \A v \in Customers : profile'[v] # NoProfile => profile'[v].wallet \in [Coins -> Nat]
    BY <1>5, <2>2 DEF SaveWallet
  <2> QED BY <1>1, <1>2, <1>5, <2>3 DEF SaveWallet, EndCall
<1> QED BY <1>3, <1>4, <1>5

(* However requests overlap, no wallet ever falls below zero               *)
(* (payout.controller.js:249-287).                                         *)
THEOREM WalletSafe == Spec => []WalletNeverNegative
<1>1. Init => WalletInv
  BY WalletInvInit DEF Init
<1>2. WalletInv /\ [Next]_vars => WalletInv'
  <2>1. WalletInv /\ UNCHANGED walletVars => WalletInv'
    BY DEF WalletInv, walletVars, Exists, Funded
  <2> QED BY WalletInvNext, <2>1 DEF Next, vars, Runs
<1>3. WalletInv => WalletNeverNegative
  BY DEF WalletInv, WalletNeverNegative, Exists
<1> QED BY <1>1, <1>2, <1>3, PTL DEF Spec

\* Nothing is booked on a wallet whose profile is gone or not yet there.
NothingMoved == \A u \in Customers, c \in Coins : ~Exists(u) => moved[<<u, c>>] = 0

\* What the step a request is suspended before needs.
CallHolds(k) ==
    /\ k.at \in {"idle", "create", "credit", "debit", "over"}
    /\ k.who \in Customers \cup {NoProfile}
    /\ k.coin \in Coins \cup {NoProfile} /\ k.sum \in Nat
    /\ k.at \in {"create", "credit", "debit"} => k.who \in Customers
    /\ k.at = "create" => k.sum \in PrimarySums
CallsHold == \A r \in WalletCalls : CallHolds(wcall[r])
BookInv == WalletInv /\ WalletsType /\ CallsHold /\ WalletAddsUp /\ NothingMoved

LEMMA BookInvInit == WalletsInit => BookInv
<1> SUFFICES ASSUME WalletsInit PROVE BookInv
  OBVIOUS
<1>1. WalletInv
  BY WalletInvInit
<1>2. WalletsType
  BY DEF WalletsInit, WalletsType, NoCall
<1>3. \A u \in Customers, c \in Coins : moved[<<u, c>>] = 0 /\ ~Exists(u)
  BY DEF WalletsInit, Exists
<1>4. CallsHold
  BY DEF WalletsInit, CallsHold, CallHolds, NoCall
<1> QED BY <1>1, <1>2, <1>3, <1>4 DEF BookInv, WalletAddsUp, NothingMoved

LEMMA CallsKeepHolding ==
  ASSUME WalletInv, CallsHold, NEW r \in WalletCalls,
         \/ EndCall(r)
         \/ \E u \in Customers, n \in PrimarySums : Suspend(r, "create", u, NoProfile, n)
         \/ \E step \in {"credit", "debit"}, u \in Customers, c \in Coins, n \in Sums :
               Suspend(r, step, u, c, n)
  PROVE  CallsHold'
<1>1. CallHolds(NoCall("over"))
  BY DEF CallHolds, NoCall
<1>2. ASSUME NEW u \in Customers, NEW n \in PrimarySums, NEW p
      PROVE  CallHolds([at |-> "create", who |-> u, coin |-> NoProfile, sum |-> n, copy |-> p])
  BY WalletsAssumption DEF CallHolds
<1>3. ASSUME NEW step \in {"credit", "debit"}, NEW u \in Customers, NEW c \in Coins,
             NEW n \in Sums, NEW p
      PROVE  CallHolds([at |-> step, who |-> u, coin |-> c, sum |-> n, copy |-> p])
  BY WalletsAssumption DEF CallHolds
<1>4. ASSUME NEW k, CallHolds(k), wcall' = [wcall EXCEPT ![r] = k] PROVE CallsHold'
  BY <1>4 DEF WalletInv, CallsHold, CallHolds
<1> QED BY <1>1, <1>2, <1>3, <1>4 DEF EndCall, Suspend

LEMMA DocumentIsProfile ==
  ASSUME NEW b \in PrimarySums, NEW w \in [Coins -> Int], NEW r \in WalletCalls,
         NEW d \in WalletCalls
  PROVE  /\ Document(b, w, r, d) \in Profiles /\ Document(b, w, r, d) # NoProfile
         /\ Document(b, w, r, d).wallet = w
  BY WalletsAssumption DEF Document, Profiles

LEMMA BookInvNext == BookInv /\ WalletsNext => BookInv'
<1> SUFFICES ASSUME BookInv, NEW r \in WalletCalls,
                    \/ Waiting(r) /\ WalletRequest(r)
                    \/ CreateProfile(r) \/ SaveWallet(r)
             PROVE  BookInv'
  BY DEF WalletsNext
<1>1. WalletInv'
  BY WalletInvNext DEF BookInv, WalletsNext
<1>2. Sums \subseteq Nat /\ PrimarySums \subseteq Nat
  BY WalletsAssumption
<1>3. CASE WalletRequest(r)
  <2>1. PICK u \in Customers :
            \/ \E n \in PrimarySums : FindProfile(r, u, n)
            \/ UpdateProfile(r, u) \/ DeleteProfile(r, u)
            \/ \E c \in Coins, n \in Sums : FindToCredit(r, u, c, n) \/ FindToDebit(r, u, c, n)
    BY <1>3 DEF WalletRequest
  <2>2. CASE \E n \in PrimarySums : FindProfile(r, u, n)
    <3>1. PICK n \in PrimarySums : FindProfile(r, u, n)
      BY <2>2
    <3> QED BY <1>1, <1>2, <3>1, CallsKeepHolding
            DEF FindProfile, BookInv, CallsHold, CallHolds, WalletsType, WalletAddsUp, NothingMoved, Exists
  <2>3. CASE UpdateProfile(r, u)
    <3>1. /\ UNCHANGED <<moved, unclear>> /\ EndCall(r)
          /\ profile' \in [Customers -> Profiles \cup {NoProfile}]
          /\ \A v \in Customers : /\ Exists(v)' <=> Exists(v)
                                  /\ Exists(v) => profile'[v].wallet = profile[v].wallet
      <4>1. CASE Exists(u)
        <5> DEFINE p == profile[u]
        <5>1. p \in Profiles
          BY <4>1 DEF BookInv, WalletsType, Exists
        <5>2. /\ p.balance \in PrimarySums /\ p.wallet \in [Coins -> Int]
              /\ p.by \in WalletCalls
          BY <5>1 DEF Profiles
        <5>3. profile' = [profile EXCEPT ![u] = Document(p.balance, p.wallet, p.by, r)]
          BY <2>3, <4>1 DEF UpdateProfile
        <5> QED BY <2>3, <5>2, <5>3, DocumentIsProfile
                DEF UpdateProfile, BookInv, WalletsType, Exists
      <4>2. CASE ~Exists(u)
        BY <2>3, <4>2 DEF UpdateProfile, BookInv, WalletsType, Exists
      <4> QED BY <4>1, <4>2
    <3> QED BY <1>1, <3>1, CallsKeepHolding
            DEF BookInv, CallsHold, CallHolds, WalletsType, WalletAddsUp, NothingMoved, Exists
  <2>4. CASE DeleteProfile(r, u)
    <3>1. /\ UNCHANGED unclear /\ EndCall(r)
          /\ \A v \in Customers : IF v = u THEN ~Exists(v)' ELSE profile'[v] = profile[v]
          /\ profile' \in [Customers -> Profiles \cup {NoProfile}]
          /\ moved' \in [Customers \X Coins -> Int]
          /\ \A v \in Customers, c \in Coins :
                moved'[<<v, c>>] = IF v = u THEN 0 ELSE moved[<<v, c>>]
      BY <2>4 DEF DeleteProfile, BookInv, WalletInv, WalletsType, Exists
    <3> QED BY <1>1, <3>1, CallsKeepHolding
            DEF BookInv, CallsHold, CallHolds, WalletsType, WalletAddsUp, NothingMoved, Exists
  <2>5. CASE \E c \in Coins, n \in Sums : FindToCredit(r, u, c, n) \/ FindToDebit(r, u, c, n)
    <3>1. PICK c \in Coins, n \in Sums : FindToCredit(r, u, c, n) \/ FindToDebit(r, u, c, n)
      BY <2>5
    <3> QED BY <1>1, <1>2, <3>1, CallsKeepHolding
            DEF FindToCredit, FindToDebit, BookInv, CallsHold, CallHolds, WalletsType, WalletAddsUp, NothingMoved, Exists
  <2> QED BY <2>1, <2>2, <2>3, <2>4, <2>5
<1>4. CASE CreateProfile(r)
  <2> DEFINE u == wcall[r].who
  <2>1. /\ UNCHANGED <<moved, unclear>> /\ EndCall(r)
        /\ \A v \in Customers : (v = u /\ ~Exists(v)) \/ profile'[v] = profile[v]
        /\ profile' = IF ~Exists(u)
                      THEN [profile EXCEPT ![u] = Document(wcall[r].sum, NoFunds, r, r)]
                      ELSE profile
    BY <1>4 DEF CreateProfile, Vacant, BookInv, WalletInv, WalletsType, Exists
  <2>2. wcall[r].sum \in PrimarySums
    BY <1>4 DEF CreateProfile, BookInv, CallsHold, CallHolds
  <2>3. NoFunds \in [Coins -> Int] /\ \A c \in Coins : NoFunds[c] = 0
    BY DEF NoFunds
  <2>4. /\ Document(wcall[r].sum, NoFunds, r, r) \in Profiles
        /\ Document(wcall[r].sum, NoFunds, r, r).wallet = NoFunds
    BY <2>2, <2>3, DocumentIsProfile
  <2>5. CallsHold'
    BY <2>1, CallsKeepHolding DEF BookInv
  <2> HIDE DEF u
  <2> DEFINE new == Document(wcall[r].sum, NoFunds, r, r)
  <2> HIDE DEF u, new
  <2>6. WalletsType'
    BY <2>1, <2>4, <2>5 DEF BookInv, WalletsType, CallsHold, CallHolds, new
  <2>7. \A v \in Customers :
           profile'[v] = profile[v] \/ (~Exists(v) /\ profile'[v].wallet = NoFunds)
    BY <2>1, <2>4 DEF BookInv, WalletsType, new
  <2>8. \A v \in Customers : Exists(v) => Exists(v)' /\ profile'[v] = profile[v]
    BY <2>1 DEF Exists
  <2>9. WalletAddsUp' /\ NothingMoved'
    BY <2>1, <2>3, <2>7, <2>8 DEF BookInv, WalletAddsUp, NothingMoved, Exists
  <2> QED BY <1>1, <2>5, <2>6, <2>9 DEF BookInv
<1>5. CASE SaveWallet(r)
  <2> DEFINE k == wcall[r]
             u == k.who
             c == k.coin
             same == Exists(u) /\ profile[u].by = k.copy.by
  <2>1. EndCall(r) /\ CallsHold'
    BY <1>5, CallsKeepHolding DEF SaveWallet, BookInv
  <2> HIDE DEF k
  <2>2. /\ u \in Customers /\ c \in Coins
        /\ k.copy.wallet[c] \in Nat /\ NewFunds(k) \in Int
    BY <1>5 DEF k, SaveWallet, BookInv, CallsHold, CallHolds, WalletInv, Funded, NewFunds
  <2>3. CASE ~same
    <3>1. UNCHANGED <<profile, moved, unclear>>
      BY <1>5, <2>3 DEF SaveWallet, k
    <3> QED BY <1>1, <2>1, <3>1
            DEF BookInv, CallsHold, CallHolds, WalletsType, WalletAddsUp, NothingMoved, Exists
  <2>4. CASE same
    <3>1. /\ profile' = [profile EXCEPT ![u] =
                           Document(@.balance, SavedWallet(@.wallet, k), @.by, @.details)]
          /\ moved' = [moved EXCEPT ![<<u, c>>] = @ + NewFunds(k) - k.copy.wallet[c]]
          /\ unclear' = IF profile[u].wallet[c] = k.copy.wallet[c]
                        THEN unclear ELSE unclear \cup {<<u, c>>}
      BY <1>5, <2>4 DEF SaveWallet, k
    <3>3. /\ profile[u] \in Profiles
          /\ profile[u].wallet \in [Coins -> Int] /\ moved[<<u, c>>] \in Int
      BY <2>2, <2>4 DEF BookInv, WalletsType, Exists, Profiles
    <3>2. /\ \A v \in Customers \ {u} : profile'[v] = profile[v]
          /\ profile'[u] \in Profiles /\ profile'[u] # NoProfile
          /\ profile'[u].wallet = [profile[u].wallet EXCEPT ![c] = NewFunds(k)]
      <4> DEFINE p == profile[u]
                 w == [p.wallet EXCEPT ![c] = NewFunds(k)]
      <4>1. /\ p.balance \in PrimarySums /\ p.by \in WalletCalls /\ p.details \in WalletCalls
            /\ w \in [Coins -> Int]
        BY <2>2, <3>3 DEF Profiles
      <4>2. profile' = [profile EXCEPT ![u] = Document(p.balance, w, p.by, p.details)]
        BY <3>1 DEF SavedWallet
      <4>3. /\ Document(p.balance, w, p.by, p.details) \in Profiles
            /\ Document(p.balance, w, p.by, p.details) # NoProfile
            /\ Document(p.balance, w, p.by, p.details).wallet = w
        BY <4>1, DocumentIsProfile
      <4> HIDE DEF p, w
      <4> QED BY <2>2, <4>2, <4>3 DEF BookInv, WalletsType, p, w
    <3>4. WalletsType'
      <4>1. profile' \in [Customers -> Profiles \cup {NoProfile}]
        BY <2>2, <3>1, <3>2 DEF BookInv, WalletsType
      <4>2. moved' \in [Customers \X Coins -> Int]
        BY <2>2, <3>1, <3>3 DEF BookInv, WalletsType
      <4> QED BY <2>1, <2>2, <2>4, <3>1, <4>1, <4>2
              DEF BookInv, WalletsType, CallsHold, CallHolds
    <3>5. \A x \in Customers \X Coins :
             moved'[x] = IF x = <<u, c>> THEN moved[x] + NewFunds(k) - k.copy.wallet[c]
                         ELSE moved[x]
      BY <3>1 DEF BookInv, WalletsType
    <3>6. WalletAddsUp'
      <4> SUFFICES ASSUME NEW v \in Customers, NEW b \in Coins,
                          Exists(v)', <<v, b>> \notin unclear'
                   PROVE  profile'[v].wallet[b] = moved'[<<v, b>>]
        BY DEF WalletAddsUp
      <4>1. Exists(v) /\ <<v, b>> \notin unclear
        BY <2>4, <3>1, <3>2 DEF Exists
      <4>2. profile[v].wallet[b] = moved[<<v, b>>]
        BY <4>1 DEF BookInv, WalletAddsUp
      <4>3. CASE v = u /\ b = c
        <5>1. profile'[u].wallet[c] = NewFunds(k)
          BY <2>2, <3>2, <3>3
        <5>2. profile[u].wallet[c] = k.copy.wallet[c]
          BY <3>1, <4>3
        <5>3. moved'[<<u, c>>] = moved[<<u, c>>] + NewFunds(k) - k.copy.wallet[c]
          BY <2>2, <3>5
        <5> QED BY <2>2, <3>3, <4>2, <4>3, <5>1, <5>2, <5>3
      <4>4. CASE v # u \/ b # c
        BY <2>2, <3>2, <3>3, <3>5, <4>2, <4>4
      <4> QED BY <4>3, <4>4
    <3>7. NothingMoved'
      BY <2>4, <3>2, <3>5 DEF BookInv, NothingMoved, Exists
    <3> QED BY <1>1, <2>1, <3>4, <3>6, <3>7 DEF BookInv
  <2> QED BY <2>3, <2>4
<1> QED BY <1>3, <1>4, <1>5

(* A wallet holds what its answered credits and debits add up to, unless    *)
(* two of that very wallet overlapped, whatever becomes of the customer's   *)
(* profile and other wallets meanwhile (payout.controller.js:217-287).      *)
THEOREM WalletsAreSound == Spec => []WalletsSound
<1>1. Init => BookInv
  BY BookInvInit DEF Init
<1>2. BookInv /\ [Next]_vars => BookInv'
  <2>1. BookInv /\ UNCHANGED walletVars => BookInv'
    BY DEF BookInv, walletVars, WalletInv, Exists, Funded, WalletsType, CallsHold,
           CallHolds, WalletAddsUp, NothingMoved
  <2> QED BY BookInvNext, <2>1 DEF Next, vars, Runs
<1>3. BookInv => WalletsSound
  BY DEF BookInv, WalletInv, WalletsSound, WalletNeverNegative, Exists
<1> QED BY <1>1, <1>2, <1>3, PTL DEF Spec

-----------------------------------------------------------------------------
(* The connection to RabbitMQ *)

\* A set timer always has its timeout to come: nothing clears the one and
\* leaves the other.
BrokerInv ==
    /\ timer \in [set : BOOLEAN, due : BOOLEAN]
    /\ reconnectAttempts \in 0..MaxReconnects
    /\ timer.set => timer.due
    /\ KeepsTrying

LEMMA BrokerInvInit == BrokerInit => BrokerInv
  BY BrokerAssumption DEF BrokerInit, BrokerInv, KeepsTrying

\* Scheduling a reconnection leaves a timeout running or no attempt.
LEMMA ReconnectIsScheduled ==
  ASSUME BrokerInv, ScheduleReconnect
  PROVE  /\ timer' \in [set : BOOLEAN, due : BOOLEAN]
         /\ reconnectAttempts' \in 0..MaxReconnects
         /\ timer'.set => timer'.due
         /\ timer'.due \/ reconnectAttempts' = MaxReconnects
  BY BrokerAssumption DEF BrokerInv, ScheduleReconnect, Scheduled

LEMMA BrokerInvNext == BrokerInv /\ BrokerNext => BrokerInv'
<1> SUFFICES ASSUME BrokerInv, BrokerNext PROVE BrokerInv'
  OBVIOUS
<1> USE BrokerAssumption DEF BrokerInv, KeepsTrying
<1>1. CASE Reconnect
  BY <1>1 DEF Reconnect, Fired
<1>2. CASE Dial
  BY <1>2, ReconnectIsScheduled DEF Dial, ConnectFails
<1>3. CASE OpenChannel \/ SetupQueues \/ AddToPool
  BY <1>3 DEF OpenChannel, SetupQueues, AddToPool
<1>4. CASE LoseLink
  BY <1>4, ReconnectIsScheduled DEF LoseLink
<1>5. CASE SetupFails
  BY <1>5, ReconnectIsScheduled DEF SetupFails, ConnectFails
<1>6. CASE ClosePool
  BY <1>6 DEF ClosePool
<1>7. CASE CloseConnection
  BY <1>7, ReconnectIsScheduled DEF CloseConnection
<1> QED BY <1>1, <1>2, <1>3, <1>4, <1>5, <1>6, <1>7 DEF BrokerNext

(* A process without a connection has a timeout running or has used its    *)
(* attempts up (rabbitmq.js:53-69, 150-175).                               *)
THEOREM NeverStopsTrying == Spec => []KeepsTrying
<1>1. Init => BrokerInv
  BY BrokerInvInit DEF Init
<1>2. BrokerInv /\ [Next]_vars => BrokerInv'
  <2>1. BrokerInv /\ UNCHANGED brokerVars => BrokerInv'
    BY DEF BrokerInv, brokerVars, KeepsTrying
  <2> QED BY BrokerInvNext, <2>1 DEF Next, vars, Runs
<1>3. BrokerInv => KeepsTrying
  BY DEF BrokerInv
<1> QED BY <1>1, <1>2, <1>3, PTL DEF Spec

\* The channels of one connection in the pool.  A connection adds PoolMin of them
\* at most, and a new one starts with none.
OfLink(n) == {i \in 1..Len(pool) : pool[i] = n}
InSetup == phase \in Setup
PoolInv ==
    /\ BrokerType
    /\ InSetup \/ phase = "up" => link.n > 0
    /\ \A i \in 1..Len(pool) : pool[i] <= link.n
    /\ phase \in {"channel", "queues"} => OfLink(link.n) = {}
    /\ Cardinality(OfLink(link.n)) <= PoolMin
    /\ Len(pool) <= PoolMin * link.n
    /\ InSetup => Len(pool) + PoolMin <= PoolMin * link.n + Cardinality(OfLink(link.n))
    /\ OpenInPool

\* isConnected outlives the connection during connect() only.
LinkInv ==
    /\ isConnected => link.alive \/ phase \in Setup
    /\ link.alive => phase \in Setup \cup {"up", "closing"}

LEMMA OfLinkFinite ==
  ASSUME pool \in Seq(1..MaxConnections), NEW n
  PROVE  IsFiniteSet(OfLink(n)) /\ Cardinality(OfLink(n)) \in Nat
<1>1. IsFiniteSet(1..Len(pool))
  BY FS_Interval
<1>2. OfLink(n) \subseteq 1..Len(pool)
  BY DEF OfLink
<1> QED BY <1>1, <1>2, FS_Subset, FS_CardinalityType

LEMMA PoolInvInit == BrokerInit => PoolInv /\ LinkInv
<1> SUFFICES ASSUME BrokerInit PROVE PoolInv /\ LinkInv
  OBVIOUS
<1> USE BrokerAssumption
<1>1. OfLink(0) = {} /\ Cardinality(OfLink(0)) = 0
  <2>1. OfLink(0) = {}
    BY DEF BrokerInit, OfLink
  <2> QED BY <2>1, FS_EmptySet
<1>2. BrokerType
  <2>1. PoolMin * MaxConnections \in Nat /\ 0 \in 0..MaxConnections /\ 0 \in 0..MaxReconnects
    OBVIOUS
  <2>2. << >> \in Seq(1..MaxConnections) /\ Len(<< >>) = 0
    OBVIOUS
  <2>3. pool \in Seq(1..MaxConnections) /\ Len(pool) <= PoolMin * MaxConnections
    BY <2>1, <2>2 DEF BrokerInit
  <2>4. /\ link \in [n : 0..MaxConnections, alive : BOOLEAN]
        /\ timer \in [set : BOOLEAN, due : BOOLEAN]
    BY <2>1 DEF BrokerInit
  <2> QED BY <2>1, <2>3, <2>4 DEF BrokerInit, BrokerType, Phases
<1> QED BY <1>1, <1>2 DEF BrokerInit, PoolInv, LinkInv, InSetup, Setup, OpenInPool

LEMMA PoolInvNext == PoolInv /\ BrokerNext => PoolInv'
<1> SUFFICES ASSUME PoolInv, BrokerNext PROVE PoolInv'
  OBVIOUS
<1> USE BrokerAssumption
<1>0. /\ link.n \in 0..MaxConnections /\ link.alive \in BOOLEAN /\ PoolMin * link.n \in Nat
      /\ pool \in Seq(1..MaxConnections) /\ Cardinality(OfLink(link.n)) \in Nat
      /\ link = [n |-> link.n, alive |-> link.alive]
      /\ timer \in [set : BOOLEAN, due : BOOLEAN] /\ reconnectAttempts \in 0..MaxReconnects
  BY OfLinkFinite DEF PoolInv, BrokerType
<1>1. ASSUME ScheduleReconnect
      PROVE  /\ timer' \in [set : BOOLEAN, due : BOOLEAN]
             /\ reconnectAttempts' \in 0..MaxReconnects
  BY <1>0, <1>1 DEF ScheduleReconnect, Scheduled
<1>2. ASSUME UNCHANGED pool, link'.n = link.n,
             BrokerType', phase' = phase \/ phase' \in {"dial", "wait", "closing", "gone"}
      PROVE  PoolInv'
  <2>1. OfLink(link.n)' = OfLink(link.n)
    BY <1>2 DEF OfLink
  <2> QED BY <1>2, <2>1 DEF PoolInv, InSetup, Setup, OpenInPool, OfLink
<1>3. CASE Reconnect
  <2>1. BrokerType'
    BY <1>3, <1>0 DEF Reconnect, Fired, PoolInv, BrokerType, Phases
  <2> QED BY <1>2, <1>3, <2>1 DEF Reconnect
<1>4. CASE Dial
  <2>1. CASE link.n < MaxConnections /\ link' = [n |-> link.n + 1, alive |-> TRUE]
             /\ isConnected' = TRUE /\ reconnectAttempts' = 0 /\ phase' = "channel"
             /\ UNCHANGED timer
    <3>1. BrokerType'
      BY <1>0, <1>4, <2>1 DEF Dial, PoolInv, BrokerType, Phases
    <3>2. OfLink(link.n)' = {} /\ UNCHANGED pool /\ link'.n = link.n + 1
      BY <1>0, <1>4, <2>1 DEF Dial, PoolInv, OfLink
    <3>3. Cardinality(OfLink(link.n)') = 0
      BY <3>2, FS_EmptySet
    <3> DEFINE p == PoolMin * link.n
               q == PoolMin * link'.n
    <3>4. q = p + PoolMin
      <4>1. PoolMin * (link.n + 1) = PoolMin * link.n + PoolMin
        BY <1>0
      <4> QED BY <3>2, <4>1
    <3>5. Len(pool) <= p /\ Len(pool) \in Nat /\ p \in Nat /\ PoolMin \in Nat
      BY <1>0 DEF PoolInv
    <3> HIDE DEF p, q
    <3>6. /\ Len(pool') <= q
          /\ Len(pool') + PoolMin <= q + Cardinality(OfLink(link.n)')
          /\ Cardinality(OfLink(link.n)') <= PoolMin
      BY <3>2, <3>3, <3>4, <3>5
    <3>7. link'.n > 0 /\ \A i \in 1..Len(pool') : pool'[i] <= link'.n
      <4>1. \A i \in 1..Len(pool) : pool[i] \in Nat /\ pool[i] <= link.n
        BY <1>0, ElementOfSeq DEF PoolInv
      <4>2. link.n \in Nat /\ link'.n = link.n + 1 /\ pool' = pool
        BY <1>0, <3>2
      <4> QED BY <4>1, <4>2
    <3> QED BY <2>1, <3>1, <3>2, <3>6, <3>7 DEF PoolInv, OpenInPool, q
  <2>2. CASE ConnectFails /\ UNCHANGED link
    <3>1. BrokerType' /\ phase' \in {"wait", "gone"} /\ UNCHANGED pool
      BY <1>0, <1>1, <1>4, <2>2 DEF Dial, ConnectFails, PoolInv, BrokerType, Phases
    <3> QED BY <1>2, <2>2, <3>1
  <2> QED BY <1>4, <2>1, <2>2 DEF Dial
<1>5. CASE OpenChannel
  <2>1. BrokerType'
    BY <1>0, <1>5 DEF OpenChannel, PoolInv, BrokerType, Phases
  <2>2. OfLink(link.n)' = OfLink(link.n)
    BY <1>5 DEF OpenChannel, OfLink
  <2> QED BY <1>5, <2>1, <2>2 DEF OpenChannel, PoolInv, InSetup, Setup, OpenInPool, OfLink
<1>6. CASE SetupQueues
  <2>1. BrokerType'
    BY <1>0, <1>6 DEF SetupQueues, PoolInv, BrokerType, Phases
  <2>2. OfLink(link.n)' = OfLink(link.n)
    BY <1>6 DEF SetupQueues, OfLink
  <2> QED BY <1>6, <2>1, <2>2 DEF SetupQueues, PoolInv, InSetup, Setup, OpenInPool, OfLink
<1>7. CASE AddToPool
  <2>1. CASE Filled(pool, link.n)
    <3>1. BrokerType'
      BY <1>0, <1>7, <2>1 DEF AddToPool, PoolInv, BrokerType, Phases
    <3>2. OfLink(link.n)' = OfLink(link.n)
      BY <1>7, <2>1 DEF AddToPool, OfLink
    <3> QED BY <1>7, <2>1, <3>1, <3>2
            DEF AddToPool, PoolInv, InSetup, Setup, OpenInPool, OfLink, Filled
  <2>2. CASE ~Filled(pool, link.n)
    <3> DEFINE n == link.n
    <3>1. pool' = Append(pool, n) /\ UNCHANGED <<phase, link>> /\ phase = "pool"
      BY <1>7, <2>2 DEF AddToPool
    <3>2. /\ n \in 1..MaxConnections /\ Len(pool') = Len(pool) + 1 /\ Len(pool) \in Nat
          /\ pool' \in Seq(1..MaxConnections) /\ pool'[Len(pool) + 1] = n
          /\ \A i \in 1..Len(pool) : pool'[i] = pool[i]
      BY <1>0, <3>1 DEF PoolInv, InSetup, Setup
    <3>3. OfLink(n)' = OfLink(n) \cup {Len(pool) + 1} /\ Len(pool) + 1 \notin OfLink(n)
      BY <3>1, <3>2 DEF OfLink
    <3>4. Cardinality(OfLink(n)') = Cardinality(OfLink(n)) + 1
      BY <1>0, <3>3, OfLinkFinite, FS_AddElement
    <3>5. Cardinality(OfLink(n)) < PoolMin
      BY <1>0, <2>2 DEF Filled, PoolInv, OfLink
    <3>6. Len(pool') <= PoolMin * n
      BY <1>0, <3>1, <3>2, <3>5 DEF PoolInv, InSetup, Setup
    <3>7. PoolMin * n <= PoolMin * MaxConnections
      BY <3>2
    <3>8. BrokerType'
      BY <1>0, <1>7, <2>2, <3>1, <3>2, <3>6, <3>7 DEF AddToPool, PoolInv, BrokerType
    <3>9. Cardinality(OfLink(n)') <= PoolMin
      BY <1>0, <3>4, <3>5
    <3>10. Len(pool') + PoolMin <= PoolMin * n + Cardinality(OfLink(n)')
      <4>1. Len(pool) + PoolMin <= PoolMin * n + Cardinality(OfLink(n))
        BY <3>1 DEF PoolInv, InSetup, Setup
      <4> QED BY <1>0, <3>2, <3>4, <4>1
    <3>11. \A i \in 1..Len(pool') : pool'[i] <= n
      <4> SUFFICES ASSUME NEW i \in 1..Len(pool') PROVE pool'[i] <= n
        OBVIOUS
      <4>1. i \in 1..Len(pool) \/ i = Len(pool) + 1
        BY <3>2
      <4> QED BY <3>2, <4>1 DEF PoolInv
    <3> HIDE DEF n
    <3> QED BY <3>1, <3>2, <3>6, <3>8, <3>9, <3>10, <3>11
            DEF PoolInv, InSetup, Setup, OpenInPool, OfLink, n
  <2> QED BY <2>1, <2>2
<1>8. CASE LoseLink
  <2>1. BrokerType' /\ link'.n = link.n
    BY <1>0, <1>1, <1>8 DEF LoseLink, PoolInv, BrokerType, Phases
  <2> QED BY <1>2, <1>8, <2>1 DEF LoseLink
<1>9. CASE SetupFails
  <2>1. BrokerType' /\ phase' \in {"wait", "gone"} /\ UNCHANGED <<pool, link>>
    BY <1>0, <1>1, <1>9 DEF SetupFails, ConnectFails, PoolInv, BrokerType, Phases
  <2> QED BY <1>2, <2>1
<1>10. CASE ClosePool
  <2>1. BrokerType'
    BY <1>0, <1>10 DEF ClosePool, PoolInv, BrokerType, Phases
  <2>2. OfLink(link.n)' = {} /\ pool' = << >> /\ link' = link /\ phase' = "closing"
    BY <1>10 DEF ClosePool, OfLink
  <2> QED BY <1>0, <2>1, <2>2, FS_EmptySet DEF PoolInv, InSetup, Setup, OpenInPool
<1>11. CASE CloseConnection
  <2>1. BrokerType' /\ link'.n = link.n /\ UNCHANGED pool /\ phase' = "gone"
    <3>1. CASE link.alive
      <4>1. /\ phase' = "gone" /\ link' = [link EXCEPT !.alive = FALSE] /\ channel' = 0
            /\ isConnected' = FALSE /\ UNCHANGED <<pool, started>>
        BY <1>11, <3>1 DEF CloseConnection
      <4>2. link' \in [n : 0..MaxConnections, alive : BOOLEAN] /\ link'.n = link.n
        BY <1>0, <4>1
      <4>3. ScheduleReconnect
        BY <1>11, <3>1 DEF CloseConnection
      <4>4. /\ timer' \in [set : BOOLEAN, due : BOOLEAN]
            /\ reconnectAttempts' \in 0..MaxReconnects
        BY <1>1, <4>3
      <4>5. /\ pool' \in Seq(1..MaxConnections) /\ Len(pool') <= PoolMin * MaxConnections
            /\ started' \in BOOLEAN /\ 0 \in 0..MaxConnections
        BY <4>1 DEF PoolInv, BrokerType
      <4> QED BY <4>1, <4>2, <4>4, <4>5 DEF BrokerType, Phases
    <3>2. CASE ~link.alive
      BY <1>11, <3>2 DEF CloseConnection, PoolInv, BrokerType, Phases
    <3> QED BY <3>1, <3>2
  <2> QED BY <1>2, <2>1
<1> QED BY <1>3, <1>4, <1>5, <1>6, <1>7, <1>8, <1>9, <1>10, <1>11 DEF BrokerNext

LEMMA LinkInvNext == BrokerType /\ LinkInv /\ BrokerNext => LinkInv'
<1> SUFFICES ASSUME BrokerType, LinkInv, BrokerNext PROVE LinkInv'
  OBVIOUS
<1>1. link = [n |-> link.n, alive |-> link.alive]
  BY DEF BrokerType
<1>2. CASE Reconnect \/ Dial
  BY <1>1, <1>2 DEF LinkInv, Reconnect, Dial, ConnectFails, Setup
<1>3. CASE OpenChannel \/ SetupQueues \/ AddToPool
  BY <1>1, <1>3 DEF LinkInv, OpenChannel, SetupQueues, AddToPool, Setup
<1>4. CASE LoseLink
  <2>1. phase \in Phases
    BY DEF BrokerType
  <2>2. CASE Noticed(phase)
    BY <1>4, <2>2 DEF LinkInv, LoseLink
  <2>3. CASE ~Noticed(phase)
    BY <1>4, <2>1, <2>3 DEF LinkInv, LoseLink, Noticed
  <2> QED BY <2>2, <2>3
<1>5. CASE SetupFails
  BY <1>5 DEF LinkInv, SetupFails, ConnectFails
<1>6. CASE ClosePool
  BY <1>6 DEF LinkInv, ClosePool, Setup
<1>7. CASE CloseConnection
  BY <1>1, <1>7 DEF LinkInv, CloseConnection, Setup
<1> QED BY <1>2, <1>3, <1>4, <1>5, <1>6, <1>7 DEF BrokerNext

(* The pool of a process that is up has its minimum of open channels on     *)
(* every connection, and a process that declares itself healthy is or is    *)
(* about to learn otherwise (rabbitmq.js:140-148, 206-223).                 *)
THEOREM BrokerIsSound == Spec => []BrokerSound
<1>1. Init => PoolInv /\ LinkInv
  BY PoolInvInit DEF Init
<1>2. PoolInv /\ LinkInv /\ [Next]_vars => PoolInv' /\ LinkInv'
  <2>1. PoolInv /\ LinkInv /\ UNCHANGED brokerVars => PoolInv' /\ LinkInv'
    BY DEF PoolInv, LinkInv, brokerVars, BrokerType, OfLink, InSetup, OpenInPool
  <2>2. PoolInv => BrokerType
    BY DEF PoolInv
  <2> QED BY PoolInvNext, LinkInvNext, <2>1, <2>2 DEF Next, vars, Runs
<1>3. PoolInv /\ LinkInv => BrokerSound
  BY DEF PoolInv, LinkInv, BrokerSound, HealthTellsLink, IsHealthy
<1> QED BY <1>1, <1>2, <1>3, PTL DEF Spec

-----------------------------------------------------------------------------
(* Webhooks *)

\* What the attempts logged for a delivery tell of where it is.
Told(d, log) ==
    LET n == Len(log) IN
    /\ n <= MaxAttempts
    /\ \A i \in 1..n - 1 : ~log[i]
    /\ d.at = "idle" => n = 0
    /\ d.at \in {"post", "log"} => d.attempt = n + 1 /\ (n > 0 => ~log[n])
    /\ d.at \in {"count", "wait"} => d.attempt = n /\ n > 0
    /\ d.at = "count" => log[n] = d.good
    /\ d.at = "wait" => ~log[n] /\ n < MaxAttempts
    /\ d.at = "over" => n > 0 /\ (log[n] \/ n = MaxAttempts)

DeliveryInv ==
    /\ delivery \in [Sent -> Delivery]
    /\ attempts \in [Sent -> Seq(BOOLEAN)]
    /\ \A x \in Sent : Told(delivery[x], attempts[x])

LEMMA DeliveryInvInit == WebhooksInit => DeliveryInv
  BY WebhooksAssumption DEF WebhooksInit, DeliveryInv, Delivery, NoDelivery, Told

LEMMA DeliveryInvNext == DeliveryInv /\ WebhooksNext => DeliveryInv'
<1> SUFFICES ASSUME DeliveryInv, WebhooksNext PROVE DeliveryInv'
  OBVIOUS
<1> USE WebhooksAssumption DEF DeliveryInv
<1>1. Attempt(1) \in Delivery /\ Attempt(1).at = "post" /\ Attempt(1).attempt = 1
  BY DEF Attempt, Delivery
<1>2. ASSUME NEW x \in Sent, NEW d \in Delivery, Told(d, attempts'[x]),
             delivery' = [delivery EXCEPT ![x] = d],
             \A y \in Sent : y # x => attempts'[y] = attempts[y],
             attempts' \in [Sent -> Seq(BOOLEAN)]
      PROVE  DeliveryInv'
  BY <1>2
<1>3. ASSUME NEW f \in Firings, NEW H \in SUBSET Hooks, Fire(f, H)
      PROVE  DeliveryInv'
  <2>1. \A x \in Sent : x[1] = f => delivery[x].at = "idle"
    BY <1>3 DEF Fire, Unfired, Sent
  <2>2. \A x \in Sent : x[1] = f => Told(Attempt(1), attempts[x])
    BY <2>1, <1>1 DEF Told
  <2> QED BY <1>1, <1>3, <2>2 DEF Fire
<1>4. CASE \E h \in Hooks : FindWebhook(h) \/ DeleteWebhook(h)
  BY <1>4 DEF FindWebhook, DeleteWebhook
<1>5. CASE \E h \in Hooks, E \in SUBSET HookEvents : CreateWebhook(h, E)
  BY <1>5 DEF CreateWebhook
<1>6. CASE edit # NoHook /\ \E on \in BOOLEAN, E \in SUBSET HookEvents : SaveWebhook(on, E)
  BY <1>6 DEF SaveWebhook
<1>7. CASE \E f \in Firings : \/ \E e \in HookEvents : DeliverEvent(f, e)
                              \/ \E h \in Hooks : TestWebhook(f, h)
  BY <1>3, <1>7 DEF DeliverEvent, TestWebhook
<1>8. ASSUME NEW x \in Sent,
             \/ \E good \in BOOLEAN : Post(x, good)
             \/ LogAttempt(x) \/ CountAttempt(x) \/ RetryAttempt(x) \/ FailAttempt(x)
      PROVE  DeliveryInv'
  <2> DEFINE d == delivery[x]
             n == Len(attempts[x])
  <2>0. /\ d \in Delivery /\ d.attempt \in 0..MaxAttempts /\ d.good \in BOOLEAN
        /\ n \in Nat /\ attempts[x] \in Seq(BOOLEAN) /\ Told(d, attempts[x])
    BY DEF Delivery
  <2>1. ASSUME NEW good \in BOOLEAN, Post(x, good) PROVE DeliveryInv'
    <3> DEFINE e == [d EXCEPT !.at = "log", !.good = good]
    <3>1. e \in Delivery /\ e.at = "log" /\ e.attempt = d.attempt
      BY <2>0 DEF Delivery
    <3>2. Told(e, attempts[x])
      BY <2>0, <2>1, <3>1 DEF Told, Post, Move
    <3> QED BY <1>2, <2>1, <3>1, <3>2 DEF Post, Move
  <2>2. CASE LogAttempt(x)
    <3> DEFINE e == [d EXCEPT !.at = "count", !.due = TRUE]
               log == Append(attempts[x], d.good)
    <3>1. e \in Delivery /\ e.at = "count" /\ e.attempt = d.attempt /\ e.good = d.good
      BY <2>0 DEF Delivery
    <3>2. /\ log \in Seq(BOOLEAN) /\ Len(log) = n + 1 /\ log[n + 1] = d.good
          /\ \A i \in 1..n : log[i] = attempts[x][i]
      BY <2>0
    <3>3. d.at = "log" /\ d.attempt = n + 1
      BY <2>0, <2>2 DEF LogAttempt, Move, Told
    <3>4. Told(e, log)
      <4>1. \A i \in 1..n : ~attempts[x][i]
        BY <2>0, <3>3 DEF Told
      <4> HIDE DEF e, log
      <4> QED BY <2>0, <3>1, <3>2, <3>3, <4>1 DEF Told
    <3> QED BY <1>2, <2>2, <3>1, <3>2, <3>4 DEF LogAttempt, Move
  <2>3. CASE CountAttempt(x)
    <3> DEFINE e == [d EXCEPT !.at = IF Retried(d) THEN "wait" ELSE "over", !.due = FALSE]
    <3>1. /\ e \in Delivery /\ e.attempt = d.attempt
          /\ e.at = IF Retried(d) THEN "wait" ELSE "over"
      BY <2>0 DEF Delivery
    <3>2. d.at = "count"
      BY <2>3 DEF CountAttempt, Move
    <3>3. Told(e, attempts[x])
      <4> HIDE DEF e
      <4> QED BY <2>0, <3>1, <3>2 DEF Told, Retried
    <3> QED BY <1>2, <2>3, <3>1, <3>3 DEF CountAttempt, Move
  <2>4. CASE RetryAttempt(x)
    <3> DEFINE e == Attempt(d.attempt + 1)
    <3>1. d.at = "wait" /\ d.attempt = n /\ n < MaxAttempts /\ ~attempts[x][n]
      BY <2>0, <2>4 DEF RetryAttempt, Move, Told
    <3>2. e \in Delivery /\ e.at = "post" /\ e.attempt = n + 1
      BY <1>1, <2>0, <3>1 DEF Delivery, Attempt
    <3>3. Told(e, attempts[x])
      <4> HIDE DEF e
      <4> QED BY <2>0, <3>1, <3>2 DEF Told
    <3> QED BY <1>2, <2>4, <3>2, <3>3 DEF RetryAttempt, Move
  <2>5. CASE FailAttempt(x)
    <3> DEFINE e == [d EXCEPT !.at = "lost"]
    <3>1. e \in Delivery /\ e.at = "lost"
      BY <2>0 DEF Delivery
    <3>2. Told(e, attempts[x])
      <4> HIDE DEF e
      <4> QED BY <2>0, <3>1 DEF Told
    <3> QED BY <1>2, <2>5, <3>1, <3>2 DEF FailAttempt
  <2> QED BY <1>8, <2>1, <2>2, <2>3, <2>4, <2>5
<1>9. CASE ForgetDeliveries
  <2>1. ASSUME NEW x \in Sent
        PROVE  delivery'[x] \in Delivery /\ Told(delivery'[x], attempts[x])
    <3>1. CASE delivery[x].at \in {"idle", "over"}
      BY <1>9, <3>1 DEF ForgetDeliveries
    <3>2. CASE delivery[x].at \notin {"idle", "over"}
      <4>1. delivery'[x] = [delivery[x] EXCEPT !.at = "lost"] /\ delivery[x] \in Delivery
        BY <1>9, <3>2 DEF ForgetDeliveries
      <4>2. delivery'[x] \in Delivery /\ delivery'[x].at = "lost"
        BY <4>1 DEF Delivery
      <4> QED BY <4>2 DEF Told
    <3> QED BY <3>1, <3>2
  <2> QED BY <1>9, <2>1 DEF ForgetDeliveries
<1> QED BY <1>4, <1>5, <1>6, <1>7, <1>8, <1>9 DEF WebhooksNext

(* An event is retried at an endpoint MAX_RETRIES times at most, not again  *)
(* after a logged success, and is given up after equally many attempts      *)
(* everywhere (webhook.service.js:238-263).                                 *)
THEOREM DeliveriesAreRetriedAlike == Spec => []RetriedAlike
<1>1. Init => DeliveryInv
  BY DeliveryInvInit DEF Init
<1>2. DeliveryInv /\ [Next]_vars => DeliveryInv'
  <2>1. DeliveryInv /\ UNCHANGED webhookVars => DeliveryInv'
    BY DEF DeliveryInv, webhookVars
  <2> QED BY DeliveryInvNext, <2>1 DEF Next, vars, Runs
<1>3. DeliveryInv => RetriedAlike
  <2> SUFFICES ASSUME DeliveryInv PROVE RetriedAlike
    OBVIOUS
  <2>1. ASSUME NEW x \in Sent
        PROVE  /\ Len(attempts[x]) - 1 <= MaxAttempts
               /\ \A i \in 1..Len(attempts[x]) - 1 : ~attempts[x][i]
               /\ delivery[x].at = "over" => attempts[x] # <<>>
               /\ GivenUp(x) => Len(attempts[x]) = MaxAttempts
    <3>1. /\ Told(delivery[x], attempts[x]) /\ attempts[x] \in Seq(BOOLEAN)
          /\ delivery[x] \in Delivery
      BY DEF DeliveryInv
    <3>2. delivery[x].attempt \in 0..MaxAttempts /\ Len(attempts[x]) \in Nat
      BY <3>1, WebhooksAssumption DEF Delivery
    <3> QED BY <3>1, <3>2, WebhooksAssumption DEF Told, GivenUp
  <2> QED BY <2>1 DEF RetriedAlike
<1> QED BY <1>1, <1>2, <1>3, PTL DEF Spec

\* Which attempts are due to enter the statistics, and that nothing is logged of
\* a webhook before it is registered.
StatsInv ==
    /\ \A x \in Sent :
          /\ delivery[x].at \notin {"count", "lost"} => ~delivery[x].due
          /\ delivery[x].at = "count" => delivery[x].due
    /\ \A h \in Hooks : hook[h].is = "none" =>
          /\ hook[h].ok = 0 /\ hook[h].bad = 0 /\ hook[h].total = 0
          /\ \A x \in Sent : x[2] = h => delivery[x].at = "idle"
    /\ \A h \in Hooks, good \in BOOLEAN : IsFiniteSet(Logged(h, good)) /\ IsFiniteSet(Due(h, good))
    /\ StatsTellLog

LEMMA LoggedIs ==
  ASSUME NEW h, NEW good
  PROVE  \A p : p \in Logged(h, good) <=>
                   \E x \in Sent : /\ x[2] = h
                                   /\ \E i \in 1..Len(attempts[x]) :
                                         attempts[x][i] = good /\ p = <<x, i>>
  BY DEF Logged

\* What the updates make of a document.
There(w, E) == [w EXCEPT !.is = "there", !.active = TRUE, !.events = E]
Deleted(w) == [w EXCEPT !.is = "deleted"]
WithFields(w, on, E) == [w EXCEPT !.active = on, !.events = E]

LEMMA ThereIs ==
  ASSUME NEW w \in Hook, NEW E \in SUBSET HookEvents
  PROVE  /\ There(w, E) \in Hook /\ There(w, E).is = "there" /\ There(w, E).ok = w.ok
         /\ There(w, E).bad = w.bad /\ There(w, E).total = w.total
<1> DEFINE v == There(w, E)
<1>1. v = [w EXCEPT !.is = "there", !.active = TRUE, !.events = E]
  BY DEF There
<1> HIDE DEF v
<1>2. v \in Hook /\ v.is = "there" /\ v.ok = w.ok /\ v.bad = w.bad /\ v.total = w.total
  BY <1>1 DEF Hook
<1> QED BY <1>2 DEF v

LEMMA DeletedIs ==
  ASSUME NEW w \in Hook
  PROVE  /\ Deleted(w) \in Hook /\ Deleted(w).is = "deleted" /\ Deleted(w).ok = w.ok
         /\ Deleted(w).bad = w.bad /\ Deleted(w).total = w.total
<1> DEFINE v == Deleted(w)
<1>1. v = [w EXCEPT !.is = "deleted"]
  BY DEF Deleted
<1> HIDE DEF v
<1>2. v \in Hook /\ v.is = "deleted" /\ v.ok = w.ok /\ v.bad = w.bad /\ v.total = w.total
  BY <1>1 DEF Hook
<1> QED BY <1>2 DEF v

LEMMA SavedIs ==
  ASSUME NEW w \in Hook, NEW read, NEW on \in BOOLEAN, NEW E \in SUBSET HookEvents
  PROVE  /\ Saved(w, read, on, E) \in Hook
         /\ Saved(w, read, on, E).is = w.is /\ Saved(w, read, on, E).ok = w.ok
         /\ Saved(w, read, on, E).bad = w.bad /\ Saved(w, read, on, E).total = w.total
<1>1. ASSUME NEW a \in BOOLEAN, NEW F \in SUBSET HookEvents
      PROVE  /\ WithFields(w, a, F) \in Hook /\ WithFields(w, a, F).is = w.is
             /\ WithFields(w, a, F).ok = w.ok /\ WithFields(w, a, F).bad = w.bad
             /\ WithFields(w, a, F).total = w.total
  <2> DEFINE v == WithFields(w, a, F)
  <2>1. v = [w EXCEPT !.active = a, !.events = F]
    BY DEF WithFields
  <2> HIDE DEF v
  <2>2. v \in Hook /\ v.is = w.is /\ v.ok = w.ok /\ v.bad = w.bad /\ v.total = w.total
    BY <2>1 DEF Hook
  <2> QED BY <2>2 DEF v
<1> DEFINE a == IF on # read.active THEN on ELSE w.active
           F == IF E # read.events THEN E ELSE w.events
<1>2. a \in BOOLEAN /\ F \in SUBSET HookEvents
  BY DEF Hook
<1>3. Saved(w, read, on, E) = WithFields(w, a, F)
  BY DEF Saved, WithFields
<1> HIDE DEF a, F
<1> QED BY <1>1, <1>2, <1>3

LEMMA CountedIs ==
  ASSUME NEW w \in Hook, NEW good
  PROVE  /\ Counted(w, good) \in Hook
         /\ Counted(w, good).is = w.is
         /\ Counted(w, good).total = w.total + 1
         /\ Counted(w, good).ok = IF good THEN w.ok + 1 ELSE w.ok
         /\ Counted(w, good).bad = IF good THEN w.bad ELSE w.bad + 1
<1> DEFINE v == Counted(w, good)
<1>1. /\ w.total + 1 \in Nat /\ w.ok + 1 \in Nat /\ w.bad + 1 \in Nat
      /\ w.ok \in Nat /\ w.bad \in Nat
  BY DEF Hook
<1>2. CASE good
  <2>1. v = [w EXCEPT !.total = w.total + 1, !.ok = w.ok + 1, !.bad = w.bad]
    BY <1>2 DEF Counted
  <2> HIDE DEF v
  <2>2. /\ v \in Hook /\ v.is = w.is /\ v.total = w.total + 1 /\ v.ok = w.ok + 1
        /\ v.bad = w.bad
    BY <1>1, <2>1 DEF Hook
  <2> QED BY <1>2, <2>2 DEF v
<1>3. CASE ~good
  <2>1. v = [w EXCEPT !.total = w.total + 1, !.ok = w.ok, !.bad = w.bad + 1]
    BY <1>3 DEF Counted
  <2> HIDE DEF v
  <2>2. /\ v \in Hook /\ v.is = w.is /\ v.total = w.total + 1 /\ v.ok = w.ok
        /\ v.bad = w.bad + 1
    BY <1>1, <2>1 DEF Hook
  <2> QED BY <1>3, <2>2 DEF v
<1> QED BY <1>2, <1>3

LEMMA HooksKeepType ==
  ASSUME WebhooksType, WebhooksNext
  PROVE  hook' \in [Hooks -> Hook] /\ edit' \in Edits
<1> USE DEF WebhooksType
<1>1. CASE \E h \in Hooks : FindWebhook(h)
  BY <1>1 DEF FindWebhook, Edits, Hook
<1>2. CASE \E h \in Hooks : DeleteWebhook(h)
  <2>1. PICK h \in Hooks : DeleteWebhook(h)
    BY <1>2
  <2>2. hook' = [hook EXCEPT ![h] = Deleted(hook[h])]
    BY <2>1 DEF DeleteWebhook, Deleted
  <2> QED BY <2>1, <2>2, DeletedIs DEF DeleteWebhook
<1>3. CASE \E h \in Hooks, E \in SUBSET HookEvents : CreateWebhook(h, E)
  <2>1. PICK h \in Hooks, E \in SUBSET HookEvents : CreateWebhook(h, E)
    BY <1>3
  <2>2. hook' = [hook EXCEPT ![h] = There(hook[h], E)]
    BY <2>1 DEF CreateWebhook, There
  <2> QED BY <2>1, <2>2, ThereIs DEF CreateWebhook
<1>4. CASE edit # NoHook /\ \E on \in BOOLEAN, E \in SUBSET HookEvents : SaveWebhook(on, E)
  <2>1. PICK on \in BOOLEAN, E \in SUBSET HookEvents : SaveWebhook(on, E)
    BY <1>4
  <2>2. edit.hook \in Hooks
    BY <1>4 DEF Edits
  <2> QED BY <2>1, <2>2, SavedIs DEF SaveWebhook, Edits
<1>5. CASE \E f \in Firings : \/ \E e \in HookEvents : DeliverEvent(f, e)
                              \/ \E h \in Hooks : TestWebhook(f, h)
  BY <1>5 DEF DeliverEvent, TestWebhook, Fire
<1>6. CASE \E x \in Sent : \/ \E good \in BOOLEAN : Post(x, good)
                           \/ LogAttempt(x) \/ RetryAttempt(x) \/ FailAttempt(x)
  <2>1. PICK x \in Sent : \/ \E good \in BOOLEAN : Post(x, good)
                          \/ LogAttempt(x) \/ RetryAttempt(x) \/ FailAttempt(x)
    BY <1>6
  <2>2. UNCHANGED <<hook, edit>>
    <3>1. \A good : Post(x, good) => UNCHANGED <<hook, edit>>
      BY DEF Post
    <3>2. LogAttempt(x) => UNCHANGED <<hook, edit>>
      BY DEF LogAttempt
    <3>3. RetryAttempt(x) => UNCHANGED <<hook, edit>>
      BY DEF RetryAttempt
    <3>4. FailAttempt(x) => UNCHANGED <<hook, edit>>
      BY DEF FailAttempt
    <3> QED BY <2>1, <3>1, <3>2, <3>3, <3>4
  <2> QED BY <2>2
<1>7. CASE \E x \in Sent : CountAttempt(x)
  <2>1. PICK x \in Sent : CountAttempt(x)
    BY <1>7
  <2> QED BY <2>1, CountedIs DEF CountAttempt
<1>8. CASE ForgetDeliveries
  BY <1>8 DEF ForgetDeliveries, Edits
<1> QED BY <1>1, <1>2, <1>3, <1>4, <1>5, <1>6, <1>7, <1>8 DEF WebhooksNext

\* A step that logs nothing and settles no debt of the statistics.
LEMMA BooksKept ==
  ASSUME StatsInv, attempts' = attempts,
         \A x \in Sent : /\ delivery'[x].due = delivery[x].due
                         /\ delivery[x].due => delivery'[x].good = delivery[x].good,
         \A h \in Hooks : /\ hook'[h].ok = hook[h].ok /\ hook'[h].bad = hook[h].bad
                          /\ hook'[h].total = hook[h].total
                          /\ Registered(h)' => Registered(h)
  PROVE  /\ \A h \in Hooks, good \in BOOLEAN : IsFiniteSet(Logged(h, good)') /\ IsFiniteSet(Due(h, good)')
         /\ StatsTellLog'
<1>1. \A h \in Hooks, good \in BOOLEAN :
         Logged(h, good)' = Logged(h, good) /\ Due(h, good)' = Due(h, good)
  BY DEF Logged, Due
<1> QED BY <1>1 DEF StatsInv, StatsTellLog

\* What is due follows the steps of a delivery.
LEMMA DueFollows ==
  ASSUME WebhooksType, StatsInv, NEW x \in Sent, NEW d \in Delivery,
         delivery' = [delivery EXCEPT ![x] = d],
         d.at \notin {"count", "lost"} => ~d.due, d.at = "count" => d.due,
         delivery[x].at # "idle"
  PROVE  /\ \A y \in Sent : /\ delivery'[y].at \notin {"count", "lost"} => ~delivery'[y].due
                            /\ delivery'[y].at = "count" => delivery'[y].due
         /\ \A h \in Hooks : hook[h].is = "none" =>
               \A y \in Sent : y[2] = h => delivery'[y].at = "idle"
  BY DEF WebhooksType, StatsInv, Sent

LEMMA StatsInvInit == WebhooksInit => StatsInv
<1> SUFFICES ASSUME WebhooksInit PROVE StatsInv
  OBVIOUS
<1>1. ASSUME NEW h \in Hooks, NEW good PROVE Due(h, good) = {}
  BY DEF WebhooksInit, Due, NoDelivery
<1>2. ASSUME NEW h \in Hooks, NEW good PROVE Logged(h, good) = {}
  BY DEF WebhooksInit, Logged, NoDelivery
<1> QED BY <1>1, <1>2, FS_EmptySet DEF WebhooksInit, StatsInv, StatsTellLog, NoDelivery, Registered

WebhookInv == WebhooksType /\ DeliveryInv /\ StatsInv

LEMMA CreationKeepsStats ==
  ASSUME WebhookInv, NEW h \in Hooks, NEW E \in SUBSET HookEvents, CreateWebhook(h, E)
  PROVE  StatsInv'
<1>0. hook \in [Hooks -> Hook]
  BY DEF WebhookInv, WebhooksType
<1>2. /\ UNCHANGED <<delivery, attempts>>
      /\ \A g \in Hooks : /\ hook'[g].ok = hook[g].ok /\ hook'[g].bad = hook[g].bad
                          /\ hook'[g].total = hook[g].total
                          /\ g # h => hook'[g].is = hook[g].is
      /\ hook[h].is = "none" /\ hook'[h].is = "there"
  <2>1. hook' = [hook EXCEPT ![h] = There(hook[h], E)]
    BY DEF CreateWebhook, There
  <2> QED BY <1>0, <2>1, ThereIs DEF CreateWebhook
<1>3. \A g \in Hooks, good \in BOOLEAN :
         Logged(g, good)' = Logged(g, good) /\ Due(g, good)' = Due(g, good)
  BY <1>2 DEF Logged, Due
<1>4. \A x \in Sent : x[2] = h => Len(attempts[x]) = 0 /\ ~delivery[x].due
  BY <1>2 DEF WebhookInv, StatsInv, DeliveryInv, Told
<1>5. \A good \in BOOLEAN : Logged(h, good) = {} /\ Due(h, good) = {}
  BY <1>4, LoggedIs DEF Due
<1>6. hook[h].ok = 0 /\ hook[h].bad = 0 /\ hook[h].total = 0
  BY <1>2 DEF WebhookInv, StatsInv
<1>7. \A g \in Hooks : g # h => (Registered(g)' <=> Registered(g))
  BY <1>2 DEF Registered
<1>8. StatsTellLog'
  <2> SUFFICES ASSUME NEW g \in Hooks, Registered(g)'
               PROVE  /\ hook'[g].ok = Cardinality(Logged(g, TRUE)') - Cardinality(Due(g, TRUE)')
                      /\ hook'[g].bad = Cardinality(Logged(g, FALSE)') - Cardinality(Due(g, FALSE)')
                      /\ hook'[g].total = hook'[g].ok + hook'[g].bad
    BY DEF StatsTellLog
  <2>1. CASE g = h
    <3>1. \A good \in BOOLEAN : Logged(g, good)' = {} /\ Due(g, good)' = {}
      BY <1>3, <1>5, <2>1
    <3>2. /\ Cardinality(Logged(g, TRUE)') = 0 /\ Cardinality(Due(g, TRUE)') = 0
          /\ Cardinality(Logged(g, FALSE)') = 0 /\ Cardinality(Due(g, FALSE)') = 0
      BY <3>1, FS_EmptySet
    <3>3. hook'[g].ok = 0 /\ hook'[g].bad = 0 /\ hook'[g].total = 0
      BY <1>2, <1>6, <2>1
    <3> DEFINE lt == Cardinality(Logged(g, TRUE)')
               lf == Cardinality(Logged(g, FALSE)')
               dt == Cardinality(Due(g, TRUE)')
               df == Cardinality(Due(g, FALSE)')
    <3>4. lt = 0 /\ lf = 0 /\ dt = 0 /\ df = 0
      BY <3>2, Zenon
    <3> HIDE DEF lt, lf, dt, df
    <3>5. /\ hook'[g].ok = lt - dt /\ hook'[g].bad = lf - df
          /\ hook'[g].total = hook'[g].ok + hook'[g].bad
      BY <3>3, <3>4
    <3> QED BY <3>5, Zenon DEF lt, lf, dt, df
  <2>2. CASE g # h
    BY <1>2, <1>3, <1>7, <2>2 DEF WebhookInv, StatsInv, StatsTellLog
  <2> QED BY <2>1, <2>2
<1>9. \A g \in Hooks : hook'[g].is = "none" => hook[g].is = "none"
  BY <1>2
<1> QED BY <1>2, <1>3, <1>8, <1>9 DEF WebhookInv, StatsInv

LEMMA RegistrationKeepsStats ==
  ASSUME WebhookInv,
         \/ \E h \in Hooks : FindWebhook(h) \/ DeleteWebhook(h)
         \/ \E h \in Hooks, E \in SUBSET HookEvents : CreateWebhook(h, E)
         \/ edit # NoHook /\ \E on \in BOOLEAN, E \in SUBSET HookEvents : SaveWebhook(on, E)
  PROVE  StatsInv'
<1>0. hook \in [Hooks -> Hook] /\ edit \in Edits
  BY DEF WebhookInv, WebhooksType
<1>1. CASE \E h \in Hooks : FindWebhook(h) \/ DeleteWebhook(h)
  <2>1. PICK h \in Hooks : FindWebhook(h) \/ DeleteWebhook(h)
    BY <1>1
  <2>2. /\ UNCHANGED <<delivery, attempts>>
        /\ \A g \in Hooks : /\ hook'[g].ok = hook[g].ok /\ hook'[g].bad = hook[g].bad
                            /\ hook'[g].total = hook[g].total
                            /\ hook'[g].is \in {hook[g].is, "deleted"}
    <3>1. CASE FindWebhook(h)
      BY <3>1 DEF FindWebhook
    <3>2. CASE DeleteWebhook(h)
      <4>1. hook' = [hook EXCEPT ![h] = Deleted(hook[h])]
        BY <3>2 DEF DeleteWebhook, Deleted
      <4> QED BY <1>0, <3>2, <4>1, DeletedIs DEF DeleteWebhook
    <3> QED BY <2>1, <3>1, <3>2
  <2>3. \A g \in Hooks : /\ Registered(g)' => Registered(g)
                         /\ hook'[g].is = "none" => hook[g].is = "none"
    BY <2>2 DEF Registered
  <2> QED BY <2>2, <2>3, BooksKept DEF WebhookInv, StatsInv
<1>2. CASE \E h \in Hooks, E \in SUBSET HookEvents : CreateWebhook(h, E)
  BY <1>2, CreationKeepsStats
<1>3. CASE edit # NoHook /\ \E on \in BOOLEAN, E \in SUBSET HookEvents : SaveWebhook(on, E)
  <2>1. /\ UNCHANGED <<delivery, attempts>>
        /\ \A g \in Hooks : /\ hook'[g].ok = hook[g].ok /\ hook'[g].bad = hook[g].bad
                            /\ hook'[g].total = hook[g].total /\ hook'[g].is = hook[g].is
    <3>1. PICK on \in BOOLEAN, E \in SUBSET HookEvents : SaveWebhook(on, E)
      BY <1>3
    <3>2. edit.hook \in Hooks
      BY <1>0, <1>3 DEF Edits
    <3> QED BY <1>0, <3>1, <3>2, SavedIs DEF SaveWebhook
  <2> QED BY <2>1, BooksKept DEF WebhookInv, StatsInv, Registered
<1> QED BY <1>1, <1>2, <1>3

\* A step of one delivery that neither logs nor counts.
LEMMA MoveKeepsStats ==
  ASSUME WebhookInv, NEW x \in Sent, NEW e \in Delivery,
         delivery' = [delivery EXCEPT ![x] = e], UNCHANGED <<hook, attempts>>,
         e.due = delivery[x].due, e.due => e.good = delivery[x].good,
         e.at \notin {"count", "lost"} => ~e.due, e.at # "count", delivery[x].at # "idle"
  PROVE  StatsInv'
<1>1. \A y \in Sent : /\ delivery'[y].due = delivery[y].due
                      /\ delivery[y].due => delivery'[y].good = delivery[y].good
  BY DEF WebhookInv, WebhooksType
<1>2. StatsInv /\ WebhooksType
  BY DEF WebhookInv
<1> QED BY <1>1, <1>2, DueFollows, BooksKept DEF StatsInv, Registered

LEMMA PostKeepsStats ==
  ASSUME WebhookInv, NEW x \in Sent, NEW good \in BOOLEAN, Post(x, good)
  PROVE  StatsInv'
<1> DEFINE d == delivery[x]
           e == [d EXCEPT !.at = "log", !.good = good]
<1>0. d \in Delivery
  BY DEF WebhookInv, DeliveryInv
<1>1. e \in Delivery /\ e.due = d.due /\ e.at = "log"
  BY <1>0 DEF Delivery
<1>2. delivery' = [delivery EXCEPT ![x] = e] /\ d.at = "post" /\ UNCHANGED <<hook, attempts>>
  BY DEF Post, Move
<1>3. ~d.due
  BY <1>2 DEF WebhookInv, StatsInv
<1> HIDE DEF e
<1> QED BY <1>1, <1>2, <1>3, MoveKeepsStats

LEMMA AttemptsKeepStats ==
  ASSUME WebhookInv, NEW x \in Sent,
         RetryAttempt(x) \/ FailAttempt(x)
  PROVE  StatsInv'
<1>0. /\ delivery[x] \in Delivery /\ Told(delivery[x], attempts[x])
      /\ delivery[x].at \in {"post", "wait", "log"} => ~delivery[x].due
  BY DEF WebhookInv, DeliveryInv, StatsInv
<1> DEFINE d == delivery[x]
<1>2. CASE RetryAttempt(x)
  <2> DEFINE e == Attempt(d.attempt + 1)
  <2>1. delivery' = [delivery EXCEPT ![x] = e] /\ d.at = "wait" /\ UNCHANGED <<hook, attempts>>
    BY <1>2 DEF RetryAttempt, Move
  <2>2. d.attempt + 1 \in 0..MaxAttempts
    BY <1>0, <2>1, WebhooksAssumption DEF Told, Delivery
  <2>3. e \in Delivery /\ ~e.due /\ e.at = "post"
    BY <2>2 DEF Attempt, Delivery
  <2>4. e.due = d.due
    BY <1>0, <2>1, <2>3 DEF Delivery
  <2> HIDE DEF e
  <2> QED BY <1>0, <2>1, <2>3, <2>4, MoveKeepsStats
<1>3. CASE FailAttempt(x)
  <2> DEFINE e == [d EXCEPT !.at = "lost"]
  <2>1. e \in Delivery /\ e.due = d.due /\ e.good = d.good /\ e.at = "lost"
    BY <1>0 DEF Delivery
  <2>2. /\ delivery' = [delivery EXCEPT ![x] = e] /\ d.at \in {"log", "count"}
        /\ UNCHANGED <<hook, attempts>>
    BY <1>3 DEF FailAttempt
  <2> HIDE DEF e
  <2> QED BY <1>0, <2>1, <2>2, MoveKeepsStats
<1> QED BY <1>2, <1>3

LEMMA LogKeepsStats ==
  ASSUME WebhookInv, NEW x \in Sent, LogAttempt(x),
         NEW h \in Hooks, h = x[2], NEW good \in BOOLEAN, good = delivery[x].good
  PROVE  StatsInv'
<1> DEFINE d == delivery[x]
           e == [d EXCEPT !.at = "count", !.due = TRUE]
           n == Len(attempts[x])
<1>1. /\ delivery \in [Sent -> Delivery] /\ attempts \in [Sent -> Seq(BOOLEAN)]
      /\ d \in Delivery /\ d.at = "log" /\ ~d.due 
      /\ n \in Nat /\ UNCHANGED hook
  BY DEF WebhookInv, WebhooksType, LogAttempt, Move, StatsInv, Delivery, Sent
<1>2. e \in Delivery /\ e.at = "count" /\ e.due /\ e.good = good
  BY <1>1 DEF Delivery
<1>3. /\ delivery' = [delivery EXCEPT ![x] = e]
      /\ attempts' = [attempts EXCEPT ![x] = Append(attempts[x], good)]
  BY DEF LogAttempt, Move
<1>4. /\ \A y \in Sent \ {x} : attempts'[y] = attempts[y] /\ delivery'[y] = delivery[y]
      /\ attempts'[x] = Append(attempts[x], good) /\ delivery'[x] = e
      /\ Len(attempts'[x]) = n + 1 /\ attempts'[x][n + 1] = good
      /\ \A i \in 1..n : attempts'[x][i] = attempts[x][i]
  BY <1>1, <1>3
<1> HIDE DEF d, e, n
<1>5. ASSUME NEW g \in Hooks, NEW b \in BOOLEAN, g # h \/ b # good
      PROVE  Logged(g, b)' = Logged(g, b) /\ Due(g, b)' = Due(g, b)
  <2>1. \A p : (\E y \in Sent : /\ y[2] = g
                               /\ \E i \in 1..Len(attempts'[y]) :
                                     attempts'[y][i] = b /\ p = <<y, i>>)
               <=> p \in Logged(g, b)
    <3>1. ASSUME NEW y \in Sent, y[2] = g
          PROVE  \A i : i \in 1..Len(attempts'[y]) /\ attempts'[y][i] = b
                        <=> i \in 1..Len(attempts[y]) /\ attempts[y][i] = b
      BY <1>1, <1>4, <1>5, <3>1 DEF n
    <3> QED BY <3>1, LoggedIs
  <2>2. Logged(g, b)' = Logged(g, b)
    BY <2>1 DEF Logged
  <2>3. Due(g, b)' = Due(g, b)
    BY <1>1, <1>2, <1>4, <1>5 DEF Due, d
  <2> QED BY <2>2, <2>3
<1>6. /\ Logged(h, good)' = Logged(h, good) \cup {<<x, n + 1>>}
      /\ <<x, n + 1>> \notin Logged(h, good)
  <2>1. \A p : (\E y \in Sent : /\ y[2] = h
                               /\ \E i \in 1..Len(attempts'[y]) :
                                     attempts'[y][i] = good /\ p = <<y, i>>)
               <=> p \in Logged(h, good) \cup {<<x, n + 1>>}
    <3>1. ASSUME NEW y \in Sent, y # x
          PROVE  \A i : i \in 1..Len(attempts'[y]) /\ attempts'[y][i] = good
                        <=> i \in 1..Len(attempts[y]) /\ attempts[y][i] = good
      BY <1>4, <3>1
    <3>2. \A i : i \in 1..Len(attempts'[x]) /\ attempts'[x][i] = good
                 <=> (i \in 1..Len(attempts[x]) /\ attempts[x][i] = good) \/ i = n + 1
      BY <1>1, <1>4 DEF n
    <3> QED BY <3>1, <3>2, LoggedIs 
  <2>4. \A p : p \in Logged(h, good)' <=>
                 (\E y \in Sent : /\ y[2] = h
                                 /\ \E i \in 1..Len(attempts'[y]) :
                                       attempts'[y][i] = good /\ p = <<y, i>>)
    BY DEF Logged
  <2>2. Logged(h, good)' = Logged(h, good) \cup {<<x, n + 1>>}
    BY <2>1, <2>4
  <2>3. <<x, n + 1>> \notin Logged(h, good)
    BY <1>1, LoggedIs DEF n
  <2> QED BY <2>2, <2>3
<1>7. /\ Due(h, good)' = Due(h, good) \cup {x} /\ x \notin Due(h, good)
  BY <1>1, <1>2, <1>4 DEF Due, d
<1>8. /\ IsFiniteSet(Logged(h, good)) /\ IsFiniteSet(Due(h, good))
  BY <1>1 DEF WebhookInv, StatsInv
<1>9. /\ IsFiniteSet(Logged(h, good)') /\ IsFiniteSet(Due(h, good)')
      /\ Cardinality(Logged(h, good)') = Cardinality(Logged(h, good)) + 1
      /\ Cardinality(Due(h, good)') = Cardinality(Due(h, good)) + 1
      /\ Cardinality(Logged(h, good)) \in Nat /\ Cardinality(Due(h, good)) \in Nat
  BY <1>6, <1>7, <1>8, FS_AddElement, FS_CardinalityType
<1>10. \A g \in Hooks, b \in BOOLEAN :
          /\ IsFiniteSet(Logged(g, b)') /\ IsFiniteSet(Due(g, b)')
          /\ Cardinality(Logged(g, b)') - Cardinality(Due(g, b)')
               = Cardinality(Logged(g, b)) - Cardinality(Due(g, b))
  BY <1>5, <1>9 DEF WebhookInv, StatsInv
<1>11. StatsTellLog'
  <2>1. \A g \in Hooks : hook'[g] = hook[g] /\ (Registered(g)' <=> Registered(g))
    BY <1>1 DEF Registered
  <2> QED BY <1>10, <2>1 DEF WebhookInv, StatsInv, StatsTellLog
<1> QED BY <1>1, <1>2, <1>3, <1>10, <1>11, DueFollows DEF WebhookInv, StatsInv, d

LEMMA CountKeepsStats ==
  ASSUME WebhookInv, NEW x \in Sent, CountAttempt(x),
         NEW h \in Hooks, h = x[2], NEW good \in BOOLEAN, good = delivery[x].good
  PROVE  StatsInv'
<1> DEFINE d == delivery[x]
           e == [d EXCEPT !.at = IF Retried(d) THEN "wait" ELSE "over", !.due = FALSE]
<1>1. /\ delivery \in [Sent -> Delivery] /\ hook \in [Hooks -> Hook]
      /\ d \in Delivery /\ d.at = "count" /\ d.due 
      /\ UNCHANGED attempts /\ hook[h] \in Hook
  BY DEF WebhookInv, WebhooksType, CountAttempt, Move, StatsInv, Delivery, Sent
<1>2. e \in Delivery /\ e.at \in {"wait", "over"} /\ ~e.due
  BY <1>1 DEF Delivery
<1>3. /\ delivery' = [delivery EXCEPT ![x] = e]
      /\ hook' = IF Registered(h) THEN [hook EXCEPT ![h] = Counted(@, good)] ELSE hook
  BY DEF CountAttempt, Move
<1> HIDE DEF d, e
<1>4. /\ \A y \in Sent \ {x} : delivery'[y] = delivery[y]
      /\ delivery'[x] = e
  BY <1>1, <1>3
<1>5. \A g \in Hooks, b \in BOOLEAN : Logged(g, b)' = Logged(g, b)
  BY <1>1 DEF Logged
<1>6. ASSUME NEW g \in Hooks, NEW b \in BOOLEAN, g # h \/ b # good
      PROVE  Due(g, b)' = Due(g, b)
  BY <1>1, <1>2, <1>4, <1>6 DEF Due, d
<1>7. Due(h, good)' = Due(h, good) \ {x} /\ x \in Due(h, good)
  BY <1>1, <1>2, <1>4 DEF Due, d
<1>8. /\ IsFiniteSet(Due(h, good)') /\ Cardinality(Due(h, good)) \in Nat
      /\ Cardinality(Due(h, good)') = Cardinality(Due(h, good)) - 1
  BY <1>1, <1>7, FS_RemoveElement, FS_CardinalityType DEF WebhookInv, StatsInv
<1>9. /\ \A g \in Hooks \ {h} : hook'[g] = hook[g]
      /\ Registered(h)' <=> Registered(h)
      /\ hook[h].is = hook'[h].is
      /\ Registered(h) => /\ hook'[h].total = hook[h].total + 1
                          /\ hook'[h].ok = IF good THEN hook[h].ok + 1 ELSE hook[h].ok
                          /\ hook'[h].bad = IF good THEN hook[h].bad ELSE hook[h].bad + 1
      /\ ~Registered(h) => hook'[h] = hook[h]
      /\ hook[h].ok \in Nat /\ hook[h].bad \in Nat /\ hook[h].total \in Nat
  BY <1>1, <1>3 DEF Counted, Registered, Hook
<1>10. \A g \in Hooks, b \in BOOLEAN :
          Cardinality(Logged(g, b)) \in Nat /\ Cardinality(Due(g, b)) \in Nat
  BY FS_CardinalityType DEF WebhookInv, StatsInv
<1>11. StatsTellLog'
  <2> SUFFICES ASSUME NEW g \in Hooks, Registered(g)'
               PROVE  /\ hook'[g].ok = Cardinality(Logged(g, TRUE)') - Cardinality(Due(g, TRUE)')
                      /\ hook'[g].bad = Cardinality(Logged(g, FALSE)') - Cardinality(Due(g, FALSE)')
                      /\ hook'[g].total = hook'[g].ok + hook'[g].bad
    BY DEF StatsTellLog
  <2>1. Registered(g)
    BY <1>9 DEF Registered
  <2>2. /\ hook[g].ok = Cardinality(Logged(g, TRUE)) - Cardinality(Due(g, TRUE))
        /\ hook[g].bad = Cardinality(Logged(g, FALSE)) - Cardinality(Due(g, FALSE))
        /\ hook[g].total = hook[g].ok + hook[g].bad
    BY <2>1 DEF WebhookInv, StatsInv, StatsTellLog
  <2>3. CASE g # h
    BY <1>5, <1>6, <1>9, <2>2, <2>3
  <2>4. CASE g = h /\ good
    <3>1. good = TRUE
      BY <1>1, <2>4
    <3>2. /\ Cardinality(Logged(g, TRUE)') = Cardinality(Logged(g, TRUE))
          /\ Cardinality(Logged(g, FALSE)') = Cardinality(Logged(g, FALSE))
          /\ Cardinality(Due(g, TRUE)') = Cardinality(Due(g, TRUE)) - 1
          /\ Cardinality(Due(g, FALSE)') = Cardinality(Due(g, FALSE))
      BY <1>5, <1>6, <1>8, <2>4, <3>1
    <3>3. /\ Cardinality(Logged(g, TRUE)) \in Nat /\ Cardinality(Logged(g, FALSE)) \in Nat
          /\ Cardinality(Due(g, TRUE)) \in Nat /\ Cardinality(Due(g, FALSE)) \in Nat
      BY <1>10
    <3>4. /\ hook'[g].total = hook[g].total + 1 /\ hook'[g].ok = hook[g].ok + 1
          /\ hook'[g].bad = hook[g].bad
      BY <1>9, <2>1, <2>4
    <3> DEFINE lt == Cardinality(Logged(g, TRUE))
               lf == Cardinality(Logged(g, FALSE))
               dt == Cardinality(Due(g, TRUE))
               df == Cardinality(Due(g, FALSE))
               lt1 == Cardinality(Logged(g, TRUE)')
               lf1 == Cardinality(Logged(g, FALSE)')
               dt1 == Cardinality(Due(g, TRUE)')
               df1 == Cardinality(Due(g, FALSE)')
    <3>5. lt \in Nat /\ lf \in Nat /\ dt \in Nat /\ df \in Nat
      BY <3>3, Zenon
    <3>6. /\ hook[g].ok = lt - dt /\ hook[g].bad = lf - df
          /\ hook[g].total = hook[g].ok + hook[g].bad
      BY <2>2, Zenon
    <3>7. lt1 = lt /\ lf1 = lf /\ dt1 = dt - 1 /\ df1 = df
      BY <3>2, Zenon
    <3> HIDE DEF lt, lf, dt, df, lt1, lf1, dt1, df1
    <3>8. /\ hook'[g].ok = lt1 - dt1 /\ hook'[g].bad = lf1 - df1
          /\ hook'[g].total = hook'[g].ok + hook'[g].bad
      BY <3>4, <3>5, <3>6, <3>7
    <3> QED BY <3>8, Zenon DEF lt1, lf1, dt1, df1
  <2>5. CASE g = h /\ ~good
    <3>1. good = FALSE
      BY <1>1, <2>5
    <3>2. /\ Cardinality(Logged(g, TRUE)') = Cardinality(Logged(g, TRUE))
          /\ Cardinality(Logged(g, FALSE)') = Cardinality(Logged(g, FALSE))
          /\ Cardinality(Due(g, TRUE)') = Cardinality(Due(g, TRUE))
          /\ Cardinality(Due(g, FALSE)') = Cardinality(Due(g, FALSE)) - 1
      BY <1>5, <1>6, <1>8, <2>5, <3>1
    <3>3. /\ Cardinality(Logged(g, TRUE)) \in Nat /\ Cardinality(Logged(g, FALSE)) \in Nat
          /\ Cardinality(Due(g, TRUE)) \in Nat /\ Cardinality(Due(g, FALSE)) \in Nat
      BY <1>10
    <3>4. /\ hook'[g].total = hook[g].total + 1 /\ hook'[g].ok = hook[g].ok
          /\ hook'[g].bad = hook[g].bad + 1
      BY <1>9, <2>1, <2>5
    <3> DEFINE lt == Cardinality(Logged(g, TRUE))
               lf == Cardinality(Logged(g, FALSE))
               dt == Cardinality(Due(g, TRUE))
               df == Cardinality(Due(g, FALSE))
               lt1 == Cardinality(Logged(g, TRUE)')
               lf1 == Cardinality(Logged(g, FALSE)')
               dt1 == Cardinality(Due(g, TRUE)')
               df1 == Cardinality(Due(g, FALSE)')
    <3>5. lt \in Nat /\ lf \in Nat /\ dt \in Nat /\ df \in Nat
      BY <3>3, Zenon
    <3>6. /\ hook[g].ok = lt - dt /\ hook[g].bad = lf - df
          /\ hook[g].total = hook[g].ok + hook[g].bad
      BY <2>2, Zenon
    <3>7. lt1 = lt /\ lf1 = lf /\ dt1 = dt /\ df1 = df - 1
      BY <3>2, Zenon
    <3> HIDE DEF lt, lf, dt, df, lt1, lf1, dt1, df1
    <3>8. /\ hook'[g].ok = lt1 - dt1 /\ hook'[g].bad = lf1 - df1
          /\ hook'[g].total = hook'[g].ok + hook'[g].bad
      BY <3>4, <3>5, <3>6, <3>7
    <3> QED BY <3>8, Zenon DEF lt1, lf1, dt1, df1
  <2> QED BY <2>3, <2>4, <2>5
<1>12. \A g \in Hooks, b \in BOOLEAN : IsFiniteSet(Logged(g, b)') /\ IsFiniteSet(Due(g, b)')
  BY <1>5, <1>6, <1>8 DEF WebhookInv, StatsInv
<1>13. \A g \in Hooks : hook'[g].is = "none" =>
          /\ hook'[g].ok = 0 /\ hook'[g].bad = 0 /\ hook'[g].total = 0
          /\ hook[g].is = "none"
  BY <1>9 DEF WebhookInv, StatsInv, Registered
<1> QED BY <1>1, <1>2, <1>3, <1>11, <1>12, <1>13, DueFollows DEF WebhookInv, StatsInv, d

LEMMA FiringKeepsStats ==
  ASSUME WebhookInv, NEW f \in Firings,
         \/ \E e \in HookEvents : DeliverEvent(f, e)
         \/ \E h \in Hooks : TestWebhook(f, h)
  PROVE  StatsInv'
<1>0. delivery \in [Sent -> Delivery] /\ StatsInv
  BY DEF WebhookInv, WebhooksType
<1>1. PICK H \in SUBSET Hooks : Fire(f, H) /\ \A h \in H : Registered(h)
  <2>1. ASSUME NEW e \in HookEvents, DeliverEvent(f, e)
        PROVE  \E H \in SUBSET Hooks : Fire(f, H) /\ \A h \in H : Registered(h)
    <3>1. /\ {h \in Hooks : Wanted(h, e)} \in SUBSET Hooks
          /\ \A h \in {g \in Hooks : Wanted(g, e)} : Registered(h)
      BY DEF Wanted
    <3> QED BY <2>1, <3>1 DEF DeliverEvent
  <2>2. ASSUME NEW h \in Hooks, TestWebhook(f, h)
        PROVE  \E H \in SUBSET Hooks : Fire(f, H) /\ \A g \in H : Registered(g)
    BY <2>2 DEF TestWebhook
  <2> QED BY <2>1, <2>2
<1>2. \A x \in Sent : x[1] = f => delivery[x].at = "idle" /\ ~delivery[x].due
  BY <1>0, <1>1 DEF Fire, Unfired, Sent, StatsInv
<1>3. \A x \in Sent : delivery'[x] = IF x[1] = f /\ x[2] \in H THEN Attempt(1) ELSE delivery[x]
  BY <1>1 DEF Fire
<1>4. UNCHANGED <<hook, attempts>>
  BY <1>1 DEF Fire
<1>5. Attempt(1).at = "post" /\ ~Attempt(1).due
  BY DEF Attempt
<1>6. \A x \in Sent : /\ delivery'[x].due = delivery[x].due
                      /\ delivery[x].due => delivery'[x].good = delivery[x].good
  <2>1. Attempt(1).due = FALSE
    BY DEF Attempt
  <2>2. \A x \in Sent : x[1] = f => delivery[x].due = FALSE
    BY <1>0, <1>2 DEF Delivery
  <2> QED BY <1>3, <2>1, <2>2
<1>7. \A x \in Sent : hook[x[2]].is = "none" => delivery'[x] = delivery[x]
  BY <1>1, <1>3 DEF Registered
<1> QED BY <1>0, <1>3, <1>4, <1>5, <1>6, <1>7, BooksKept DEF StatsInv, Registered

LEMMA WebhookInvNext == WebhookInv /\ WebhooksNext => WebhookInv'
<1> SUFFICES ASSUME WebhookInv, WebhooksNext PROVE WebhookInv'
  OBVIOUS
<1>1. DeliveryInv'
  BY DeliveryInvNext DEF WebhookInv
<1>2. WebhooksType'
  BY <1>1, HooksKeepType DEF WebhookInv, DeliveryInv, WebhooksType
<1>3. ASSUME ForgetDeliveries PROVE StatsInv'
  <2>1. \A x \in Sent : /\ delivery'[x].due = delivery[x].due
                        /\ delivery'[x].good = delivery[x].good
                        /\ delivery'[x].at \in {delivery[x].at, "lost"}
                        /\ delivery'[x].at # "count"
                        /\ delivery[x].at = "idle" => delivery'[x].at = "idle"
    BY <1>3 DEF ForgetDeliveries, WebhookInv, WebhooksType, Delivery
  <2>2. UNCHANGED <<hook, attempts>>
    BY <1>3 DEF ForgetDeliveries
  <2> QED BY <2>1, <2>2, BooksKept DEF WebhookInv, StatsInv, Registered
<1>4. ASSUME NEW x \in Sent, LogAttempt(x) \/ CountAttempt(x) PROVE StatsInv'
  <2>1. x[2] \in Hooks /\ delivery[x].good \in BOOLEAN
    BY DEF WebhookInv, WebhooksType, Delivery, Sent
  <2> QED BY <1>4, <2>1, LogKeepsStats, CountKeepsStats
<1>5. StatsInv'
  BY <1>3, <1>4, RegistrationKeepsStats, PostKeepsStats, AttemptsKeepStats, FiringKeepsStats
     DEF WebhooksNext
<1> QED BY <1>1, <1>2, <1>5 DEF WebhookInv

(* An endpoint's statistics tell the log of its deliveries, whatever         *)
(* deliveries, edits and restarts overlap (webhook.service.js:217-236).      *)
THEOREM WebhooksAreSound == Spec => []WebhooksSound
<1>1. Init => WebhookInv
  <2>1. WebhooksInit => WebhooksType
    <3> SUFFICES ASSUME WebhooksInit PROVE WebhooksType
      OBVIOUS
    <3>1. DeliveryInv
      BY DeliveryInvInit
    <3>2. [is |-> "none", active |-> FALSE, events |-> {}, total |-> 0, ok |-> 0, bad |-> 0] \in Hook
      BY DEF Hook
    <3> QED BY <3>1, <3>2 DEF WebhooksInit, WebhooksType, Edits, DeliveryInv
  <2> QED BY <2>1, DeliveryInvInit, StatsInvInit DEF Init, WebhookInv
<1>2. WebhookInv /\ [Next]_vars => WebhookInv'
  <2>1. WebhookInv /\ UNCHANGED webhookVars => WebhookInv'
    <3> SUFFICES ASSUME WebhookInv, UNCHANGED webhookVars PROVE WebhookInv'
      OBVIOUS
    <3>1. WebhooksType' /\ DeliveryInv'
      BY DEF WebhookInv, webhookVars, WebhooksType, DeliveryInv
    <3>2. UNCHANGED <<hook, delivery, attempts>>
      BY DEF webhookVars
    <3>3. StatsInv'
      BY <3>2, BooksKept DEF WebhookInv, StatsInv, Registered
    <3> QED BY <3>1, <3>3 DEF WebhookInv
  <2> QED BY WebhookInvNext, <2>1 DEF Next, vars, Runs
<1>3. WebhookInv => WebhooksSound
  BY DEF WebhookInv, StatsInv, WebhooksSound
<1> QED BY <1>1, <1>2, <1>3, PTL DEF Spec

-----------------------------------------------------------------------------
(* The gateway's sockets *)

\* What a socket is a member of, it proved to be; an event nobody has announced
\* is on no way and has reached nobody.
RoomsInv ==
    /\ listening \subseteq Instances
    /\ socket \in [Sockets -> Socket]
    /\ news \in [News -> Item]
    /\ got \in [Sockets -> [News -> Nat]]
    /\ proved \in [Sockets -> SUBSET People]
    /\ \A s \in Sockets :
          /\ socket[s].rooms \cap People \subseteq proved[s]
          /\ socket[s].user # Nobody => socket[s].user \in proved[s]
    /\ \A e \in News : news[e].room = Nobody =>
          /\ news[e].forward = {} /\ news[e].wire = {}
          /\ \A s \in Sockets : got[s][e] = 0
    /\ PersonalNews

LEMMA RoomsInvInit == RealtimeInit => RoomsInv
  BY RealtimeAssumption DEF RealtimeInit, RoomsInv, PersonalNews, Socket, Item, Rooms

\* A socket that changes keeps the invariant if what it is a member of is
\* proved.
LEMMA SocketKeepsRooms ==
  ASSUME RoomsInv, NEW s \in Sockets, NEW k \in Socket,
         socket' = [socket EXCEPT ![s] = k],
         k.rooms \cap People \subseteq proved'[s],
         k.user # Nobody => k.user \in proved'[s],
         proved' \in [Sockets -> SUBSET People],
         \A q \in Sockets : proved[q] \subseteq proved'[q],
         UNCHANGED <<listening, news, got>>
  PROVE  RoomsInv'
  BY DEF RoomsInv, PersonalNews

\* Members of a room receive one copy more.
LEMMA ReceivedByMembers ==
  ASSUME RoomsInv, NEW e \in News, NEW i, NEW item \in Item,
         news[e].room # Nobody, item.room = news[e].room,
         news' = [news EXCEPT ![e] = item],
         got' = Received(e, i), UNCHANGED <<listening, socket, proved>>
  PROVE  RoomsInv'
<1> USE DEF RoomsInv
<1>1. \A s \in Sockets : got'[s] = got[s] \/ (s \in InRoom(news[e].room)
                                              /\ got'[s] = [got[s] EXCEPT ![e] = @ + 1])
  BY DEF Received
<1>2. ASSUME NEW s \in Sockets
      PROVE  /\ got'[s] \in [News -> Nat]
             /\ \A f \in News : f # e => got'[s][f] = got[s][f]
  <2>1. got[s] \in [News -> Nat]
    OBVIOUS
  <2>2. [got[s] EXCEPT ![e] = @ + 1] \in [News -> Nat]
    BY <2>1
  <2> QED BY <1>1, <2>1, <2>2
<1>3. got' \in [Sockets -> [News -> Nat]]
  BY <1>2 DEF Received
<1>4. ASSUME NEW s \in Sockets, got'[s][e] > 0, news[e].room \in People
      PROVE  news[e].room \in proved[s]
  BY <1>1, <1>4 DEF PersonalNews, InRoom
<1> QED BY <1>2, <1>3, <1>4 DEF PersonalNews

LEMMA RoomsInvNext == RoomsInv /\ RealtimeNext => RoomsInv'
<1> SUFFICES ASSUME RoomsInv, RealtimeNext PROVE RoomsInv'
  OBVIOUS
<1>0. /\ socket \in [Sockets -> Socket] /\ news \in [News -> Item]
      /\ proved \in [Sockets -> SUBSET People]
      /\ \A s \in Sockets : socket[s].rooms \cap People \subseteq proved[s]
      /\ \A s \in Sockets : socket[s].user # Nobody => socket[s].user \in proved[s]
  BY DEF RoomsInv
<1>1. ASSUME NEW s \in Sockets, NEW i \in Instances, Connect(s, i) PROVE RoomsInv'
  <2> DEFINE k == [socket[s] EXCEPT !.on = i, !.is = "up"]
  <2>1. k \in Socket /\ k.rooms = socket[s].rooms /\ k.user = socket[s].user
    BY <1>0 DEF Socket
  <2>2. socket' = [socket EXCEPT ![s] = k]
    BY <1>0, <1>1 DEF Connect
  <2> HIDE DEF k
  <2> QED BY <1>0, <1>1, <2>1, <2>2, SocketKeepsRooms DEF Connect
<1>2. ASSUME NEW s \in Sockets, NEW u \in People, Authenticate(s, u) \/ RejectToken(s, u)
      PROVE  RoomsInv'
  <2> DEFINE k(A) == [socket[s] EXCEPT !.asks = A]
  <2>1. PICK A \in SUBSET People : socket' = [socket EXCEPT ![s] = k(A)]
    <3>1. socket[s].asks \cup {u} \in SUBSET People /\ socket[s].asks \ {u} \in SUBSET People
      BY <1>0 DEF Socket
    <3> QED BY <1>0, <1>2, <3>1 DEF Authenticate, RejectToken
  <2>2. k(A) \in Socket /\ k(A).rooms = socket[s].rooms /\ k(A).user = socket[s].user
    BY <1>0 DEF Socket
  <2> HIDE DEF k
  <2> QED BY <1>0, <1>2, <2>1, <2>2, SocketKeepsRooms DEF Authenticate, RejectToken
<1>3. ASSUME NEW s \in Sockets, NEW u \in People, AcceptToken(s, u) PROVE RoomsInv'
  <2> DEFINE k == [socket[s] EXCEPT !.user = u, !.rooms = socket[s].rooms \cup {u},
                                    !.asks = socket[s].asks \ {u}]
  <2>1. k \in Socket /\ k.rooms = socket[s].rooms \cup {u} /\ k.user = u
    BY <1>0 DEF Socket, Rooms
  <2>2. socket' = [socket EXCEPT ![s] = k]
    BY <1>0, <1>3 DEF AcceptToken
  <2>3. proved' = [proved EXCEPT ![s] = @ \cup {u}] /\ UNCHANGED <<listening, news, got>>
    BY <1>3 DEF AcceptToken
  <2> HIDE DEF k
  <2> QED BY <1>0, <2>1, <2>2, <2>3, SocketKeepsRooms
<1>4. ASSUME NEW s \in Sockets, NEW r \in Rooms, Subscribe(s, r) PROVE RoomsInv'
  <2> DEFINE k == [socket[s] EXCEPT !.rooms = socket[s].rooms \cup {r}]
  <2>1. k \in Socket /\ k.rooms = socket[s].rooms \cup {r} /\ k.user = socket[s].user
    BY <1>0 DEF Socket
  <2>2. socket' = [socket EXCEPT ![s] = k]
    BY <1>0, <1>4 DEF Subscribe
  <2>3. socket[s].user # Nobody /\ r \in Halls \cup {socket[s].user}
        /\ UNCHANGED <<listening, news, got, proved>>
    BY <1>4 DEF Subscribe, Safe
  <2> HIDE DEF k
  <2> QED BY <1>0, <2>1, <2>2, <2>3, SocketKeepsRooms, RealtimeAssumption
<1>5. ASSUME NEW s \in Sockets, Disconnect(s) PROVE RoomsInv'
  <2> DEFINE k == [socket[s] EXCEPT !.is = "down", !.rooms = {}]
  <2>1. k \in Socket /\ k.rooms = {} /\ k.user = socket[s].user
    BY <1>0 DEF Socket
  <2>2. socket' = [socket EXCEPT ![s] = k]
    BY <1>0, <1>5 DEF Disconnect
  <2>3. UNCHANGED <<listening, news, got, proved>>
    BY <1>5 DEF Disconnect
  <2> HIDE DEF k
  <2> QED BY <1>0, <2>1, <2>2, <2>3, SocketKeepsRooms
<1>6. ASSUME NEW i \in Instances, Listen(i) PROVE RoomsInv'
  BY <1>6 DEF Listen, RoomsInv, PersonalNews
<1>7. ASSUME NEW e \in News, NEW r \in Rooms, NEW I \in SUBSET Instances, Announce(e, r, I)
      PROVE  RoomsInv'
  <2> DEFINE item == [room |-> r, forward |-> I, wire |-> {}, copies |-> I,
                      audience |-> InRoom(r)]
  <2>1. item \in Item /\ item.room = r /\ r # Nobody
    <3>1. InRoom(r) \in SUBSET Sockets
      BY DEF InRoom
    <3>2. r # Nobody
      BY RealtimeAssumption DEF Rooms
    <3> QED BY <3>1, <3>2 DEF Item
  <2>2. /\ news' = [news EXCEPT ![e] = item] /\ news[e].room = Nobody
        /\ UNCHANGED <<listening, socket, got, proved>>
    BY <1>7 DEF Announce
  <2>3. \A s \in Sockets : got[s][e] = 0
    BY <2>2 DEF RoomsInv
  <2> HIDE DEF item
  <2> QED BY <1>0, <2>1, <2>2, <2>3 DEF RoomsInv, PersonalNews
<1>8. ASSUME NEW e \in News, NEW i \in Instances, Forward(e, i) PROVE RoomsInv'
  <2> DEFINE item == [news[e] EXCEPT !.forward = news[e].forward \ {i},
                                     !.wire = news[e].wire \cup Reach(i)]
  <2>1. item \in Item /\ item.room = news[e].room
    BY <1>0 DEF Item, Reach
  <2>2. news' = [news EXCEPT ![e] = item] /\ news[e].room # Nobody
    BY <1>0, <1>8 DEF Forward, RoomsInv
  <2> HIDE DEF item
  <2> QED BY <1>8, <2>1, <2>2, ReceivedByMembers DEF Forward
<1>9. ASSUME NEW e \in News, NEW i \in Instances, NEW j \in Instances, Relay(e, i, j)
      PROVE  RoomsInv'
  <2> DEFINE item == [news[e] EXCEPT !.wire = news[e].wire \ {<<i, j>>}]
  <2>1. item \in Item /\ item.room = news[e].room
    BY <1>0 DEF Item
  <2>2. news' = [news EXCEPT ![e] = item] /\ news[e].room # Nobody
    BY <1>0, <1>9 DEF Relay, RoomsInv
  <2> HIDE DEF item
  <2> QED BY <1>9, <2>1, <2>2, ReceivedByMembers DEF Relay
<1>10. listening \subseteq Instances
  BY DEF RoomsInv
<1> QED BY <1>1, <1>2, <1>3, <1>4, <1>5, <1>6, <1>7, <1>8, <1>9, <1>10
    DEF RealtimeNext, PublishNews, EmitNews

(* Only who presented a valid token of a user receives what concerns that  *)
(* user alone (websocket.js:123-176).                                      *)
THEOREM NewsStaysPersonal == Spec => []PersonalNews
<1>1. Init => RoomsInv
  BY RoomsInvInit DEF Init
<1>2. RoomsInv /\ [Next]_vars => RoomsInv'
  <2>1. RoomsInv /\ UNCHANGED realtimeVars => RoomsInv'
    BY DEF RoomsInv, realtimeVars, PersonalNews
  <2> QED BY RoomsInvNext, <2>1 DEF Next, vars, Runs
<1>3. RoomsInv => PersonalNews
  BY DEF RoomsInv
<1> QED BY <1>1, <1>2, <1>3, PTL DEF Spec

\* A new socket is known to nobody; one that came is on an instance.
EntriesInv ==
    /\ clients \in [Instances -> [People -> SUBSET Sockets]]
    /\ late \subseteq Sockets
    /\ \A s \in Sockets :
          /\ socket[s].is = "new" =>
                /\ socket[s].asks = {} /\ socket[s].user = Nobody
                /\ \A i \in Instances, u \in People : s \notin clients[i][u]
          /\ socket[s].is # "new" => socket[s].on \in Instances
    /\ ClientsTellSockets

\* A socket that neither comes under another user nor goes keeps its entries.
LEMMA SocketKeepsEntries ==
  ASSUME RoomsInv, EntriesInv, NEW s \in Sockets, NEW k \in Socket,
         socket' = [socket EXCEPT ![s] = k],
         k.user = socket[s].user,
         \/ k.is = socket[s].is /\ k.on = socket[s].on /\ k.is # "new"
         \/ socket[s].is = "new" /\ k.is = "up" /\ k.on \in Instances,
         UNCHANGED <<clients, late>>
  PROVE  EntriesInv'
<1>0. \A q \in Sockets : socket'[q] = IF q = s THEN k ELSE socket[q]
  BY DEF RoomsInv
<1>1. ClientsTellSockets'
  <2> SUFFICES ASSUME NEW q \in Sockets, NEW u \in People
               PROVE  LET j == socket'[q]
                          listed == j.on # Nobody /\ q \in clients[j.on][u] IN
                      /\ j.is = "up" /\ j.user = u => listed
                      /\ j.is = "down" /\ listed => q \in late \/ j.user # u
    BY DEF ClientsTellSockets
  <2>1. CASE q # s
    BY <1>0, <2>1 DEF EntriesInv, ClientsTellSockets
  <2>2. CASE q = s /\ socket[s].is # "new"
    BY <1>0, <2>2 DEF EntriesInv, ClientsTellSockets
  <2>3. CASE q = s /\ socket[s].is = "new"
    BY <1>0, <2>3, RealtimeAssumption DEF EntriesInv
  <2> QED BY <2>1, <2>2, <2>3
<1> QED BY <1>0, <1>1 DEF EntriesInv

LEMMA EntriesInvNext == RoomsInv /\ EntriesInv /\ RealtimeNext => EntriesInv'
<1> SUFFICES ASSUME RoomsInv, EntriesInv, RealtimeNext PROVE EntriesInv'
  OBVIOUS
<1>0. /\ socket \in [Sockets -> Socket]
      /\ clients \in [Instances -> [People -> SUBSET Sockets]]
  BY DEF RoomsInv, EntriesInv
<1>1. ASSUME NEW s \in Sockets, NEW i \in Instances, Connect(s, i) PROVE EntriesInv'
  <2> DEFINE k == [socket[s] EXCEPT !.on = i, !.is = "up"]
  <2>1. k \in Socket /\ k.on = i /\ k.is = "up" /\ k.user = socket[s].user
    BY <1>0 DEF Socket
  <2>2. socket' = [socket EXCEPT ![s] = k] /\ socket[s].is = "new" /\ UNCHANGED <<clients, late>>
    BY <1>0, <1>1 DEF Connect
  <2> HIDE DEF k
  <2> QED BY <2>1, <2>2, SocketKeepsEntries
<1>2. ASSUME NEW s \in Sockets, NEW u \in People, Authenticate(s, u) \/ RejectToken(s, u)
      PROVE  EntriesInv'
  <2> DEFINE k(A) == [socket[s] EXCEPT !.asks = A]
  <2>1. PICK A \in SUBSET People : socket' = [socket EXCEPT ![s] = k(A)]
    <3>1. socket[s].asks \cup {u} \in SUBSET People /\ socket[s].asks \ {u} \in SUBSET People
      BY <1>0 DEF Socket
    <3> QED BY <1>0, <1>2, <3>1 DEF Authenticate, RejectToken
  <2>2. k(A) \in Socket /\ k(A).is = socket[s].is /\ k(A).on = socket[s].on
        /\ k(A).user = socket[s].user
    BY <1>0 DEF Socket
  <2>3. socket[s].is # "new" /\ UNCHANGED <<clients, late>>
    BY <1>2 DEF Authenticate, RejectToken, EntriesInv, Up
  <2> HIDE DEF k
  <2> QED BY <2>1, <2>2, <2>3, SocketKeepsEntries
<1>3. ASSUME NEW s \in Sockets, NEW u \in People, AcceptToken(s, u) PROVE EntriesInv'
  <2> DEFINE k == [socket[s] EXCEPT !.user = u, !.rooms = socket[s].rooms \cup {u},
                                    !.asks = socket[s].asks \ {u}]
             o == socket[s].on
  <2>1. k.is = socket[s].is /\ k.on = o /\ k.user = u
    BY <1>0 DEF Socket
  <2>2. /\ socket' = [socket EXCEPT ![s] = k]
        /\ clients' = [clients EXCEPT ![o][u] = @ \cup {s}]
        /\ late' = IF Up(s) THEN late ELSE late \cup {s}
    BY <1>0, <1>3 DEF AcceptToken
  <2>3. socket[s].is # "new" /\ o \in Instances
    BY <1>3 DEF AcceptToken, EntriesInv
  <2> HIDE DEF k, o
  <2>4. \A q \in Sockets : socket'[q] = IF q = s THEN k ELSE socket[q]
    BY <1>0, <2>2
  <2>5. /\ \A i \in Instances, v \in People :
              clients'[i][v] = IF i = o /\ v = u THEN clients[i][v] \cup {s} ELSE clients[i][v]
        /\ clients' \in [Instances -> [People -> SUBSET Sockets]]
    BY <1>0, <2>2, <2>3
  <2>6. ClientsTellSockets'
    <3> SUFFICES ASSUME NEW q \in Sockets, NEW v \in People
                 PROVE  LET j == socket'[q]
                            listed == j.on # Nobody /\ q \in clients'[j.on][v] IN
                        /\ j.is = "up" /\ j.user = v => listed
                        /\ j.is = "down" /\ listed => q \in late' \/ j.user # v
      BY DEF ClientsTellSockets
    <3>1. CASE q # s
      <4>1. socket'[q] = socket[q] /\ (q \in late' <=> q \in late)
        BY <2>2, <2>4, <3>1
      <4>2. \A i \in Instances : q \in clients'[i][v] <=> q \in clients[i][v]
        BY <2>5, <3>1
      <4>3. socket[q].is \in {"up", "down"} => socket[q].on \in Instances
        BY DEF EntriesInv
      <4> QED BY <4>1, <4>2, <4>3 DEF EntriesInv, ClientsTellSockets
    <3>2. CASE q = s
      BY <2>1, <2>2, <2>3, <2>4, <2>5, <3>2, RealtimeAssumption DEF Up
    <3> QED BY <3>1, <3>2
  <2>7. late' \subseteq Sockets
    BY <2>2 DEF EntriesInv
  <2>8. ASSUME NEW q \in Sockets
        PROVE  /\ socket'[q].is = "new" =>
                     /\ socket'[q].asks = {} /\ socket'[q].user = Nobody
                     /\ \A i \in Instances, v \in People : q \notin clients'[i][v]
               /\ socket'[q].is # "new" => socket'[q].on \in Instances
    <3>1. CASE q = s
      BY <2>1, <2>3, <2>4, <3>1
    <3>2. CASE q # s
      <4>1. socket'[q] = socket[q]
        BY <2>4, <3>2
      <4>2. \A i \in Instances, v \in People : q \in clients'[i][v] <=> q \in clients[i][v]
        BY <2>5, <3>2
      <4> QED BY <4>1, <4>2 DEF EntriesInv
    <3> QED BY <3>1, <3>2
  <2> QED BY <2>5, <2>6, <2>7, <2>8 DEF EntriesInv
<1>4. ASSUME NEW s \in Sockets, NEW r \in Rooms, Subscribe(s, r) PROVE EntriesInv'
  <2> DEFINE k == [socket[s] EXCEPT !.rooms = socket[s].rooms \cup {r}]
  <2>1. k \in Socket /\ k.is = socket[s].is /\ k.on = socket[s].on /\ k.user = socket[s].user
    BY <1>0 DEF Socket
  <2>2. socket' = [socket EXCEPT ![s] = k] /\ socket[s].is # "new" /\ UNCHANGED <<clients, late>>
    BY <1>0, <1>4 DEF Subscribe, Up
  <2> HIDE DEF k
  <2> QED BY <2>1, <2>2, SocketKeepsEntries
<1>5. ASSUME NEW s \in Sockets, Disconnect(s) PROVE EntriesInv'
  <2> DEFINE k == [socket[s] EXCEPT !.is = "down", !.rooms = {}]
             o == socket[s].on
             w == socket[s].user
  <2>1. k.is = "down" /\ k.on = o /\ k.user = w /\ w \in People \cup {Nobody}
    BY <1>0 DEF Socket
  <2>2. /\ socket' = [socket EXCEPT ![s] = k] /\ UNCHANGED late
        /\ clients' = IF w = Nobody THEN clients
                      ELSE [clients EXCEPT ![o][w] = @ \ {s}]
    BY <1>0, <1>5 DEF Disconnect, Remaining
  <2>3. o \in Instances
    BY <1>5 DEF Disconnect, EntriesInv, Up
  <2> HIDE DEF k, o, w
  <2>4. \A q \in Sockets : socket'[q] = IF q = s THEN k ELSE socket[q]
    BY <1>0, <2>2
  <2>5. /\ \A i \in Instances, v \in People :
              clients'[i][v] = IF i = o /\ v = w THEN clients[i][v] \ {s} ELSE clients[i][v]
        /\ clients' \in [Instances -> [People -> SUBSET Sockets]]
    <3>1. CASE w = Nobody
      BY <1>0, <2>2, <3>1, RealtimeAssumption
    <3>2. CASE w \in People
      BY <1>0, <2>2, <2>3, <3>2, RealtimeAssumption
    <3> QED BY <2>1, <3>1, <3>2
  <2>6. ClientsTellSockets'
    <3> SUFFICES ASSUME NEW q \in Sockets, NEW v \in People
                 PROVE  LET j == socket'[q]
                            listed == j.on # Nobody /\ q \in clients'[j.on][v] IN
                        /\ j.is = "up" /\ j.user = v => listed
                        /\ j.is = "down" /\ listed => q \in late' \/ j.user # v
      BY DEF ClientsTellSockets
    <3>1. CASE q # s
      <4>1. socket'[q] = socket[q] /\ late' = late
        BY <2>2, <2>4, <3>1
      <4>2. \A i \in Instances : q \in clients'[i][v] <=> q \in clients[i][v]
        BY <2>5, <3>1
      <4>3. socket[q].is \in {"up", "down"} => socket[q].on \in Instances
        BY DEF EntriesInv
      <4> QED BY <4>1, <4>2, <4>3 DEF EntriesInv, ClientsTellSockets
    <3>2. CASE q = s
      BY <2>1, <2>3, <2>4, <2>5, <3>2
    <3> QED BY <3>1, <3>2
  <2>7. ASSUME NEW q \in Sockets
        PROVE  /\ socket'[q].is = "new" =>
                     /\ socket'[q].asks = {} /\ socket'[q].user = Nobody
                     /\ \A i \in Instances, v \in People : q \notin clients'[i][v]
               /\ socket'[q].is # "new" => socket'[q].on \in Instances
    <3>1. CASE q = s
      BY <2>1, <2>3, <2>4, <3>1
    <3>2. CASE q # s
      <4>1. socket'[q] = socket[q]
        BY <2>4, <3>2
      <4>2. \A i \in Instances, v \in People : q \in clients'[i][v] <=> q \in clients[i][v]
        BY <2>5, <3>2
      <4> QED BY <4>1, <4>2 DEF EntriesInv
    <3> QED BY <3>1, <3>2
  <2> QED BY <2>2, <2>5, <2>6, <2>7 DEF EntriesInv
<1>6. ASSUME UNCHANGED <<socket, clients, late>> PROVE EntriesInv'
  BY <1>6 DEF EntriesInv, ClientsTellSockets
<1>7. ASSUME NEW e \in News, NEW i \in Instances, NEW j \in Instances,
             Forward(e, i) \/ Relay(e, i, j)
      PROVE  EntriesInv'
  BY <1>6, <1>7 DEF Forward, Relay
<1>8. ASSUME NEW e \in News, NEW r \in Rooms, NEW I, Announce(e, r, I) PROVE EntriesInv'
  BY <1>6, <1>8 DEF Announce
<1>9. ASSUME NEW i \in Instances, Listen(i) PROVE EntriesInv'
  BY <1>6, <1>9 DEF Listen
<1> QED BY <1>1, <1>2, <1>3, <1>4, <1>5, <1>7, <1>8, <1>9 DEF RealtimeNext, PublishNews, EmitNews

\* The copies of an event that are through to the sockets of an instance.
Through(n, j) == {i \in n.copies \ n.forward : i = j \/ <<i, j>> \notin n.wire}

\* Only a copy that was emitted is on the wire, and to another instance.
ItemInv(n) ==
    /\ n.room = Nobody => n.copies = {} /\ n.audience = {}
    /\ n.forward \subseteq n.copies
    /\ \A i, j \in Instances : <<i, j>> \in n.wire => i \in n.copies \ n.forward /\ i # j

\* What socket s, whose record is k, received of event n is what came through
\* to its instance, as long as it is in the room.
HasCopies(s, k, n, received) ==
    /\ k.is = "new" => received = 0 /\ s \notin n.audience
    /\ k.is # "new" => /\ k.on \in Instances
                       /\ received <= Cardinality(Through(n, k.on))
    /\ s \in n.audience /\ k.is = "up" => /\ received = Cardinality(Through(n, k.on))
                                          /\ n.room \in k.rooms

CopiesInv ==
    /\ \A e \in News : ItemInv(news[e])
    /\ \A s \in Sockets, e \in News : HasCopies(s, socket[s], news[e], got[s][e])

LEMMA ThroughFinite ==
  ASSUME NEW n \in Item, NEW j
  PROVE  /\ IsFiniteSet(Through(n, j)) /\ Cardinality(Through(n, j)) \in Nat
         /\ Cardinality(Through(n, j)) <= Cardinality(Instances)
         /\ Cardinality(Instances) \in Nat
<1>1. Through(n, j) \in SUBSET Instances
  BY DEF Through, Item
<1> QED BY <1>1, RealtimeAssumption, FS_Subset, FS_CardinalityType

\* A copy that comes to the sockets of one instance.
LEMMA OneMoreThrough ==
  ASSUME NEW n \in Item, NEW m \in Item, NEW i \in Instances, NEW j \in Instances,
         ItemInv(n), m.copies = n.copies,
         \/ /\ i = j /\ i \in n.forward
            /\ m.forward = n.forward \ {i} /\ m.wire = n.wire \cup Reach(i)
         \/ /\ <<i, j>> \in n.wire
            /\ m.forward = n.forward /\ m.wire = n.wire \ {<<i, j>>}
  PROVE  /\ i \notin Through(n, j) /\ Through(m, j) = Through(n, j) \cup {i}
         /\ \A h \in Instances : h # j => Through(m, h) = Through(n, h)
         /\ Cardinality(Through(m, j)) = Cardinality(Through(n, j)) + 1
<1>0. n.forward \subseteq n.copies /\ n.copies \subseteq Instances
  BY DEF ItemInv, Item
<1>1. CASE /\ i = j /\ i \in n.forward
           /\ m.forward = n.forward \ {i} /\ m.wire = n.wire \cup Reach(i)
  <2>1. i \notin Through(n, j)
    BY <1>1 DEF Through
  <2>2. \A g \in Instances, h \in Instances :
           <<g, h>> \in m.wire <=> (<<g, h>> \in n.wire \/ (g = i /\ h # i))
    BY <1>1 DEF Reach
  <2>3. \A g \in Instances : <<i, g>> \notin n.wire
    BY <1>1 DEF ItemInv
  <2>4. Through(m, j) = Through(n, j) \cup {i}
    BY <1>0, <1>1, <2>2 DEF Through
  <2>5. \A h \in Instances : h # j => Through(m, h) = Through(n, h)
    BY <1>0, <1>1, <2>2 DEF Through
  <2> QED BY <2>1, <2>4, <2>5, FS_AddElement, ThroughFinite
<1>2. CASE <<i, j>> \in n.wire /\ m.forward = n.forward /\ m.wire = n.wire \ {<<i, j>>}
  <2>1. i \in n.copies \ n.forward /\ i # j
    BY <1>2 DEF ItemInv
  <2>2. i \notin Through(n, j)
    BY <1>2, <2>1 DEF Through
  <2>3. \A g \in Instances, h \in Instances :
           <<g, h>> \in m.wire <=> (<<g, h>> \in n.wire /\ ~(g = i /\ h = j))
    BY <1>2
  <2>4. Through(m, j) = Through(n, j) \cup {i}
    BY <1>0, <1>2, <2>1, <2>3 DEF Through
  <2>5. \A h \in Instances : h # j => Through(m, h) = Through(n, h)
    BY <1>0, <1>2, <2>3 DEF Through
  <2> QED BY <2>2, <2>4, <2>5, FS_AddElement, ThroughFinite
<1> QED BY <1>1, <1>2

LEMMA SocketKeepsCopies ==
  ASSUME RoomsInv, CopiesInv, NEW s \in Sockets, NEW k \in Socket,
         socket' = [socket EXCEPT ![s] = k],
         \/ /\ k.is = socket[s].is /\ k.on = socket[s].on
            /\ socket[s].rooms \subseteq k.rooms
         \/ socket[s].is = "new" /\ k.is = "up" /\ k.on \in Instances
         \/ socket[s].is = "up" /\ k.is = "down" /\ k.on = socket[s].on,
         UNCHANGED <<news, got>>
  PROVE  CopiesInv'
<1>1. \A q \in Sockets : socket'[q] = IF q = s THEN k ELSE socket[q]
  BY DEF RoomsInv
<1>2. ASSUME NEW e \in News PROVE HasCopies(s, k, news[e], got[s][e])
  <2>1. HasCopies(s, socket[s], news[e], got[s][e])
    BY DEF CopiesInv
  <2>2. news[e] \in Item
    BY DEF RoomsInv
  <2>3. Cardinality(Through(news[e], k.on)) \in Nat
    BY <2>2, ThroughFinite
  <2> QED BY <2>1, <2>3 DEF HasCopies
<1>3. /\ \A e \in News : ItemInv(news'[e])
      /\ \A q \in Sockets, e \in News : HasCopies(q, socket'[q], news'[e], got'[q][e])
  BY <1>1, <1>2 DEF CopiesInv
<1> QED BY <1>3 DEF CopiesInv

LEMMA OneCopyMore ==
  ASSUME RoomsInv, CopiesInv, NEW e \in News, NEW i \in Instances, NEW j \in Instances,
         NEW m \in Item, ItemInv(m),
         m.copies = news[e].copies, m.room = news[e].room, m.audience = news[e].audience,
         \/ /\ i = j /\ i \in news[e].forward
            /\ m.forward = news[e].forward \ {i} /\ m.wire = news[e].wire \cup Reach(i)
         \/ /\ <<i, j>> \in news[e].wire
            /\ m.forward = news[e].forward /\ m.wire = news[e].wire \ {<<i, j>>},
         news' = [news EXCEPT ![e] = m], got' = Received(e, j), UNCHANGED socket
  PROVE  CopiesInv'
<1>0. /\ news \in [News -> Item] /\ socket \in [Sockets -> Socket]
      /\ got \in [Sockets -> [News -> Nat]]
  BY DEF RoomsInv
<1> DEFINE n == news[e]
<1>1. n \in Item /\ ItemInv(n)
  BY <1>0 DEF CopiesInv
<1>2. /\ \A h \in Instances : h # j => Through(m, h) = Through(n, h)
      /\ Cardinality(Through(m, j)) = Cardinality(Through(n, j)) + 1
  BY <1>1, OneMoreThrough
<1>3. \A f \in News : news'[f] = IF f = e THEN m ELSE news[f]
  BY <1>0
<1> DEFINE in(s) == Up(s) /\ n.room \in socket[s].rooms /\ socket[s].on = j
<1>4. ASSUME NEW s \in Sockets
      PROVE  /\ \A f \in News : f # e => got'[s][f] = got[s][f]
             /\ got'[s][e] = IF in(s) THEN got[s][e] + 1 ELSE got[s][e]
  BY <1>0 DEF Received, InRoom
<1>5. ASSUME NEW s \in Sockets PROVE HasCopies(s, socket[s], m, got'[s][e])
  <2> DEFINE k == socket[s]
             x == got[s][e]
             y == got'[s][e]
             a == Cardinality(Through(n, k.on))
             b == Cardinality(Through(m, k.on))
  <2>1. HasCopies(s, k, n, x)
    BY DEF CopiesInv
  <2>2. a \in Nat /\ b \in Nat /\ x \in Nat
    BY <1>0, <1>1, ThroughFinite
  <2>3. k.on \in Instances => b = IF k.on = j THEN a + 1 ELSE a
    BY <1>2
  <2>4. y = IF k.is = "up" /\ n.room \in k.rooms /\ k.on = j THEN x + 1 ELSE x
    BY <1>4 DEF Up
  <2>5. /\ k.is = "new" => x = 0 /\ s \notin n.audience
        /\ k.is # "new" => k.on \in Instances /\ x <= a
        /\ s \in n.audience /\ k.is = "up" => x = a /\ n.room \in k.rooms
    BY <2>1 DEF HasCopies
  <2>6. m.audience = n.audience /\ m.room = n.room
    OBVIOUS
  <2> HIDE DEF k, x, y, a, b, n
  <2>7. /\ k.is = "new" => y = 0 /\ s \notin m.audience
        /\ k.is # "new" => k.on \in Instances /\ y <= b
        /\ s \in m.audience /\ k.is = "up" => y = b /\ m.room \in k.rooms
    BY <2>2, <2>3, <2>4, <2>5, <2>6
  <2> QED BY <2>7 DEF HasCopies, k, y, b
<1>6. /\ \A f \in News : ItemInv(news'[f])
      /\ \A s \in Sockets, f \in News : HasCopies(s, socket[s], news'[f], got'[s][f])
  BY <1>3, <1>4, <1>5 DEF CopiesInv
<1> QED BY <1>6 DEF CopiesInv

LEMMA CopiesInvNext == RoomsInv /\ CopiesInv /\ RealtimeNext => CopiesInv'
<1> SUFFICES ASSUME RoomsInv, CopiesInv, RealtimeNext PROVE CopiesInv'
  OBVIOUS
<1>0. socket \in [Sockets -> Socket] /\ news \in [News -> Item]
  BY DEF RoomsInv
<1>1. ASSUME NEW s \in Sockets, NEW i \in Instances, Connect(s, i) PROVE CopiesInv'
  <2> DEFINE k == [socket[s] EXCEPT !.on = i, !.is = "up"]
  <2>1. k \in Socket /\ k.on = i /\ k.is = "up"
    BY <1>0 DEF Socket
  <2>2. socket' = [socket EXCEPT ![s] = k] /\ socket[s].is = "new" /\ UNCHANGED <<news, got>>
    BY <1>0, <1>1 DEF Connect
  <2> HIDE DEF k
  <2> QED BY <2>1, <2>2, SocketKeepsCopies
<1>2. ASSUME NEW s \in Sockets, NEW u \in People, Authenticate(s, u) \/ RejectToken(s, u)
      PROVE  CopiesInv'
  <2> DEFINE k(A) == [socket[s] EXCEPT !.asks = A]
  <2>1. PICK A \in SUBSET People : socket' = [socket EXCEPT ![s] = k(A)]
    <3>1. socket[s].asks \cup {u} \in SUBSET People /\ socket[s].asks \ {u} \in SUBSET People
      BY <1>0 DEF Socket
    <3> QED BY <1>0, <1>2, <3>1 DEF Authenticate, RejectToken
  <2>2. k(A) \in Socket /\ k(A).is = socket[s].is /\ k(A).on = socket[s].on
        /\ k(A).rooms = socket[s].rooms
    BY <1>0 DEF Socket
  <2>3. UNCHANGED <<news, got>>
    BY <1>2 DEF Authenticate, RejectToken
  <2> HIDE DEF k
  <2> QED BY <2>1, <2>2, <2>3, SocketKeepsCopies
<1>3. ASSUME NEW s \in Sockets, NEW u \in People, AcceptToken(s, u) PROVE CopiesInv'
  <2> DEFINE k == [socket[s] EXCEPT !.user = u, !.rooms = socket[s].rooms \cup {u},
                                    !.asks = socket[s].asks \ {u}]
  <2>1. k \in Socket /\ k.is = socket[s].is /\ k.on = socket[s].on
        /\ socket[s].rooms \subseteq k.rooms
    BY <1>0 DEF Socket, Rooms
  <2>2. socket' = [socket EXCEPT ![s] = k] /\ UNCHANGED <<news, got>>
    BY <1>0, <1>3 DEF AcceptToken
  <2> HIDE DEF k
  <2> QED BY <2>1, <2>2, SocketKeepsCopies
<1>4. ASSUME NEW s \in Sockets, NEW r \in Rooms, Subscribe(s, r) PROVE CopiesInv'
  <2> DEFINE k == [socket[s] EXCEPT !.rooms = socket[s].rooms \cup {r}]
  <2>1. k \in Socket /\ k.is = socket[s].is /\ k.on = socket[s].on
        /\ socket[s].rooms \subseteq k.rooms
    BY <1>0 DEF Socket
  <2>2. socket' = [socket EXCEPT ![s] = k] /\ UNCHANGED <<news, got>>
    BY <1>0, <1>4 DEF Subscribe
  <2> HIDE DEF k
  <2> QED BY <2>1, <2>2, SocketKeepsCopies
<1>5. ASSUME NEW s \in Sockets, Disconnect(s) PROVE CopiesInv'
  <2> DEFINE k == [socket[s] EXCEPT !.is = "down", !.rooms = {}]
  <2>1. k \in Socket /\ k.is = "down" /\ k.on = socket[s].on
    BY <1>0 DEF Socket
  <2>2. /\ socket' = [socket EXCEPT ![s] = k] /\ socket[s].is = "up"
        /\ UNCHANGED <<news, got>>
    BY <1>0, <1>5 DEF Disconnect, Up
  <2> HIDE DEF k
  <2> QED BY <2>1, <2>2, SocketKeepsCopies
<1>6. ASSUME NEW i \in Instances, Listen(i) PROVE CopiesInv'
  BY <1>6 DEF Listen, CopiesInv
<1>7. ASSUME NEW e \in News, NEW r \in Rooms, NEW I \in SUBSET Instances, Announce(e, r, I)
      PROVE  CopiesInv'
  <2> DEFINE item == [room |-> r, forward |-> I, wire |-> {}, copies |-> I,
                      audience |-> InRoom(r)]
  <2>1. /\ item.copies \ item.forward = {} /\ item.room = r /\ item.audience = InRoom(r)
        /\ item.forward = I /\ item.copies = I /\ item.wire = {}
    OBVIOUS
  <2>2. news' = [news EXCEPT ![e] = item] /\ news[e].room = Nobody /\ UNCHANGED <<socket, got>>
    BY <1>7 DEF Announce
  <2> HIDE DEF item
  <2>3. r # Nobody
    BY RealtimeAssumption DEF Rooms
  <2>4. ItemInv(item)
    BY <2>1, <2>3 DEF ItemInv
  <2>5. \A j : Through(item, j) = {} /\ Through(news[e], j) = {}
    BY <2>1, <2>2 DEF Through, CopiesInv, ItemInv
  <2>6. ASSUME NEW s \in Sockets PROVE HasCopies(s, socket[s], item, got[s][e])
    <3>1. HasCopies(s, socket[s], news[e], got[s][e]) /\ got[s][e] \in Nat
      BY DEF CopiesInv, RoomsInv
    <3>2. \A j : Cardinality(Through(item, j)) = 0 /\ Cardinality(Through(news[e], j)) = 0
      BY <2>5, FS_EmptySet
    <3>3. s \in item.audience => socket[s].is = "up" /\ r \in socket[s].rooms
      BY <2>1 DEF InRoom, Up
    <3>4. socket[s].is # "new" => got[s][e] = 0
      BY <3>1, <3>2 DEF HasCopies
    <3> QED BY <2>1, <3>1, <3>2, <3>3, <3>4 DEF HasCopies
  <2>7. \A f \in News : news'[f] = IF f = e THEN item ELSE news[f]
    BY <1>0, <2>2
  <2>8. /\ \A f \in News : ItemInv(news'[f])
        /\ \A s \in Sockets, f \in News : HasCopies(s, socket'[s], news'[f], got'[s][f])
    BY <2>2, <2>4, <2>6, <2>7 DEF CopiesInv
  <2> QED BY <2>8 DEF CopiesInv
<1>8. ASSUME NEW e \in News, NEW i \in Instances, Forward(e, i) PROVE CopiesInv'
  <2> DEFINE m == [news[e] EXCEPT !.forward = news[e].forward \ {i},
                                  !.wire = news[e].wire \cup Reach(i)]
  <2>1. /\ m \in Item /\ m.room = news[e].room /\ m.copies = news[e].copies
        /\ m.audience = news[e].audience
        /\ m.forward = news[e].forward \ {i} /\ m.wire = news[e].wire \cup Reach(i)
    BY <1>0 DEF Item, Reach
  <2>2. /\ news' = [news EXCEPT ![e] = m] /\ i \in news[e].forward
        /\ got' = Received(e, i) /\ UNCHANGED socket
    BY <1>0, <1>8 DEF Forward
  <2> HIDE DEF m
  <2>3. ItemInv(m)
    BY <2>1, <2>2 DEF CopiesInv, ItemInv, Reach
  <2> QED BY <2>1, <2>2, <2>3, OneCopyMore
<1>9. ASSUME NEW e \in News, NEW i \in Instances, NEW j \in Instances, Relay(e, i, j)
      PROVE  CopiesInv'
  <2> DEFINE m == [news[e] EXCEPT !.wire = news[e].wire \ {<<i, j>>}]
  <2>1. /\ m \in Item /\ m.room = news[e].room /\ m.copies = news[e].copies
        /\ m.audience = news[e].audience
        /\ m.forward = news[e].forward /\ m.wire = news[e].wire \ {<<i, j>>}
    BY <1>0 DEF Item
  <2>2. /\ news' = [news EXCEPT ![e] = m] /\ <<i, j>> \in news[e].wire
        /\ got' = Received(e, j) /\ UNCHANGED socket
    BY <1>0, <1>9 DEF Relay
  <2> HIDE DEF m
  <2>3. ItemInv(m)
    BY <2>1, <2>2 DEF CopiesInv, ItemInv
  <2> QED BY <2>1, <2>2, <2>3, OneCopyMore
<1>10. listening \subseteq Instances
  BY DEF RoomsInv
<1> QED BY <1>1, <1>2, <1>3, <1>4, <1>5, <1>6, <1>7, <1>8, <1>9, <1>10
    DEF RealtimeNext, PublishNews, EmitNews

(* An instance's map of users holds its live sockets, and an event that is *)
(* through has reached whoever was in its room and still is connected once *)
(* from every instance that emitted it (websocket.js:100-220,              *)
(* websocket-bridge.js:16).                                                *)
THEOREM SocketsAreSound == Spec => []RealtimeSound
<1> DEFINE AllInv == RoomsInv /\ EntriesInv /\ CopiesInv
<1>1. Init => AllInv
  <2> SUFFICES ASSUME RealtimeInit PROVE AllInv
    BY DEF Init
  <2>1. RoomsInv
    BY RoomsInvInit
  <2>2. EntriesInv
    BY RealtimeAssumption DEF RealtimeInit, EntriesInv, ClientsTellSockets
  <2>3. CopiesInv
    BY DEF RealtimeInit, CopiesInv, ItemInv, HasCopies
  <2> QED BY <2>1, <2>2, <2>3
<1>2. AllInv /\ [Next]_vars => AllInv'
  <2>1. AllInv /\ UNCHANGED realtimeVars => AllInv'
    <3> SUFFICES ASSUME AllInv, UNCHANGED realtimeVars PROVE AllInv'
      OBVIOUS
    <3>1. RoomsInv'
      BY DEF RoomsInv, realtimeVars, PersonalNews
    <3>2. EntriesInv'
      BY DEF EntriesInv, realtimeVars, ClientsTellSockets
    <3>3. CopiesInv'
      BY DEF CopiesInv, realtimeVars
    <3> QED BY <3>1, <3>2, <3>3
  <2> QED BY RoomsInvNext, EntriesInvNext, CopiesInvNext, <2>1 DEF Next, vars, Runs
<1>3. AllInv => RealtimeSound
  <2> SUFFICES ASSUME AllInv PROVE RealtimeSound
    OBVIOUS
  <2>1. ASSUME NEW s \in Sockets, NEW e \in News
        PROVE  got[s][e] \in 0..Cardinality(Instances)
    <3>1. /\ HasCopies(s, socket[s], news[e], got[s][e]) /\ got[s][e] \in Nat
          /\ news[e] \in Item
      BY DEF CopiesInv, RoomsInv
    <3> QED BY <3>1, ThroughFinite DEF HasCopies
  <2>2. got \in [Sockets -> [News -> 0..Cardinality(Instances)]]
    <3>1. got \in [Sockets -> [News -> Nat]]
      BY DEF RoomsInv
    <3>2. \A s \in Sockets : got[s] \in [News -> 0..Cardinality(Instances)]
      BY <2>1, <3>1
    <3> QED BY <3>1, <3>2
  <2>3. RealtimeType
    BY <2>2 DEF RoomsInv, EntriesInv, RealtimeType
  <2>4. ASSUME NEW e \in News, news[e].forward = {}, news[e].wire = {},
               NEW s \in news[e].audience, Up(s)
        PROVE  got[s][e] = Cardinality(news[e].copies)
    <3>1. s \in Sockets
      BY DEF RoomsInv, Item
    <3>2. \A j : Through(news[e], j) = news[e].copies
      BY <2>4 DEF Through
    <3>3. HasCopies(s, socket[s], news[e], got[s][e])
      BY <3>1 DEF CopiesInv
    <3> QED BY <2>4, <3>2, <3>3 DEF HasCopies, Up
  <2> QED BY <2>3, <2>4 DEF RealtimeSound, EntriesInv, EveryCopyArrives
<1> QED BY <1>1, <1>2, <1>3, PTL DEF Spec

-----------------------------------------------------------------------------
(* Lookups *)

LookupRecord ==
    [at : {"idle", "get", "count", "expire", "fetch", "store", "over"},
     ask : Questions, source : Sources, day : Days, answer : Answers, faults : SUBSET Faults]

\* The record of one lookup: nothing is answered before it is over, only ip
\* lookups are counted, only prices have a second source, and each refusal has
\* its fault.
LookupInv(k) ==
    /\ k.at # "over" => k.answer = "none"
    /\ k.at \in {"count", "expire"} => k.ask = "ip"
    /\ k.ask = "crypto" <=> k.source \in {"coingecko", "coincap"}
    /\ k.answer = "open" => k.ask = "ip"
    /\ k.answer = "unknown" => k.ask \in Currencies
    /\ k.answer = "fixed" => k.ask = "tabled" /\ (~ApiKey \/ k.faults # {})
    /\ k.answer = "error" =>
          /\ k.ask \notin {"ip", "tabled"}
          /\ k.ask = "crypto" => k.faults \cap {"get", "coincap"} # {}
          /\ k.ask = "plain" => k.faults # {}
          /\ k.ask = "rare" => ~ApiKey \/ k.faults # {}

\* The ip lookups of day d that were counted and have not called yet.
CountedIn(k, d) == k.ask = "ip" /\ k.day = d /\ k.at \in {"expire", "fetch"}
Counting(d) == {r \in Lookups : CountedIn(lookup[r], d)}

AllCounted ==
    \A d \in Days : d >= today =>
        called[d] + Cardinality(Counting(d)) <= usage[d].count + uncounted[d]

LookupsInv == LookupsType /\ (\A r \in Lookups : LookupInv(lookup[r])) /\ AllCounted

LEMMA CountingFinite ==
  ASSUME NEW d
  PROVE  IsFiniteSet(Counting(d)) /\ Cardinality(Counting(d)) \in Nat
<1>1. Counting(d) \in SUBSET Lookups
  BY DEF Counting
<1> QED BY <1>1, LookupsAssumption, FS_Subset, FS_CardinalityType

\* What comes of a lookup that an error ends or sends to the second source.
LEMMA FaultIsRecorded ==
  ASSUME NEW k \in LookupRecord, LookupInv(k), k.at \in {"get", "fetch", "store"},
         NEW step \in {"get", "source", "store"}
  PROVE  LET u == Unread(Fault(k, step))
             f == Failed(Fault(k, step)) IN
         /\ step = "get" => u \in LookupRecord /\ LookupInv(u) /\ u.at \in {"get", "over"}
         /\ step # "get" => f \in LookupRecord /\ LookupInv(f) /\ f.at \in {"get", "over"}
<1> DEFINE t == IF k.source = "coincap" /\ step # "get" THEN "coincap" ELSE step
           g == Fault(k, step)
<1>1. t \in Faults /\ g = [k EXCEPT !.faults = @ \cup {t}]
  BY DEF Faults, Fault
<1>2. /\ g \in LookupRecord /\ g.at = k.at /\ g.ask = k.ask /\ g.source = k.source
      /\ g.answer = "none" /\ g.faults # {}
      /\ step = "get" => "get" \in g.faults
      /\ step # "get" /\ k.source = "coincap" => "coincap" \in g.faults
  BY <1>1 DEF LookupRecord, LookupInv
<1>3. k.ask = "crypto" <=> k.source \in {"coingecko", "coincap"}
  BY DEF LookupInv
<1> DEFINE Good(n) == n \in LookupRecord /\ LookupInv(n) /\ n.at \in {"get", "over"}
<1> SUFFICES IF step = "get" THEN Good(Unread(g)) ELSE Good(Failed(g))
  OBVIOUS
<1> HIDE DEF g
<1>4. ASSUME NEW a \in Answers
      PROVE  /\ Answered(g, a) \in LookupRecord
             /\ Answered(g, a).at = "over" /\ Answered(g, a).answer = a
             /\ Answered(g, a).ask = k.ask /\ Answered(g, a).source = k.source
             /\ Answered(g, a).faults = g.faults
  BY <1>2 DEF Answered, LookupRecord
<1>5. /\ k.ask = "ip" => LookupInv(Answered(g, "open"))
      /\ k.ask = "tabled" => LookupInv(Answered(g, "fixed"))
      /\ k.ask = "rare" => LookupInv(Answered(g, "error"))
      /\ k.ask = "plain" => LookupInv(Answered(g, "error"))
      /\ k.ask = "crypto" /\ (step = "get" \/ k.source = "coincap")
            => LookupInv(Answered(g, "error"))
  BY <1>2, <1>3, <1>4 DEF LookupInv, Answers, Currencies
<1>6. {"open", "fixed", "error"} \subseteq Answers
  BY DEF Answers
<1>7. ASSUME NEW a \in {"open", "fixed", "error"}, LookupInv(Answered(g, a))
      PROVE  Good(Answered(g, a))
  BY <1>4, <1>6, <1>7
<1> HIDE DEF Good
<1>8. k.ask \in {"plain", "crypto", "ip", "tabled", "rare"}
  BY DEF LookupRecord, Questions, Currencies
<1>9. CASE k.ask = "ip"
  <2>1. Failed(g) = Answered(g, "open")
    BY <1>2, <1>3, <1>9 DEF Failed, Currencies
  <2>2. Unread(g) = Failed(g)
    BY <1>2, <1>9 DEF Unread
  <2> QED BY <1>5, <1>7, <1>9, <2>1, <2>2
<1>10. CASE k.ask \in Currencies
  <2>1. Failed(g) = FixedRate(g) /\ Unread(g) = Failed(g)
    BY <1>2, <1>3, <1>10 DEF Failed, Unread, Currencies
  <2>2. FixedRate(g) = Answered(g, IF k.ask = "tabled" THEN "fixed" ELSE "error")
    BY <1>2 DEF FixedRate
  <2>3. CASE k.ask = "tabled"
    BY <1>5, <1>7, <2>1, <2>2, <2>3
  <2>4. CASE k.ask = "rare"
    BY <1>5, <1>7, <2>1, <2>2, <2>4
  <2> QED BY <1>10, <2>3, <2>4 DEF Currencies
<1>11. CASE k.ask = "plain"
  <2>1. Failed(g) = Answered(g, "error") /\ Unread(g) = Answered(g, "error")
    BY <1>2, <1>3, <1>11 DEF Failed, Unread, Currencies
  <2> QED BY <1>5, <1>7, <1>11, <2>1
<1>12. CASE k.ask = "crypto" /\ (step = "get" \/ k.source = "coincap")
  <2>1. /\ k.source = "coincap" => Failed(g) = Answered(g, "error")
        /\ Unread(g) = Answered(g, "error")
    BY <1>2, <1>12 DEF Failed, Unread, Currencies
  <2> QED BY <1>5, <1>7, <1>12, <2>1
<1>13. CASE k.ask = "crypto" /\ step # "get" /\ k.source = "coingecko"
  <2> DEFINE n == [g EXCEPT !.at = "get", !.source = "coincap"]
  <2>1. /\ n \in LookupRecord /\ n.at = "get" /\ n.source = "coincap" /\ n.ask = "crypto"
        /\ n.answer = "none"
    BY <1>2, <1>13 DEF LookupRecord, Sources
  <2>2. Failed(g) = n
    BY <1>2, <1>13 DEF Failed, Currencies
  <2> HIDE DEF n
  <2>3. LookupInv(n)
    BY <2>1 DEF LookupInv
  <2> QED BY <1>13, <2>1, <2>2, <2>3 DEF Good
<1> QED BY <1>3, <1>8, <1>9, <1>10, <1>11, <1>12, <1>13 DEF Currencies

\* A lookup that is counted neither before nor after the step.
LEMMA UncountedStep ==
  ASSUME LookupsInv, NEW r \in Lookups, NEW k \in LookupRecord, LookupInv(k), Put(r, k),
         \A d \in Days : CountedIn(k, d) <=> CountedIn(lookup[r], d),
         UNCHANGED <<today, called, uncounted>>,
         usage' \in [Days -> [count : Nat, ttl : BOOLEAN]],
         \A d \in Days : usage'[d].count = usage[d].count,
         copied' \subseteq Sources
  PROVE  LookupsInv'
<1>1. lookup' = [lookup EXCEPT ![r] = k] /\ lookup \in [Lookups -> LookupRecord]
  BY DEF LookupsInv, LookupsType, LookupRecord, Put
<1>2. \A q \in Lookups : lookup'[q] = IF q = r THEN k ELSE lookup[q]
  BY <1>1
<1>3. \A d \in Days : Counting(d)' = Counting(d)
  BY <1>2 DEF Counting
<1>4. LookupsType'
  BY <1>1 DEF LookupsInv, LookupsType, LookupRecord
<1>5. AllCounted'
  BY <1>3 DEF LookupsInv, AllCounted
<1> QED BY <1>2, <1>4, <1>5 DEF LookupsInv

LEMMA AskKeepsLookups ==
  ASSUME LookupsInv, NEW r \in Lookups, NEW q \in Questions, In(r, "idle"), Ask(r, q)
  PROVE  LookupsInv'
<1> DEFINE k == [NoLookup EXCEPT !.at = "get", !.ask = q, !.source = FirstSource[q], !.day = today]
<1>1. FirstSource[q] \in Sources
      /\ (q = "crypto" <=> FirstSource[q] \in {"coingecko", "coincap"})
  BY DEF Questions, Currencies, FirstSource, Sources
<1>2. today \in Days /\ 0 \in Days
  BY LookupsAssumption DEF LookupsInv, LookupsType
<1>3. /\ k \in LookupRecord /\ k.at = "get" /\ k.ask = q /\ k.source = FirstSource[q]
      /\ k.answer = "none"
  BY <1>1, <1>2 DEF NoLookup, LookupRecord, Answers
<1>4. Put(r, k) /\ UNCHANGED <<copied, today, usage, called, uncounted>>
  BY DEF Ask
<1> HIDE DEF k
<1>5. LookupInv(k)
  BY <1>1, <1>3 DEF LookupInv
<1>6. \A d \in Days : ~CountedIn(k, d) /\ ~CountedIn(lookup[r], d)
  BY <1>3 DEF CountedIn, In
<1>7. usage' \in [Days -> [count : Nat, ttl : BOOLEAN]] /\ copied' \subseteq Sources
  BY <1>4 DEF LookupsInv, LookupsType
<1> QED BY <1>3, <1>4, <1>5, <1>6, <1>7, UncountedStep

LEMMA ReadKeepsLookups ==
  ASSUME LookupsInv, NEW r \in Lookups, ReadCopy(r)
  PROVE  LookupsInv'
<1> DEFINE k == lookup[r]
<1>1. /\ k \in LookupRecord /\ LookupInv(k) /\ k.at = "get" /\ k.answer = "none"
      /\ today \in Days
  BY DEF LookupsInv, LookupsType, LookupRecord, ReadCopy, In, LookupInv
<1>2. PICK n \in {Answered(k, "cached"), Missed(k), Unread(Fault(k, "get"))} :
         Put(r, n)
  BY DEF ReadCopy
<1>3. UNCHANGED <<copied, today, usage, called, uncounted>>
  BY DEF ReadCopy
<1> HIDE DEF k
<1>4. /\ n \in LookupRecord /\ LookupInv(n)
      /\ n.at \in {"expire", "fetch"} => n.ask # "ip"
  <2>1. ASSUME NEW a \in {"cached", "fixed", "error"}
        PROVE  /\ Answered(k, a) \in LookupRecord /\ Answered(k, a).ask = k.ask
               /\ Answered(k, a).source = k.source
               /\ Answered(k, a).at = "over" /\ Answered(k, a).answer = a
    BY <1>1 DEF Answered, LookupRecord, Answers
  <2>2. CASE n = Answered(k, "cached")
    BY <1>1, <2>1, <2>2 DEF LookupInv
  <2>3. CASE n = Unread(Fault(k, "get"))
    BY <1>1, <2>3, FaultIsRecorded
  <2>4. CASE n = Missed(k) /\ k.ask = "ip"
    <3> DEFINE m == [k EXCEPT !.at = "count", !.day = today]
    <3>1. m \in LookupRecord /\ m.at = "count" /\ m.ask = "ip" /\ m.answer = "none"
          /\ m.source = k.source
      BY <1>1, <2>4 DEF LookupRecord
    <3>2. n = m
      BY <2>4 DEF Missed, Currencies
    <3> HIDE DEF m
    <3> QED BY <1>1, <2>4, <3>1, <3>2 DEF LookupInv
  <2>5. CASE n = Missed(k) /\ k.ask \in Currencies /\ ~ApiKey
    <3>1. n = Answered(k, IF k.ask = "tabled" THEN "fixed" ELSE "error")
      BY <2>5 DEF Missed, FixedRate, Currencies
    <3> QED BY <1>1, <2>1, <2>5, <3>1 DEF LookupInv, Currencies
  <2>6. CASE n = Missed(k) /\ k.ask # "ip" /\ ~(k.ask \in Currencies /\ ~ApiKey)
    <3> DEFINE m == [k EXCEPT !.at = "fetch"]
    <3>1. m \in LookupRecord /\ m.at = "fetch" /\ m.ask = k.ask /\ m.answer = "none"
          /\ m.source = k.source
      BY <1>1 DEF LookupRecord
    <3>2. n = m
      BY <2>6 DEF Missed
    <3> HIDE DEF m
    <3> QED BY <1>1, <2>6, <3>1, <3>2 DEF LookupInv
  <2> QED BY <2>2, <2>3, <2>4, <2>5, <2>6
<1>5. \A d \in Days : ~CountedIn(n, d) /\ ~CountedIn(lookup[r], d)
  BY <1>1, <1>4 DEF CountedIn, k
<1>6. usage' \in [Days -> [count : Nat, ttl : BOOLEAN]] /\ copied' \subseteq Sources
  BY <1>3 DEF LookupsInv, LookupsType
<1> QED BY <1>2, <1>3, <1>4, <1>5, <1>6, UncountedStep

LEMMA StoreKeepsLookups ==
  ASSUME LookupsInv, NEW r \in Lookups, StoreCopy(r)
  PROVE  LookupsInv'
<1> DEFINE k == lookup[r]
<1>1. k \in LookupRecord /\ LookupInv(k) /\ k.at = "store" /\ k.answer = "none"
  BY DEF LookupsInv, LookupsType, LookupRecord, StoreCopy, In, LookupInv
<1>2. PICK n \in {Answered(k, "live"), Failed(Fault(k, "store"))} : Put(r, n)
  BY DEF StoreCopy
<1>3. /\ UNCHANGED <<today, usage, called, uncounted>>
      /\ copied' = copied \/ copied' = copied \cup {k.source}
  BY DEF StoreCopy
<1> HIDE DEF k
<1>4. n \in LookupRecord /\ LookupInv(n) /\ n.at \in {"get", "over"}
  <2>1. /\ Answered(k, "live") \in LookupRecord /\ Answered(k, "live").ask = k.ask
        /\ Answered(k, "live").source = k.source
        /\ Answered(k, "live").at = "over" /\ Answered(k, "live").answer = "live"
    BY <1>1 DEF Answered, LookupRecord, Answers
  <2>2. CASE n = Answered(k, "live")
    BY <1>1, <2>1, <2>2 DEF LookupInv
  <2>3. CASE n = Failed(Fault(k, "store"))
    BY <1>1, <2>3, FaultIsRecorded
  <2> QED BY <2>2, <2>3
<1>5. \A d \in Days : ~CountedIn(n, d) /\ ~CountedIn(lookup[r], d)
  BY <1>1, <1>4 DEF CountedIn, k
<1>6. usage' \in [Days -> [count : Nat, ttl : BOOLEAN]] /\ copied' \subseteq Sources
  BY <1>1, <1>3 DEF LookupsInv, LookupsType, LookupRecord
<1> QED BY <1>2, <1>3, <1>4, <1>5, <1>6, UncountedStep

\* A lookup that is counted, and the one whose call goes out.
LEMMA CountKeepsLookups ==
  ASSUME LookupsInv, NEW r \in Lookups, CountCall(r)
  PROVE  LookupsInv'
<1>1. PICK k \in LookupRecord, d \in Days :
         k = lookup[r] /\ d = k.day /\ LookupInv(k) /\ k.at = "count" /\ k.ask = "ip"
  BY DEF LookupsInv, LookupsType, LookupRecord, CountCall, In, LookupInv
<1>2. /\ lookup \in [Lookups -> LookupRecord] /\ usage \in [Days -> [count : Nat, ttl : BOOLEAN]]
      /\ uncounted \in [Days -> Nat] /\ called \in [Days -> Nat] /\ today \in Days
  BY DEF LookupsInv, LookupsType, LookupRecord
<1>3. PICK step \in {"expire", "fetch"} : lookup' = [lookup EXCEPT ![r] = [k EXCEPT !.at = step]]
  BY <1>1 DEF CountCall, Step, Put
<1>4. /\ UNCHANGED <<copied, today, called>>
      /\ \/ usage' = [usage EXCEPT ![d] = Incremented(@)] /\ UNCHANGED uncounted
         \/ uncounted' = [uncounted EXCEPT ![d] = @ + 1] /\ UNCHANGED usage
  BY <1>1 DEF CountCall
<1> DEFINE n == [k EXCEPT !.at = step]
<1>5. /\ n \in LookupRecord /\ n.at = step /\ n.ask = "ip" /\ n.day = d /\ n.source = k.source
      /\ n.answer = k.answer
  BY <1>1 DEF LookupRecord
<1>6. lookup' = [lookup EXCEPT ![r] = n]
  BY <1>3
<1> HIDE DEF n
<1>7. \A q \in Lookups : lookup'[q] = IF q = r THEN n ELSE lookup[q]
  BY <1>2, <1>6
<1>8. LookupInv(n)
  BY <1>1, <1>5 DEF LookupInv
<1>9. /\ usage' \in [Days -> [count : Nat, ttl : BOOLEAN]] /\ uncounted' \in [Days -> Nat]
      /\ usage'[d].count + uncounted'[d] = usage[d].count + uncounted[d] + 1
      /\ \A c \in Days : c # d => usage'[c] = usage[c] /\ uncounted'[c] = uncounted[c]
  <2>1. /\ Incremented(usage[d]) \in [count : Nat, ttl : BOOLEAN]
        /\ Incremented(usage[d]).count = usage[d].count + 1
    BY <1>1, <1>2 DEF Incremented
  <2>2. usage[d].count \in Nat /\ uncounted[d] \in Nat
    BY <1>1, <1>2
  <2>3. CASE usage' = [usage EXCEPT ![d] = Incremented(@)] /\ UNCHANGED uncounted
    BY <1>1, <1>2, <2>1, <2>2, <2>3
  <2>4. CASE uncounted' = [uncounted EXCEPT ![d] = @ + 1] /\ UNCHANGED usage
    <3>1. /\ uncounted'[d] = uncounted[d] + 1 /\ uncounted' \in [Days -> Nat]
          /\ \A c \in Days : c # d => uncounted'[c] = uncounted[c]
      BY <1>1, <1>2, <2>2, <2>4
    <3>2. usage'[d].count + uncounted'[d] = usage[d].count + uncounted[d] + 1
      BY <2>2, <2>4, <3>1
    <3> QED BY <1>2, <2>4, <3>1, <3>2
  <2> QED BY <1>4, <2>3, <2>4
<1>10. LookupsType'
  BY <1>2, <1>4, <1>5, <1>6, <1>9 DEF LookupsInv, LookupsType, LookupRecord
<1>11. /\ Counting(d)' = Counting(d) \cup {r} /\ r \notin Counting(d)
       /\ \A c \in Days : c # d => Counting(c)' = Counting(c)
  <2>1. \A c \in Days : (CountedIn(n, c) <=> c = d) /\ ~CountedIn(lookup[r], c)
    BY <1>1, <1>5, <1>3 DEF CountedIn
  <2>2. \A c \in Days : Counting(c)' = {q \in Lookups : CountedIn(lookup'[q], c)}
    BY DEF Counting, CountedIn
  <2> QED BY <1>1, <1>7, <2>1, <2>2 DEF Counting
<1>12. /\ Cardinality(Counting(d)') = Cardinality(Counting(d)) + 1
       /\ Cardinality(Counting(d)) \in Nat
  BY <1>11, CountingFinite, FS_AddElement
<1>13. AllCounted'
  <2> SUFFICES ASSUME NEW c \in Days, c >= today
               PROVE  called[c] + Cardinality(Counting(c)') <= usage'[c].count + uncounted'[c]
    BY <1>4 DEF AllCounted
  <2>1. called[c] + Cardinality(Counting(c)) <= usage[c].count + uncounted[c]
    BY DEF LookupsInv, AllCounted
  <2>2. CASE c # d
    BY <1>9, <1>11, <2>1, <2>2
  <2>3. CASE c = d
    <3>1. called[d] \in Nat /\ usage[d].count \in Nat /\ uncounted[d] \in Nat
      BY <1>1, <1>2
    <3>2. usage'[d].count \in Nat /\ uncounted'[d] \in Nat
      BY <1>1, <1>9
    <3>3. called[d] + Cardinality(Counting(d)) <= usage[d].count + uncounted[d]
      BY <2>1, <2>3
    <3>4. usage'[d].count + uncounted'[d] = usage[d].count + uncounted[d] + 1
      BY <1>9
    <3>5. called[d] + Cardinality(Counting(d)') <= usage'[d].count + uncounted'[d]
      BY <1>12, <3>1, <3>2, <3>3, <3>4
    <3> QED BY <2>3, <3>5
  <2> QED BY <2>2, <2>3
<1> QED BY <1>7, <1>8, <1>10, <1>13 DEF LookupsInv

LEMMA FetchKeepsLookups ==
  ASSUME LookupsInv, NEW r \in Lookups, FetchAnswer(r)
  PROVE  LookupsInv'
<1>1. PICK k \in LookupRecord, d \in Days :
         k = lookup[r] /\ d = k.day /\ LookupInv(k) /\ k.at = "fetch" /\ k.answer = "none"
  BY DEF LookupsInv, LookupsType, LookupRecord, FetchAnswer, In, LookupInv
<1>2. /\ lookup \in [Lookups -> LookupRecord] /\ called \in [Days -> Nat]
      /\ usage \in [Days -> [count : Nat, ttl : BOOLEAN]] /\ uncounted \in [Days -> Nat]
  BY DEF LookupsInv, LookupsType, LookupRecord
<1> DEFINE stored == [k EXCEPT !.at = "store"]
<1>0. \/ lookup' = [lookup EXCEPT ![r] = stored]
      \/ k.ask \in Currencies /\ lookup' = [lookup EXCEPT ![r] = Answered(k, "unknown")]
      \/ lookup' = [lookup EXCEPT ![r] = Failed(Fault(k, "source"))]
  BY <1>1 DEF FetchAnswer, Step, Put, Unknown
<1> HIDE DEF stored
<1>3. PICK n \in {stored, Answered(k, "unknown"),
                  Failed(Fault(k, "source"))} :
         /\ lookup' = [lookup EXCEPT ![r] = n]
         /\ n = Answered(k, "unknown") /\ k.ask \notin Currencies
               => n \in {stored, Failed(Fault(k, "source"))}
  BY <1>0
<1>4. /\ UNCHANGED <<copied, today, usage, uncounted>>
      /\ called' = IF k.ask = "ip" THEN [called EXCEPT ![d] = @ + 1] ELSE called
  BY <1>1 DEF FetchAnswer
<1>5. n \in LookupRecord /\ LookupInv(n) /\ n.at \in {"store", "get", "over"}
  <2>1. CASE n = stored
    <3>1. /\ n \in LookupRecord /\ n.at = "store" /\ n.answer = "none" /\ n.ask = k.ask
          /\ n.source = k.source
      BY <1>1, <2>1 DEF LookupRecord, stored
    <3> QED BY <1>1, <3>1 DEF LookupInv
  <2>2. CASE n = Answered(k, "unknown") /\ k.ask \in Currencies
    <3>1. /\ n \in LookupRecord /\ n.at = "over" /\ n.answer = "unknown" /\ n.ask \in Currencies
          /\ n.source = k.source
      BY <1>1, <1>3, <2>2 DEF Answered, LookupRecord, Answers
    <3> QED BY <1>1, <1>3, <2>2, <3>1 DEF LookupInv, Currencies
  <2>3. CASE n = Failed(Fault(k, "source"))
    BY <1>1, <2>3, FaultIsRecorded
  <2> QED BY <1>3, <2>1, <2>2, <2>3
<1>6. \A q \in Lookups : lookup'[q] = IF q = r THEN n ELSE lookup[q]
  BY <1>2, <1>3
<1>7. LookupsType'
  <2>1. lookup' \in [Lookups -> LookupRecord]
    BY <1>2, <1>3, <1>5
  <2>2. called' \in [Days -> Nat]
    BY <1>2, <1>4
  <2> QED BY <1>4, <2>1, <2>2 DEF LookupsInv, LookupsType, LookupRecord
<1>8. \A c \in Days : /\ ~CountedIn(n, c)
                      /\ CountedIn(lookup[r], c) <=> k.ask = "ip" /\ c = d
  BY <1>1, <1>5 DEF CountedIn
<1>9. \A c \in Days : Counting(c)' = {q \in Lookups : CountedIn(lookup'[q], c)}
  BY DEF Counting, CountedIn
<1>10. AllCounted'
  <2>1. CASE k.ask # "ip"
    <3>1. \A c \in Days : Counting(c)' = Counting(c)
      BY <1>6, <1>8, <1>9, <2>1 DEF Counting
    <3> QED BY <1>4, <2>1, <3>1 DEF LookupsInv, AllCounted
  <2>2. CASE k.ask = "ip"
    <3>1. /\ Counting(d)' = Counting(d) \ {r} /\ r \in Counting(d)
          /\ \A c \in Days : c # d => Counting(c)' = Counting(c)
      BY <1>6, <1>8, <1>9, <2>2 DEF Counting
    <3>2. /\ Cardinality(Counting(d)') = Cardinality(Counting(d)) - 1
          /\ Cardinality(Counting(d)) \in Nat
      BY <3>1, CountingFinite, FS_RemoveElement
    <3>3. /\ called'[d] = called[d] + 1
          /\ \A c \in Days : c # d => called'[c] = called[c]
      BY <1>2, <1>4, <2>2
    <3> SUFFICES ASSUME NEW c \in Days, c >= today
                 PROVE  called'[c] + Cardinality(Counting(c)') <= usage[c].count + uncounted[c]
      BY <1>4 DEF AllCounted
    <3>4. called[c] + Cardinality(Counting(c)) <= usage[c].count + uncounted[c]
      BY DEF LookupsInv, AllCounted
    <3>5. CASE c # d
      BY <3>1, <3>3, <3>4, <3>5
    <3>6. CASE c = d
      <4>1. called[d] \in Nat /\ usage[d].count \in Nat /\ uncounted[d] \in Nat
        BY <1>2
      <4>2. called[d] + Cardinality(Counting(d)) <= usage[d].count + uncounted[d]
        BY <3>4, <3>6
      <4>3. called'[d] + Cardinality(Counting(d)') <= usage[d].count + uncounted[d]
        BY <3>2, <3>3, <4>1, <4>2
      <4> QED BY <3>6, <4>3
    <3> QED BY <3>5, <3>6
  <2> QED BY <2>1, <2>2
<1> QED BY <1>5, <1>6, <1>7, <1>10 DEF LookupsInv

LEMMA ExpireKeepsLookups ==
  ASSUME LookupsInv, NEW r \in Lookups, ExpireUsage(r)
  PROVE  LookupsInv'
<1>1. PICK k \in LookupRecord, d \in Days :
         k = lookup[r] /\ d = k.day /\ LookupInv(k) /\ k.at = "expire" /\ k.ask = "ip"
  BY DEF LookupsInv, LookupsType, LookupRecord, ExpireUsage, In, LookupInv
<1> DEFINE n == [k EXCEPT !.at = "fetch"]
<1>2. /\ n \in LookupRecord /\ n.at = "fetch" /\ n.ask = "ip" /\ n.day = d
      /\ n.source = k.source /\ n.answer = k.answer
  BY <1>1 DEF LookupRecord
<1>3. Put(r, n) /\ UNCHANGED <<copied, today, called, uncounted>>
  BY <1>1 DEF ExpireUsage, Step
<1>4. \/ usage' = [usage EXCEPT ![d].ttl = @ \/ usage[d].count > 0]
      \/ UNCHANGED usage
  BY <1>1 DEF ExpireUsage
<1> HIDE DEF n
<1>5. LookupInv(n)
  BY <1>1, <1>2 DEF LookupInv
<1>6. \A c \in Days : CountedIn(n, c) <=> CountedIn(lookup[r], c)
  BY <1>1, <1>2 DEF CountedIn
<1>7. /\ usage' \in [Days -> [count : Nat, ttl : BOOLEAN]]
      /\ \A c \in Days : usage'[c].count = usage[c].count
  <2>1. usage \in [Days -> [count : Nat, ttl : BOOLEAN]]
    BY DEF LookupsInv, LookupsType
  <2>2. CASE usage' = [usage EXCEPT ![d].ttl = @ \/ usage[d].count > 0]
    <3> DEFINE b == usage[d].ttl \/ usage[d].count > 0
    <3>1. b \in BOOLEAN /\ usage' = [usage EXCEPT ![d].ttl = b]
      BY <1>1, <2>1, <2>2
    <3> HIDE DEF b
    <3> QED BY <1>1, <2>1, <3>1
  <2> QED BY <1>4, <2>1, <2>2
<1>8. copied' \subseteq Sources
  BY <1>3 DEF LookupsInv, LookupsType
<1> QED BY <1>2, <1>3, <1>5, <1>6, <1>7, <1>8, UncountedStep

LEMMA LookupsInvNext == LookupsInv /\ LookupsNext => LookupsInv'
<1> SUFFICES ASSUME LookupsInv, LookupsNext PROVE LookupsInv'
  OBVIOUS
<1>1. ASSUME NEW s \in Sources, ExpireCopy(s) PROVE LookupsInv'
  BY <1>1 DEF ExpireCopy, LookupsInv, LookupsType, AllCounted, Counting
<1>2. ASSUME NEW d \in Days, ExpireCounter(d) PROVE LookupsInv'
  <2>1. d < today /\ UNCHANGED <<lookup, copied, today, called, uncounted>>
    BY <1>2 DEF ExpireCounter
  <2>2. /\ usage' \in [Days -> [count : Nat, ttl : BOOLEAN]]
        /\ \A c \in Days : c # d => usage'[c] = usage[c]
    BY <1>2 DEF ExpireCounter, LookupsInv, LookupsType
  <2>3. d \in Nat /\ today \in Nat
    BY LookupsAssumption, FS_CardinalityType DEF LookupsInv, LookupsType
  <2>4. AllCounted'
    <3> SUFFICES ASSUME NEW c \in Days, c >= today
                 PROVE  called[c] + Cardinality(Counting(c)') <= usage'[c].count + uncounted[c]
      BY <2>1 DEF AllCounted
    <3>1. c # d
      BY <2>1, <2>3
    <3>2. Counting(c)' = Counting(c)
      BY <2>1 DEF Counting
    <3> QED BY <2>2, <3>1, <3>2 DEF LookupsInv, AllCounted
  <2> QED BY <2>1, <2>2, <2>4 DEF LookupsInv, LookupsType
<1>3. ASSUME Midnight PROVE LookupsInv'
  <2>1. today + 1 \in Days /\ today' = today + 1 /\ today \in Days
        /\ UNCHANGED <<lookup, copied, usage, called, uncounted>>
    BY <1>3 DEF Midnight, LookupsInv, LookupsType
  <2>2. \A c \in Days : c >= today' => c >= today
    BY <2>1, LookupsAssumption, FS_CardinalityType
  <2>3. \A c \in Days : Counting(c)' = Counting(c)
    BY <2>1 DEF Counting
  <2>4. AllCounted'
    BY <2>1, <2>2, <2>3 DEF LookupsInv, AllCounted
  <2> QED BY <2>1, <2>4 DEF LookupsInv, LookupsType
<1> QED BY AskKeepsLookups, ReadKeepsLookups, FetchKeepsLookups, StoreKeepsLookups,
           CountKeepsLookups, ExpireKeepsLookups, <1>1, <1>2, <1>3 DEF LookupsNext

(* A lookup is refused only for a fault that its fallbacks cannot cover,   *)
(* or without an API key for a currency that the fixed table lacks, never  *)
(* one that it has; and the daily counter misses no call but those whose   *)
(* increment failed (ip-validator.service.js:93-123,                       *)
(* public-api.service.js:404-411, currency-validator.service.js:62-133).   *)
THEOREM LookupsAreSound == Spec => []LookupsSound
<1>1. Init => LookupsInv
  <2> SUFFICES ASSUME LookupsInit PROVE LookupsInv
    BY DEF Init
  <2>1. LookupsType
    BY LookupsAssumption DEF LookupsInit, LookupsType, NoLookup, Questions, Currencies, Sources, Answers
  <2>2. \A r \in Lookups : LookupInv(lookup[r])
    BY DEF LookupsInit, NoLookup, LookupInv
  <2>3. \A d \in Days : Counting(d) = {}
    BY DEF LookupsInit, NoLookup, Counting, CountedIn
  <2>4. \A d \in Days : Cardinality(Counting(d)) = 0
    BY <2>3, FS_EmptySet
  <2>5. \A d \in Days : called[d] = 0 /\ usage[d].count = 0 /\ uncounted[d] = 0
    BY DEF LookupsInit
  <2>6. AllCounted
    BY <2>4, <2>5 DEF AllCounted
  <2> QED BY <2>1, <2>2, <2>6 DEF LookupsInv
<1>2. LookupsInv /\ [Next]_vars => LookupsInv'
  <2>1. LookupsInv /\ UNCHANGED lookupVars => LookupsInv'
    BY DEF LookupsInv, LookupsType, AllCounted, Counting, lookupVars
  <2> QED BY LookupsInvNext, <2>1 DEF Next, vars, Runs
<1>3. LookupsInv => LookupsSound
  <2> SUFFICES ASSUME LookupsInv PROVE LookupsSound
    OBVIOUS
  <2>1. RefusedForFault
    BY DEF LookupsInv, LookupInv, RefusedForFault
  <2>2. ASSUME NEW d \in Days, d >= today PROVE called[d] <= usage[d].count + uncounted[d]
    <3>1. /\ called[d] \in Nat /\ usage[d].count \in Nat /\ uncounted[d] \in Nat
          /\ Cardinality(Counting(d)) \in Nat
      BY CountingFinite DEF LookupsInv, LookupsType
    <3>2. called[d] + Cardinality(Counting(d)) <= usage[d].count + uncounted[d]
      BY <2>2 DEF LookupsInv, AllCounted
    <3> QED BY <3>1, <3>2
  <2> QED BY <2>1, <2>2 DEF LookupsSound, CallsCounted, LookupsInv
<1> QED BY <1>1, <1>2, <1>3, PTL DEF Spec

-----------------------------------------------------------------------------
(* AI clients *)

\* The keys of the first a attempts, of n keys: every second one.
Strided(n, a) == {(2 * i) % n : i \in 0..a - 1}

KeyInv ==
    /\ request \in Requests
    /\ tried \subseteq 0..3
    /\ garbled \in BOOLEAN
    /\ request.at = "idle" => request.attempt = 0 /\ request.active = 0 /\ tried = {}
    /\ request.at # "idle" => /\ request.n \in KeyCounts /\ request.attempt <= request.n
                              /\ request.active < request.n /\ request.key < 4
    /\ request.at \in {"sent", "parse"} => request.attempt < request.n /\ request.key < request.n
    /\ request.at = "failed" => request.attempt = request.n
    /\ ~garbled /\ request.at \in {"next", "sent"} /\ request.attempt < request.n =>
          request.active = request.attempt
    /\ ~garbled /\ request.at \in {"next", "failed"} =>
          tried = Strided(request.n, request.attempt)
    /\ ~garbled /\ request.at = "sent" => tried = Strided(request.n, request.attempt + 1)

\* Of an odd number of keys that is all of them.
LEMMA StridedAll ==
  ASSUME NEW n \in 1..4, n % 2 = 1
  PROVE  Strided(n, n) = 0..n - 1
<1>1. CASE n = 1
  <2>1. Strided(n, n) = {0}
    BY <1>1 DEF Strided
  <2> QED BY <1>1, <2>1
<1>2. CASE n = 3
  <2>1. 0 % 3 = 0 /\ 2 % 3 = 2 /\ 4 % 3 = 1
    OBVIOUS
  <2>2. 0..n - 1 = {0, 1, 2}
    BY <1>2
  <2>3. Strided(n, n) = {(2 * 0) % 3, (2 * 1) % 3, (2 * 2) % 3}
    BY <1>2, <2>2 DEF Strided
  <2> QED BY <2>1, <2>2, <2>3
<1>3. n # 2 /\ n # 4
  OBVIOUS
<1> QED BY <1>1, <1>2, <1>3

LEMMA StridedOneMore ==
  ASSUME NEW n \in 1..4, NEW a \in 0..4
  PROVE  /\ Strided(n, 0) = {}
         /\ Strided(n, a + 1) = Strided(n, a) \cup {(a + a) % n}
<1>1. Strided(n, 0) = {}
  BY DEF Strided
<1>2. 0..(a + 1) - 1 = (0..a - 1) \cup {a} /\ 2 * a = a + a
  OBVIOUS
<1>3. Strided(n, a + 1) = Strided(n, a) \cup {(2 * a) % n}
  BY <1>2 DEF Strided
<1> QED BY <1>1, <1>2, <1>3

\* What follows an attempt that failed.
LEMMA NextAttemptIs ==
  ASSUME NEW k \in Requests, k.n \in KeyCounts, k.attempt < k.n, k.active < k.n,
         NEW m \in {Refused(k), Thrown(k)}
  PROVE  /\ m \in Requests /\ m.at = "next" /\ m.n = k.n /\ m.key = k.key
         /\ m.attempt = k.attempt + 1 /\ m.active < k.n
         /\ k.active = k.attempt /\ m.attempt < m.n => m.active = m.attempt
<1>1. k.n \in 1..4 /\ k.attempt \in 0..4 /\ k.active \in 0..3 /\ k.key \in 0..3
  BY AiClientsAssumption DEF Requests
<1> DEFINE b == (k.active + 1) % k.n
<1>2. b \in 0..3 /\ b < k.n /\ (k.active + 1 < k.n => b = k.active + 1)
  <2>1. CASE k.n = 1
    BY <1>1, <2>1
  <2>2. CASE k.n = 2
    BY <1>1, <2>2
  <2>3. CASE k.n = 3
    BY <1>1, <2>3
  <2>4. CASE k.n = 4
    BY <1>1, <2>4
  <2> QED BY <1>1, <2>1, <2>2, <2>3, <2>4
<1> DEFINE rotated == [k EXCEPT !.active = b]
<1>3. /\ rotated \in Requests /\ rotated.n = k.n /\ rotated.attempt = k.attempt
      /\ rotated.active = b /\ rotated.key = k.key /\ rotated.at = k.at
  BY <1>1, <1>2 DEF Requests
<1>4. Rotated(k) = rotated
  BY DEF Rotated
<1> HIDE DEF b, rotated
<1>5. ASSUME NEW j \in Requests, j.n = k.n, j.attempt = k.attempt
      PROVE  /\ NextAttempt(j) \in Requests /\ NextAttempt(j).at = "next"
             /\ NextAttempt(j).attempt = k.attempt + 1 /\ NextAttempt(j).active = j.active
             /\ NextAttempt(j).key = j.key /\ NextAttempt(j).n = k.n
  <2>1. k.attempt + 1 \in 0..4
    BY <1>1
  <2> QED BY <1>1, <1>5, <2>1 DEF NextAttempt, Requests
<1>6. CASE m = NextAttempt(rotated)
  BY <1>1, <1>2, <1>3, <1>5, <1>6
<1>7. CASE m = NextAttempt(k) /\ ~(k.attempt < k.n - 1)
  BY <1>1, <1>5, <1>7
<1> QED BY <1>4, <1>6, <1>7 DEF Refused, Thrown

LEMMA KeyInvNext ==
  KeyInv /\ (\/ \E n \in KeyCounts : AskModel(n)
             \/ SendRequest \/ ReceiveStatus \/ ParseAnswer) => KeyInv'
<1> SUFFICES ASSUME KeyInv PROVE (\/ \E n \in KeyCounts : AskModel(n)
                                  \/ SendRequest \/ ReceiveStatus \/ ParseAnswer) => KeyInv'
  OBVIOUS
<1>0. PICK k \in Requests : k = request
  BY DEF KeyInv
<1>1. ASSUME NEW n \in KeyCounts, AskModel(n) PROVE KeyInv'
  <2> DEFINE m == [k EXCEPT !.n = n, !.at = "next"]
  <2>1. /\ m \in Requests /\ m.n = n /\ m.at = "next" /\ m.attempt = k.attempt
        /\ m.active = k.active /\ m.key = k.key
    BY DEF Requests
  <2>2. request' = m /\ UNCHANGED <<tried, garbled>> /\ k.at = "idle"
    BY <1>0, <1>1 DEF AskModel
  <2> HIDE DEF m
  <2>3. k.attempt = 0 /\ k.active = 0 /\ tried = {} /\ n \in 1..4 /\ k.key \in 0..3
    BY <1>0, <2>2, AiClientsAssumption DEF KeyInv, Requests
  <2>4. Strided(n, 0) = {}
    BY <2>3, StridedOneMore
  <2> QED BY <2>1, <2>2, <2>3, <2>4 DEF KeyInv
<1>2. ASSUME SendRequest PROVE KeyInv'
  <2>1. /\ k.n \in KeyCounts /\ k.n \in 1..4 /\ k.attempt \in 0..4 /\ k.active \in 0..3
        /\ k.at = "next" /\ k.attempt <= k.n /\ k.active < k.n /\ k.key \in 0..3
    BY <1>0, <1>2, AiClientsAssumption DEF SendRequest, KeyInv, Requests
  <2>2. CASE k.attempt >= k.n
    <3> DEFINE m == [k EXCEPT !.at = "failed"]
    <3>1. /\ m \in Requests /\ m.n = k.n /\ m.at = "failed" /\ m.attempt = k.attempt
          /\ m.active = k.active /\ m.key = k.key
      BY DEF Requests
    <3>2. request' = m /\ UNCHANGED <<tried, garbled>>
      BY <1>0, <1>2, <2>2 DEF SendRequest, Exhausted
    <3> HIDE DEF m
    <3> QED BY <1>0, <2>1, <2>2, <3>1, <3>2 DEF KeyInv
  <2>3. CASE k.attempt < k.n
    <3> DEFINE key == (k.active + k.attempt) % k.n
               m == [k EXCEPT !.key = key, !.at = "sent"]
    <3>1. key \in 0..3 /\ key < k.n
      <4>1. CASE k.n = 1
        BY <2>1, <4>1
      <4>2. CASE k.n = 2
        BY <2>1, <4>2
      <4>3. CASE k.n = 3
        BY <2>1, <4>3
      <4>4. CASE k.n = 4
        BY <2>1, <4>4
      <4> QED BY <2>1, <4>1, <4>2, <4>3, <4>4
    <3>2. /\ m \in Requests /\ m.n = k.n /\ m.at = "sent" /\ m.attempt = k.attempt
          /\ m.active = k.active /\ m.key = key
      BY <3>1 DEF Requests
    <3>3. request' = m /\ tried' = tried \cup {key} /\ UNCHANGED garbled
      BY <1>0, <1>2, <2>1, <2>3 DEF SendRequest, Exhausted
    <3>4. ~garbled => /\ k.active = k.attempt /\ tried = Strided(k.n, k.attempt)
      BY <1>0, <2>1, <2>3 DEF KeyInv
    <3>5. ~garbled => key = (k.attempt + k.attempt) % k.n
      BY <3>4
    <3> HIDE DEF key, m
    <3>6. ~garbled => tried' = Strided(k.n, k.attempt + 1)
      BY <2>1, <3>3, <3>4, <3>5, StridedOneMore
    <3> QED BY <1>0, <2>1, <2>3, <3>1, <3>2, <3>3, <3>4, <3>6 DEF KeyInv
  <2> QED BY <2>1, <2>2, <2>3
<1>3. ASSUME ReceiveStatus PROVE KeyInv'
  <2>1. /\ k.n \in KeyCounts /\ k.at = "sent" /\ k.attempt < k.n /\ k.active < k.n
        /\ k.key < k.n /\ k.key \in 0..3 /\ k.n \in 1..4 /\ k.attempt \in 0..4
        /\ UNCHANGED <<tried, garbled>>
        /\ ~garbled => k.active = k.attempt /\ tried = Strided(k.n, k.attempt + 1)
    BY <1>0, <1>3, AiClientsAssumption DEF ReceiveStatus, KeyInv, Requests
  <2>2. CASE request' \in {Refused(k), Thrown(k)}
    <3>1. PICK m \in {Refused(k), Thrown(k)} : request' = m
      BY <2>2
    <3>2. /\ m \in Requests /\ m.at = "next" /\ m.n = k.n /\ m.key = k.key
          /\ m.attempt = k.attempt + 1 /\ m.active < k.n
          /\ k.active = k.attempt /\ m.attempt < m.n => m.active = m.attempt
      BY <2>1, NextAttemptIs
    <3> QED BY <1>0, <2>1, <3>1, <3>2 DEF KeyInv
  <2>3. CASE request' = [k EXCEPT !.active = k.key, !.at = "parse"]
    <3> DEFINE m == [k EXCEPT !.active = k.key, !.at = "parse"]
    <3>1. /\ m \in Requests /\ m.n = k.n /\ m.at = "parse" /\ m.attempt = k.attempt
          /\ m.active = k.key /\ m.key = k.key
      BY <2>1 DEF Requests
    <3> HIDE DEF m
    <3> QED BY <1>0, <2>1, <2>3, <3>1 DEF KeyInv, m
  <2> QED BY <1>0, <1>3, <2>2, <2>3 DEF ReceiveStatus
<1>4. ASSUME ParseAnswer PROVE KeyInv'
  <2>1. /\ k.n \in KeyCounts /\ k.at = "parse" /\ k.attempt < k.n /\ k.active < k.n
        /\ k.key \in 0..3 /\ k.key < k.n /\ UNCHANGED tried /\ k.n \in 1..4 /\ k.attempt \in 0..4
    BY <1>0, <1>4, AiClientsAssumption DEF ParseAnswer, KeyInv, Requests
  <2>2. CASE request' = [k EXCEPT !.at = "answered"] /\ UNCHANGED garbled
    <3> DEFINE m == [k EXCEPT !.at = "answered"]
    <3>1. /\ m \in Requests /\ m.n = k.n /\ m.at = "answered" /\ m.attempt = k.attempt
          /\ m.active = k.active /\ m.key = k.key
      BY <2>1 DEF Requests
    <3>2. request' = m
      BY <2>2
    <3> HIDE DEF m
    <3> QED BY <1>0, <2>1, <2>2, <3>1, <3>2 DEF KeyInv
  <2>3. CASE request' = Thrown(k) /\ garbled' = TRUE
    <3>1. PICK m \in {Refused(k), Thrown(k)} : request' = m
      BY <2>3
    <3>2. /\ m \in Requests /\ m.at = "next" /\ m.n = k.n /\ m.key = k.key
          /\ m.attempt = k.attempt + 1 /\ m.active < k.n
      BY <2>1, NextAttemptIs
    <3> QED BY <1>0, <2>1, <2>3, <3>1, <3>2 DEF KeyInv
  <2> QED BY <1>0, <1>4, <2>2, <2>3 DEF ParseAnswer
<1> QED BY <1>1, <1>2, <1>3, <1>4

\* A memory is empty or one session's; a turn holds no session that is to come.
MemoryInv ==
    /\ memory \in [session : 0..MaxSessions, open : BOOLEAN, said : Seq(Messages)]
    /\ turn \in [Turns -> 0..MaxSessions]
    /\ memory.open => memory.session > 0 /\ Len(memory.said) > 0
    /\ ~memory.open => memory.said = << >>
    /\ \A t \in Turns : turn[t] <= memory.session
    /\ MemoryOfSession

\* Every message of it belongs to session s, and it begins with the prompt.
OfSession(said, s) ==
    /\ said \in Seq(Messages) /\ Len(said) > 0 /\ said[1].role = "system"
    /\ \A i \in 1..Len(said) : said[i].session = s

LEMMA PushedIs ==
  ASSUME NEW said \in Seq(Messages), NEW s \in 1..MaxSessions,
         NEW role \in {"system", "user", "assistant"},
         (said = << >> /\ role = "system") \/ OfSession(said, s)
  PROVE  OfSession(Pushed(said, role, s), s)
<1> DEFINE m == [role |-> role, session |-> s]
<1>1. m \in Messages /\ m.role = role /\ m.session = s
  BY DEF Messages
<1> HIDE DEF m
<1>2. Pushed(said, role, s) = Append(said, m)
  BY DEF Pushed, m
<1> QED BY <1>1, <1>2 DEF OfSession

LEMMA TrimmedIs ==
  ASSUME NEW said, NEW s, OfSession(said, s)
  PROVE  OfSession(Trimmed(said), s)
<1>0. said \in Seq(Messages) /\ Len(said) \in Nat
  BY DEF OfSession
<1>1. CASE Len(said) <= HistoryLimit
  BY <1>0, <1>1, AiClientsAssumption DEF Trimmed
<1>2. CASE Len(said) > HistoryLimit
  <2> DEFINE n == Len(said)
             tail == SubSeq(said, 4, n)
             first == <<said[1]>>
  <2>1. said[1] \in Messages /\ first \in Seq(Messages) /\ Len(first) = 1 /\ first[1] = said[1]
    <3>1. said[1] \in Messages
      BY <1>0, ElementOfSeq DEF OfSession
    <3> QED BY <3>1
  <2>2. /\ tail \in Seq(Messages) /\ Len(tail) = IF 4 <= n THEN n - 3 ELSE 0
        /\ \A i \in 1..n - 3 : tail[i] = said[i + 3]
    <3>1. \A i \in 4..n : said[i] \in Messages
      BY <1>0, ElementOfSeq
    <3>2. /\ tail \in Seq(Messages) /\ Len(tail) = IF 4 <= n THEN n - 4 + 1 ELSE 0
          /\ \A i \in 1..n - 4 + 1 : tail[i] = said[4 + i - 1]
      BY <1>0, <3>1, SubSeqProperties
    <3> HIDE DEF tail
    <3> QED BY <1>0, <3>2
  <2>3. Trimmed(said) = first \o tail
    BY <1>2 DEF Trimmed
  <2> HIDE DEF tail, first
  <2>4. /\ first \o tail \in Seq(Messages) /\ Len(first \o tail) = 1 + Len(tail)
        /\ \A i \in 1..1 + Len(tail) : (first \o tail)[i] = IF i <= 1 THEN first[i] ELSE tail[i - 1]
    <3>1. /\ first \o tail \in Seq(Messages) /\ Len(first \o tail) = Len(first) + Len(tail)
          /\ \A i \in 1..Len(first) + Len(tail) :
                (first \o tail)[i] = IF i <= Len(first) THEN first[i] ELSE tail[i - Len(first)]
      BY <2>1, <2>2, ConcatProperties
    <3> QED BY <2>1, <3>1
  <2>5. (first \o tail)[1] = said[1] /\ said[1].session = s /\ said[1].role = "system"
    BY <1>0, <2>1, <2>2, <2>4 DEF OfSession
  <2>6. ASSUME NEW i \in 1..1 + Len(tail) PROVE (first \o tail)[i].session = s
    <3>1. CASE i = 1
      BY <2>5, <3>1
    <3>2. CASE i # 1
      <4>1. i - 1 \in 1..n - 3 /\ (i - 1) + 3 \in 1..n
        BY <1>0, <2>2, <3>2
      <4>2. (first \o tail)[i] = tail[i - 1] /\ tail[i - 1] = said[(i - 1) + 3]
        BY <2>2, <2>4, <3>2, <4>1
      <4> QED BY <4>1, <4>2 DEF OfSession
    <3> QED BY <3>1, <3>2
  <2>7. OfSession(first \o tail, s)
    <3>1. Len(tail) \in Nat /\ Len(first \o tail) = 1 + Len(tail)
      BY <2>2, <2>4
    <3>2. \A i \in 1..Len(first \o tail) : (first \o tail)[i].session = s
      BY <2>6, <3>1
    <3>3. Len(first \o tail) > 0
      BY <3>1
    <3> QED BY <2>4, <2>5, <3>2, <3>3 DEF OfSession
  <2> QED BY <2>3, <2>7
<1> QED BY <1>0, <1>1, <1>2, AiClientsAssumption

LEMMA InvestigateKeepsMemory ==
  ASSUME MemoryInv, NEW t \in Turns, Investigate(t)
  PROVE  MemoryInv'
<1>1. /\ memory \in [session : 0..MaxSessions, open : BOOLEAN, said : Seq(Messages)]
      /\ turn \in [Turns -> 0..MaxSessions] /\ turn[t] = 0 /\ MaxSessions \in Nat
  BY AiClientsAssumption DEF MemoryInv, Investigate
<1>2. PICK m : m = IF memory.open THEN memory ELSE StartSession
  OBVIOUS
<1>3. /\ m \in [session : 0..MaxSessions, open : BOOLEAN, said : Seq(Messages)]
      /\ m.open = TRUE /\ m.session \in 1..MaxSessions /\ OfSession(m.said, m.session)
      /\ memory.open => m = memory
      /\ ~memory.open => m.session = memory.session + 1
  <2>1. CASE memory.open
    BY <1>1, <1>2, <2>1 DEF MemoryInv, MemoryOfSession, OfSession
  <2>2. CASE ~memory.open
    <3> DEFINE s == memory.session + 1
               said == Pushed(<< >>, "system", s)
    <3>1. s \in 1..MaxSessions
      BY <1>1, <2>2 DEF Investigate
    <3>2. OfSession(said, s)
      <4>1. << >> \in Seq(Messages)
        BY EmptySeq
      <4> HIDE DEF s
      <4> QED BY <3>1, <4>1, PushedIs
    <3>3. m = [session |-> s, open |-> TRUE, said |-> said]
      BY <1>2, <2>2 DEF StartSession
    <3> HIDE DEF s, said
    <3>4. s = memory.session + 1
      BY DEF s
    <3>5. m.session = s /\ m.open = TRUE /\ m.said = said
      BY <3>3
    <3>6. said \in Seq(Messages) /\ s \in 0..MaxSessions
      BY <3>1, <3>2 DEF OfSession
    <3>7. m \in [session : 0..MaxSessions, open : BOOLEAN, said : Seq(Messages)]
      BY <3>3, <3>6
    <3> QED BY <2>2, <3>1, <3>2, <3>4, <3>5, <3>7
  <2> QED BY <2>1, <2>2
<1> DEFINE said == Trimmed(Pushed(m.said, "user", m.session))
           n == [m EXCEPT !.said = said]
<1>4. OfSession(said, m.session)
  <2>1. OfSession(Pushed(m.said, "user", m.session), m.session)
    BY <1>3, PushedIs
  <2> QED BY <2>1, TrimmedIs
<1>5. memory' = n /\ turn' = [turn EXCEPT ![t] = m.session]
  BY <1>2 DEF Investigate
<1> HIDE DEF said
<1>6. /\ n \in [session : 0..MaxSessions, open : BOOLEAN, said : Seq(Messages)]
      /\ n.session = m.session /\ n.open = TRUE /\ n.said = said
  BY <1>3, <1>4 DEF OfSession
<1> HIDE DEF n
<1>7. /\ turn' \in [Turns -> 0..MaxSessions]
      /\ \A q \in Turns : turn'[q] = IF q = t THEN m.session ELSE turn[q]
  BY <1>1, <1>3, <1>5
<1>8. \A q \in Turns : turn[q] <= memory.session /\ turn[q] \in Nat
  BY <1>1 DEF MemoryInv
<1>9. \A q \in Turns : turn'[q] <= m.session
  BY <1>1, <1>3, <1>7, <1>8
<1>10. MemoryOfSession'
  BY <1>4, <1>5, <1>6 DEF MemoryOfSession, OfSession
<1> QED BY <1>3, <1>4, <1>5, <1>6, <1>7, <1>9, <1>10 DEF MemoryInv, OfSession

LEMMA AnswerKeepsMemory ==
  ASSUME MemoryInv, NEW t \in Turns, ReceiveAnswer(t)
  PROVE  MemoryInv'
<1>1. PICK m \in [session : 0..MaxSessions, open : BOOLEAN, said : Seq(Messages)],
           s \in 0..MaxSessions : m = memory /\ s = turn[t]
  BY DEF MemoryInv
<1>2. /\ turn \in [Turns -> 0..MaxSessions] /\ s \in 1..MaxSessions /\ MaxSessions \in Nat
      /\ turn' = [turn EXCEPT ![t] = 0]
  BY <1>1, AiClientsAssumption DEF MemoryInv, ReceiveAnswer
<1>3. /\ m.open => m.session \in 1..MaxSessions /\ OfSession(m.said, m.session)
      /\ ~m.open => m.said = << >>
      /\ \A q \in Turns : turn[q] <= m.session
  BY <1>1, <1>2 DEF MemoryInv, MemoryOfSession, OfSession
<1>4. \A q \in Turns : turn'[q] = IF q = t THEN 0 ELSE turn[q]
  BY <1>2
<1>5. m.session \in 0..MaxSessions
  OBVIOUS
<1>6. /\ turn' \in [Turns -> 0..MaxSessions]
      /\ \A q \in Turns : turn'[q] <= m.session
  BY <1>2, <1>3, <1>4, <1>5
<1>7. ASSUME memory' = memory PROVE MemoryInv'
  <2>1. MemoryOfSession'
    BY <1>7 DEF MemoryInv, MemoryOfSession
  <2> QED BY <1>1, <1>6, <1>7, <2>1 DEF MemoryInv
<1>8. ASSUME Held(s), memory' = [m EXCEPT !.said = Pushed(m.said, "assistant", s)]
      PROVE  MemoryInv'
  <2> DEFINE said == Pushed(m.said, "assistant", s)
             n == [m EXCEPT !.said = said]
  <2>1. m.open = TRUE /\ m.session = s /\ OfSession(m.said, s)
    BY <1>1, <1>3, <1>8 DEF Held
  <2>2. OfSession(said, s)
    BY <1>2, <2>1, PushedIs
  <2>3. memory' = n
    BY <1>8
  <2> HIDE DEF said
  <2>4. /\ n \in [session : 0..MaxSessions, open : BOOLEAN, said : Seq(Messages)]
        /\ n.session = s /\ n.open = TRUE /\ n.said = said
    BY <1>2, <2>1, <2>2 DEF OfSession
  <2> HIDE DEF n
  <2>5. MemoryOfSession'
    BY <2>2, <2>3, <2>4 DEF MemoryOfSession, OfSession
  <2> QED BY <1>2, <1>6, <2>1, <2>2, <2>3, <2>4, <2>5 DEF MemoryInv, OfSession
<1> QED BY <1>1, <1>7, <1>8 DEF ReceiveAnswer

LEMMA ClearKeepsMemory == MemoryInv /\ ClearSession => MemoryInv'
<1> SUFFICES ASSUME MemoryInv, ClearSession PROVE MemoryInv'
  OBVIOUS
<1>1. PICK m \in [session : 0..MaxSessions, open : BOOLEAN, said : Seq(Messages)] : m = memory
  BY DEF MemoryInv
<1> DEFINE n == [m EXCEPT !.open = FALSE, !.said = << >>]
<1>2. memory' = n /\ UNCHANGED turn
  BY <1>1 DEF ClearSession
<1>3. << >> \in Seq(Messages) /\ Len(<< >>) = 0
  BY EmptySeq
<1>4. /\ n \in [session : 0..MaxSessions, open : BOOLEAN, said : Seq(Messages)]
      /\ n.session = m.session /\ n.open = FALSE /\ n.said = << >>
  BY <1>3
<1> HIDE DEF n
<1> QED BY <1>1, <1>2, <1>4 DEF MemoryInv, MemoryOfSession

(* A request is given up only after as many attempts as there are keys,    *)
(* and an odd number of keys was then tried entirely; a conversation's     *)
(* memory begins with its prompt and holds only its own messages           *)
(* (openrouter.service.js:82-161, groq.service.js:255-307).                *)
THEOREM AiClientsAreSound == Spec => []AiClientsSound
<1> DEFINE AllInv == KeyInv /\ MemoryInv
<1>1. Init => AllInv
  <2> SUFFICES ASSUME AiClientsInit PROVE AllInv
    BY DEF Init
  <2>1. KeyInv
    <3> DEFINE k == [n |-> 0, active |-> 0, attempt |-> 0, key |-> 0, at |-> "idle"]
    <3>1. k \in Requests /\ k.at = "idle" /\ k.attempt = 0 /\ k.active = 0
      BY DEF Requests
    <3>2. request = k /\ tried = {} /\ garbled = FALSE
      BY DEF AiClientsInit
    <3> HIDE DEF k
    <3> QED BY <3>1, <3>2 DEF KeyInv
  <2>2. << >> \in Seq(Messages) /\ MaxSessions \in Nat
    BY EmptySeq, AiClientsAssumption
  <2>3. MemoryInv
    BY <2>2 DEF AiClientsInit, MemoryInv, MemoryOfSession
  <2> QED BY <2>1, <2>3
<1>2. AllInv /\ [Next]_vars => AllInv'
  <2>1. ASSUME AllInv, UNCHANGED <<request, tried, garbled>> PROVE KeyInv'
    BY <2>1 DEF KeyInv
  <2>2. ASSUME AllInv, UNCHANGED <<memory, turn>> PROVE MemoryInv'
    BY <2>2 DEF MemoryInv, MemoryOfSession
  <2>3. ASSUME AllInv, AiClientsNext PROVE AllInv'
    <3>1. CASE \/ \E n \in KeyCounts : AskModel(n)
               \/ SendRequest \/ ReceiveStatus \/ ParseAnswer
      <4>1. UNCHANGED <<memory, turn>>
        <5>1. (\E n \in KeyCounts : AskModel(n)) => UNCHANGED <<memory, turn>>
          BY DEF AskModel
        <5>2. SendRequest => UNCHANGED <<memory, turn>>
          BY DEF SendRequest
        <5>3. ReceiveStatus => UNCHANGED <<memory, turn>>
          BY DEF ReceiveStatus
        <5>4. ParseAnswer => UNCHANGED <<memory, turn>>
          BY DEF ParseAnswer
        <5> QED BY <3>1, <5>1, <5>2, <5>3, <5>4
      <4> QED BY <2>2, <2>3, <3>1, <4>1, KeyInvNext
    <3>2. ASSUME NEW t \in Turns, Investigate(t) PROVE AllInv'
      BY <2>1, <2>3, <3>2, InvestigateKeepsMemory DEF Investigate
    <3>3. ASSUME NEW t \in Turns, ReceiveAnswer(t) PROVE AllInv'
      BY <2>1, <2>3, <3>3, AnswerKeepsMemory DEF ReceiveAnswer
    <3>4. CASE ClearSession
      BY <2>1, <2>3, <3>4, ClearKeepsMemory DEF ClearSession
    <3> QED BY <2>3, <3>1, <3>2, <3>3, <3>4 DEF AiClientsNext
  <2>4. AllInv /\ UNCHANGED aiVars => AllInv'
    BY <2>1, <2>2 DEF aiVars
  <2> QED BY <2>3, <2>4 DEF Next, vars, Runs
<1>3. AllInv => AiClientsSound
  <2> SUFFICES ASSUME AllInv PROVE AiClientsSound
    OBVIOUS
  <2>1. KeysTried
    <3> SUFFICES ASSUME request.at = "failed", ~garbled
                 PROVE  /\ request.attempt = request.n
                        /\ request.n % 2 = 1 => tried = 0..request.n - 1
      BY DEF KeysTried
    <3>1. /\ request.attempt = request.n /\ request.n \in 1..4
          /\ tried = Strided(request.n, request.n)
      BY AiClientsAssumption DEF KeyInv
    <3> QED BY <3>1, StridedAll
  <2>2. AiClientsType
    BY DEF AiClientsType, KeyInv, MemoryInv
  <2> QED BY <2>1, <2>2 DEF AiClientsSound, MemoryInv
<1> QED BY <1>1, <1>2, <1>3, PTL DEF Spec

-----------------------------------------------------------------------------
(* Spending limits *)


LEMMA SpendCounts ==
    ASSUME TypeOK, NEW kind \in Kinds, Spend(kind)
    PROVE  /\ spent' \in [Kinds -> Nat]
           /\ kind \in {"fault", "crash"} => spent'["crash"] + spent'["fault"] > 0
           /\ spent["crash"] + spent["fault"] > 0
              => spent'["crash"] + spent'["fault"] > 0
  BY SpendingAssumption DEF Spend, TypeOK, Kinds

LEMMA InitSpending == SpendingInit => SpendingInv
  BY SpendingAssumption
  DEF SpendingInit, NoLimits, SpendingInv, TypeOK, TtlNeedsCounter, TtlOfPeriod,
      NoImmortalCounter, Steps, Kinds

\* A limit that was found is a limit.
LEMMA LimitedPeriods == \A docs : Limited(docs) \in SUBSET Periods
  BY DEF Limited

Strong == TtlNeedsCounter /\ TtlOfPeriod /\ NoImmortalCounter

\* The check writes no counter and gives no payout a period to look after.
LEMMA CheckStep ==
    ASSUME SpendingInv, NEW p \in Payouts,
           \/ Acquire(p) \/ FindLimits(p) \/ CheckPasses(p) \/ CheckFails(p)
           \/ Admit(p) \/ Complete(p) \/ Fail(p) \/ Record(p) \/ Recorded(p)
    PROVE  SpendingInv'
<1> USE SpendingAssumption DEF SpendingInv, TypeOK, Steps, Goto, Free
<1>1. Strong'
  <2>1. /\ UNCHANGED <<counter, ttl, at, spent>>
        /\ \A q \in Payouts : pc'[q] \in {"ttl", "expire"} <=> pc[q] \in {"ttl", "expire"}
    BY DEF Acquire, FindLimits, CheckPasses, CheckFails, Admit, Complete,
           Fail, Record, Recorded, counterVars
  <2> QED
    BY <2>1 DEF Strong, TtlNeedsCounter, TtlOfPeriod, NoImmortalCounter
<1>2. TypeOK'
  <2>1. CASE Acquire(p)
    BY <2>1 DEF Acquire, counterVars, limitVars, history
  <2>2. CASE FindLimits(p)
    BY <2>2, LimitedPeriods DEF FindLimits, counterVars, limitVars, history
  <2>3. CASE CheckPasses(p)
    BY <2>3 DEF CheckPasses, counterVars, limitVars
  <2>4. CASE CheckFails(p)
    BY <2>4 DEF CheckFails, counterVars, limitVars, history
  <2>5. CASE Admit(p)
    BY <2>5 DEF Admit, NoLimits, counterVars, limitVars
  <2>6. CASE Complete(p)
    BY <2>6 DEF Complete, counterVars, limitVars, history
  <2>7. CASE Fail(p)
    BY <2>7 DEF Fail, counterVars, limitVars, history
  <2>8. CASE Record(p)
    BY <2>8, LimitedPeriods DEF Record, counterVars, limitVars, history
  <2>9. CASE Recorded(p)
    BY <2>9 DEF Recorded, counterVars, limitVars, history
  <2> QED BY <2>1, <2>2, <2>3, <2>4, <2>5, <2>6, <2>7, <2>8, <2>9
<1> QED BY <1>1, <1>2 DEF Strong

\* Who raises a counter looks after it until it has a TTL.
LEMMA RecordStep ==
    ASSUME SpendingInv, NEW p \in Payouts, Increment(p) \/ ReadTtl(p) \/ SetTtl(p)
    PROVE  SpendingInv'
<1> USE SpendingAssumption
    DEF SpendingInv, TypeOK, Steps, Goto, limitVars, counterVars, history
<1>1. CASE Increment(p)
  <2>1. PICK t \in left[p] :
          /\ counter' = [counter EXCEPT ![t] =
                            AmountOf[p] + (IF counter[t] = Nil THEN 0 ELSE counter[t])]
          /\ left' = [left EXCEPT ![p] = left[p] \ {t}]
          /\ at' = [at EXCEPT ![p] = t]
    BY <1>1 DEF Increment
  <2>2. t \in Periods
    OBVIOUS
  <2>3. counter'[t] \in Nat
    BY <2>1, <2>2
  <2>4. TypeOK'
    BY <1>1, <2>1, <2>2, <2>3 DEF Increment
  <2>5. TtlNeedsCounter' /\ TtlOfPeriod'
    BY <1>1, <2>1, <2>2, <2>3 DEF Increment, TtlNeedsCounter, TtlOfPeriod
  <2>6. ASSUME NEW u \in Periods, counter'[u] # Nil, ~ttl'[u]
        PROVE  \/ \E q \in Payouts : pc'[q] \in {"ttl", "expire"} /\ at'[q] = u
               \/ spent'["crash"] + spent'["fault"] > 0
    <3>1. CASE u = t
      BY <1>1, <2>1, <3>1 DEF Increment
    <3>2. CASE u # t
      <4>1. counter[u] # Nil /\ ~ttl[u] /\ UNCHANGED spent
        BY <1>1, <2>1, <2>6, <3>2 DEF Increment
      <4>2. ASSUME NEW q \in Payouts, pc[q] \in {"ttl", "expire"}, at[q] = u
            PROVE  pc'[q] \in {"ttl", "expire"} /\ at'[q] = u
        BY <1>1, <2>1, <4>2 DEF Increment
      <4> QED BY <4>1, <4>2 DEF NoImmortalCounter
    <3> QED BY <3>1, <3>2
  <2> QED BY <2>4, <2>5, <2>6 DEF NoImmortalCounter
<1>2. CASE ReadTtl(p)
  <2>1. TypeOK'
    BY <1>2 DEF ReadTtl
  <2>2. TtlNeedsCounter' /\ TtlOfPeriod'
    BY <1>2 DEF ReadTtl, TtlNeedsCounter, TtlOfPeriod
  <2>3. NoImmortalCounter'
    BY <1>2 DEF ReadTtl, LacksTtl, NoImmortalCounter, TtlOfPeriod
  <2> QED BY <2>1, <2>2, <2>3
<1>3. CASE SetTtl(p)
  <2>1. TypeOK'
    BY <1>3 DEF SetTtl
  <2>2. TtlNeedsCounter' /\ TtlOfPeriod'
    BY <1>3 DEF SetTtl, TtlNeedsCounter, TtlOfPeriod
  <2>3. NoImmortalCounter'
    BY <1>3 DEF SetTtl, NoImmortalCounter, TtlOfPeriod
  <2> QED BY <2>1, <2>2, <2>3
<1> QED BY <1>1, <1>2, <1>3

\* What goes wrong is counted, and NoImmortalCounter allows for it.
LEMMA TroubleStep ==
    ASSUME SpendingInv, NEW p \in Payouts, RecordLost(p) \/ Crash(p)
    PROVE  SpendingInv'
<1>1. /\ spent' \in [Kinds -> Nat]
      /\ spent'["crash"] + spent'["fault"] > 0
  BY SpendCounts DEF RecordLost, Crash, SpendingInv, Kinds
<1>2. /\ UNCHANGED <<counter, ttl, at>>
      /\ \A q \in Payouts : pc'[q] \in {"ttl", "expire"} => pc[q] \in {"ttl", "expire"}
  BY DEF RecordLost, Crash, SpendingInv, TypeOK, Goto, counterVars
<1>3. TypeOK'
  BY <1>1 DEF RecordLost, Crash, SpendingInv, TypeOK, Steps, Goto, limitVars,
              counterVars, history
<1> QED
  BY <1>1, <1>2, <1>3 DEF SpendingInv, TtlNeedsCounter, TtlOfPeriod, NoImmortalCounter

\* Neither the operations on limits nor the clock make a counter immortal.
LEMMA SurroundingsStep ==
    ASSUME SpendingInv, (\E t \in Periods : LimitStep(t)) \/ ExpireLock
    PROVE  SpendingInv'
<1> USE SpendingAssumption
    DEF SpendingInv, TypeOK, Steps, limitVars, counterVars, payoutVars, history
<1>1. ASSUME NEW t \in Periods, NEW a \in Limits, SetLimit(t, a) PROVE SpendingInv'
  <2>1. /\ spent' \in [Kinds -> Nat]
        /\ spent["crash"] + spent["fault"] > 0
           => spent'["crash"] + spent'["fault"] > 0
    BY <1>1, SpendCounts DEF SetLimit, Kinds
  <2>2. TypeOK'
    BY <1>1, <2>1 DEF SetLimit, Completed
  <2> QED
    BY <1>1, <2>1, <2>2 DEF SetLimit, TtlNeedsCounter, TtlOfPeriod, NoImmortalCounter
<1>2. ASSUME NEW t \in Periods, RemoveLimit(t) \/ DeleteLimit(t) PROVE SpendingInv'
  <2>1. /\ spent' \in [Kinds -> Nat]
        /\ spent["crash"] + spent["fault"] > 0
           => spent'["crash"] + spent'["fault"] > 0
    BY <1>2, SpendCounts DEF RemoveLimit, DeleteLimit, Kinds
  <2>2. TypeOK'
    BY <1>2, <2>1 DEF RemoveLimit, DeleteLimit
  <2> QED
    BY <1>2, <2>1, <2>2
    DEF RemoveLimit, DeleteLimit, TtlNeedsCounter, TtlOfPeriod, NoImmortalCounter
<1>3. ASSUME NEW t \in Periods, ClearCounter(t) PROVE SpendingInv'
  <2>1. TypeOK'
    BY <1>3 DEF ClearCounter
  <2> QED
    BY <1>3, <2>1 DEF ClearCounter, TtlNeedsCounter, TtlOfPeriod, NoImmortalCounter
<1>4. ASSUME NEW t \in Periods, Reset(t) PROVE SpendingInv'
  <2>1. /\ spent' \in [Kinds -> Nat]
        /\ spent["crash"] + spent["fault"] > 0
           => spent'["crash"] + spent'["fault"] > 0
    BY <1>4, SpendCounts DEF Reset, Kinds
  <2>2. TypeOK'
    BY <1>4, <2>1 DEF Reset, Completed
  <2> QED
    BY <1>4, <2>1, <2>2 DEF Reset, TtlNeedsCounter, TtlOfPeriod, NoImmortalCounter
<1>5. CASE ExpireLock
  <2>1. /\ spent' \in [Kinds -> Nat]
        /\ spent["crash"] + spent["fault"] > 0
           => spent'["crash"] + spent'["fault"] > 0
    BY <1>5, SpendCounts DEF ExpireLock, Kinds
  <2> QED
    BY <1>5, <2>1 DEF ExpireLock, TtlNeedsCounter, TtlOfPeriod, NoImmortalCounter
<1> QED BY <1>1, <1>2, <1>3, <1>4, <1>5 DEF LimitStep

\* The counters and who looks after them, in every state.
THEOREM SpendingInvariant == SpendingSpec => []SpendingInv
<1>1. SpendingInv /\ [SpendingNext]_spendingVars => SpendingInv'
  <2> SUFFICES ASSUME SpendingInv, [SpendingNext]_spendingVars PROVE SpendingInv'
    OBVIOUS
  <2>1. CASE UNCHANGED spendingVars
    BY <2>1
    DEF spendingVars, limitVars, counterVars, payoutVars, history, SpendingInv, TypeOK,
        TtlNeedsCounter, TtlOfPeriod, NoImmortalCounter
  <2>2. ASSUME NEW p \in Payouts, PayoutStep(p) PROVE SpendingInv'
    BY <2>2, CheckStep, RecordStep DEF PayoutStep
  <2> QED BY <2>1, <2>2, TroubleStep, SurroundingsStep DEF SpendingNext
<1> QED BY InitSpending, <1>1, PTL DEF SpendingSpec

\* A counter whose recordSpend ran to its end has a TTL, whatever the races
\* between recordings, deletions and the end of the period.
THEOREM CountersExpire == SpendingSpec => []NoImmortalCounter
<1>1. SpendingInv => NoImmortalCounter
  BY DEF SpendingInv
<1> QED BY SpendingInvariant, <1>1, PTL

\* The payouts vetted against the limit of period t in force now: those whose
\* check found it and passed it, and those admitted since; and those of the
\* latter, completed or not, whose amount is still to be recorded.
Checked(t) ==
    {p \in Payouts : /\ pc[p] = "check" /\ limits[p][t] # Nil /\ t \notin left[p]
                     /\ p \notin unchecked[t]}
Vetted(t) == {p \in Payouts : pc[p] = "admitted" /\ p \notin unchecked[t]}
Moving(t) == {p \in Unrecorded(t) : pc[p] # "check" /\ p \notin unchecked[t]}
AtMostOneIn(S) == \A p, q \in S : p = q
Raised(t) == IF counter[t] = Nil THEN 0 ELSE counter[t]

\* Of the vetted payouts at most one is unrecorded, and the limit has room for
\* it besides what was counted; what was counted and recorded is in the counter.
LimitKept(t) ==
    /\ AtMostOneIn(Checked(t) \cup Moving(t))
    /\ \A p \in Checked(t) : Total(CountsIn(t)) + AmountOf[p] <= limits[p][t]
    /\ \A p \in Vetted(t) : Total(CountsIn(t)) + AmountOf[p] <= limit[t]
    /\ Total(CountsIn(t)) <= limit[t]
    /\ Total(CountsIn(t) \ Unrecorded(t)) <= Raised(t)
PeriodKept(t) ==
    /\ AtMostOneIn(Checked(t))
    /\ \A p \in Checked(t) : AmountOf[p] <= limits[p][t]
    /\ limit[t] # Nil => LimitKept(t)
Calm == spent["crash"] + spent["fault"] + spent["clear"] = 0
CapInv == Calm => clearing = {} /\ \A t \in Periods : PeriodKept(t)

LEMMA TotalNat == ASSUME NEW S \in SUBSET Payouts PROVE Total(S) \in Nat
  BY SpendingAssumption, SumNat DEF Total

LEMMA TotalEmpty == Total({}) = 0
  BY SumEmpty DEF Total

LEMMA TotalAdds ==
    ASSUME NEW S \in SUBSET Payouts, NEW p \in Payouts \ S
    PROVE  Total(S \cup {p}) = Total(S) + AmountOf[p]
<1>1. AmountOf \in [Payouts -> Int]
  BY SpendingAssumption
<1> QED
  BY <1>1, SpendingAssumption, SumAdd DEF Total

LEMMA CountedPayouts == \A t \in Periods : CountsIn(t) \in SUBSET Payouts
  BY DEF CountsIn, Completed

\* What counts is calm before it is after, and no crash, failure or deletion is
\* spent on the way.
LEMMA CalmBefore ==
    ASSUME TypeOK, NEW kind \in Kinds, Spend(kind), Calm'
    PROVE  Calm /\ kind \notin {"crash", "fault", "clear"}
<1>1. \A k \in Kinds : spent[k] \in Nat /\ spent'[k] \in Nat /\ spent'[k] >= spent[k]
  BY DEF Spend, TypeOK
<1>2. spent'[kind] > spent[kind]
  BY DEF Spend, TypeOK
<1>3. /\ \A k \in {"crash", "fault", "clear"} : spent[k] \in Nat /\ spent'[k] = 0
      /\ \A k \in {"crash", "fault", "clear"} : spent'[k] >= spent[k]
  <2>1. "crash" \in Kinds /\ "fault" \in Kinds /\ "clear" \in Kinds
    BY DEF Kinds
  <2> QED
    BY <1>1, <2>1 DEF Calm
<1>4. \A k \in {"crash", "fault", "clear"} : spent[k] = 0
  BY <1>3
<1> QED
  BY <1>2, <1>3, <1>4 DEF Calm

\* A step that vets and counts nothing new keeps a period's limit.
LEMMA PeriodSame ==
    ASSUME NEW t \in Periods, PeriodKept(t),
           limit'[t] \in {limit[t], Nil}, counter'[t] = counter[t],
           CountsIn(t)' = CountsIn(t), Checked(t)' \subseteq Checked(t),
           Vetted(t)' \subseteq Vetted(t), Moving(t)' \subseteq Moving(t),
           limit'[t] # Nil =>
              (CountsIn(t) \ Unrecorded(t))' = CountsIn(t) \ Unrecorded(t),
           \A p \in Checked(t)' : limits'[p][t] = limits[p][t]
    PROVE  PeriodKept(t)'
<1>1. Total(CountsIn(t))' = Total(CountsIn(t)) /\ Raised(t)' = Raised(t)
  BY DEF Total, Raised
<1>2. AtMostOneIn(Checked(t))' /\ \A p \in Checked(t)' : AmountOf[p] <= limits'[p][t]
  BY DEF PeriodKept, AtMostOneIn
<1>3. ASSUME limit'[t] # Nil PROVE LimitKept(t)'
  <2>1. limit'[t] = limit[t] /\ LimitKept(t)
    BY <1>3 DEF PeriodKept
  <2>2. Total(CountsIn(t) \ Unrecorded(t))' = Total(CountsIn(t) \ Unrecorded(t))
    BY <1>3 DEF Total
  <2>3. AtMostOneIn(Checked(t) \cup Moving(t))'
    BY <2>1 DEF LimitKept, AtMostOneIn
  <2> QED
    BY <1>1, <2>1, <2>2, <2>3 DEF LimitKept
<1> QED
  BY <1>2, <1>3 DEF PeriodKept

\* Amounts, limits and counters are numbers.
LEMMA SpendingNumbers ==
    ASSUME TypeOK, NEW p \in Payouts, NEW t \in Periods
    PROVE  /\ AmountOf[p] \in Nat
           /\ counter[t] # Nil => counter[t] \in Nat
           /\ limits[p][t] # Nil => limits[p][t] \in Nat
           /\ limit[t] # Nil => limit[t] \in Nat
<1>1. limits[p] \in [Periods -> Limits \cup {Nil}]
  BY DEF TypeOK
<1> QED
  BY <1>1, SpendingAssumption DEF TypeOK

\* Passing the check of a period: alone, the payout is vetted against everything
\* that was counted; next to another unrecorded one it is not vetted at all.
LEMMA PeriodPasses ==
    ASSUME TypeOK, NEW p \in Payouts, CheckPasses(p), \A t \in Periods : PeriodKept(t)
    PROVE  \A t \in Periods : PeriodKept(t)'
<1>1. PICK t \in left[p] :
         /\ counter[t] # Nil /\ ~Exceeds(p, t)
         /\ left' = [left EXCEPT ![p] = @ \ {t}]
         /\ unchecked' = IF Unrecorded(t) \subseteq {p} THEN unchecked
                         ELSE [unchecked EXCEPT ![t] = @ \cup {p}]
  BY DEF CheckPasses
<1>2. /\ pc[p] = "check" /\ t \in Periods
      /\ UNCHANGED <<limit, counter, pc, limits, before>>
      /\ left'[p] = left[p] \ {t} /\ \A q \in Payouts \ {p} : left'[q] = left[q]
      /\ \A u \in Periods \ {t} : unchecked'[u] = unchecked[u]
      /\ unchecked'[t] = IF Unrecorded(t) \subseteq {p} THEN unchecked[t]
                         ELSE unchecked[t] \cup {p}
  BY <1>1 DEF CheckPasses, limitVars, counterVars, TypeOK
<1>3. /\ p \notin Completed
      /\ \A u \in Periods : CountsIn(u)' = CountsIn(u)
      /\ \A u \in Periods : Unrecorded(u)' = Unrecorded(u)
      /\ \A u \in Periods : Vetted(u)' = Vetted(u) /\ Moving(u)' = Moving(u)
  <2>1. p \notin Completed /\ Completed' = Completed
    BY <1>2 DEF Completed
  <2>2. ASSUME NEW u \in Periods PROVE Unrecorded(u)' = Unrecorded(u)
    BY <1>2 DEF Unrecorded, Recording
  <2>3. ASSUME NEW u \in Periods
        PROVE  /\ CountsIn(u)' = CountsIn(u)
               /\ Vetted(u)' = Vetted(u) /\ Moving(u)' = Moving(u)
    <3>1. unchecked'[u] = unchecked[u] \/ unchecked'[u] = unchecked[u] \cup {p}
      BY <1>2
    <3> QED
      BY <1>2, <2>1, <2>2, <3>1 DEF CountsIn, Vetted, Moving
  <2> QED
    BY <2>1, <2>2, <2>3
<1>4. ASSUME NEW u \in Periods, u # t PROVE PeriodKept(u)'
  <2>1. Checked(u)' \subseteq Checked(u)
    BY <1>2, <1>4 DEF Checked
  <2> QED
    BY <1>2, <1>3, <1>4, <2>1, PeriodSame
<1>5. CASE ~(Unrecorded(t) \subseteq {p})
  <2>1. Checked(t)' \subseteq Checked(t)
    BY <1>2, <1>5 DEF Checked
  <2> QED
    BY <1>2, <1>3, <1>4, <2>1, PeriodSame
<1>6. CASE Unrecorded(t) \subseteq {p}
  <2>1. Checked(t)' \cup Moving(t)' \subseteq {p}
    BY <1>2, <1>3, <1>6 DEF Checked, Moving, Unrecorded
  <2>2. /\ AmountOf[p] \in Nat /\ counter[t] \in Nat
        /\ counter[t] + AmountOf[p] <= limits[p][t] \/ limits[p][t] = Nil
    BY <1>1, <1>2, SpendingNumbers DEF Exceeds
  <2>3. \A q \in Checked(t)' : q = p /\ limits'[q][t] = limits[p][t] /\ limits[p][t] \in Nat
    <3>1. \A q \in Checked(t)' : q = p /\ limits'[q][t] # Nil
      BY <2>1 DEF Checked
    <3> QED
      BY <1>2, <3>1, SpendingNumbers
  <2>4. AtMostOneIn(Checked(t))' /\ AtMostOneIn(Checked(t) \cup Moving(t))'
    BY <2>1 DEF AtMostOneIn
  <2>5. \A q \in Checked(t)' : AmountOf[q] <= limits'[q][t]
    BY <2>2, <2>3, SpendingAssumption
  <2>6. ASSUME limit'[t] # Nil PROVE LimitKept(t)'
    <3>1. LimitKept(t) /\ limit[t] # Nil
      BY <1>2, <2>6 DEF PeriodKept
    <3>2. CountsIn(t) \ Unrecorded(t) = CountsIn(t)
      BY <1>3, <1>6 DEF CountsIn
    <3>3. Total(CountsIn(t)) \in Nat /\ Total(CountsIn(t)) <= counter[t]
      BY <1>2, <2>2, <3>1, <3>2, CountedPayouts, TotalNat, SpendingAssumption
      DEF LimitKept, Raised
    <3>4. \A q \in Checked(t)' : Total(CountsIn(t)) + AmountOf[q] <= limits'[q][t]
      BY <2>2, <2>3, <3>3, SpendingAssumption
    <3> QED
      BY <1>2, <1>3, <2>4, <3>1, <3>4 DEF LimitKept, Raised, Total
  <2>7. PeriodKept(t)'
    BY <2>4, <2>5, <2>6 DEF PeriodKept
  <2> QED
    BY <1>4, <2>7
<1> QED
  BY <1>5, <1>6

\* Admission: whoever was vetted against the limit in force still is.
LEMMA PeriodAdmits ==
    ASSUME TypeOK, NEW p \in Payouts, Admit(p), NEW t \in Periods, PeriodKept(t)
    PROVE  PeriodKept(t)'
<1>1. /\ pc[p] = "check" /\ left[p] = {} /\ pc'[p] = "admitted"
      /\ \A q \in Payouts \ {p} : pc'[q] = pc[q] /\ limits'[q] = limits[q]
      /\ UNCHANGED <<limit, counter, left, before>>
      /\ unchecked'[t] = IF limits[p][t] # limit[t] THEN unchecked[t] \cup {p} ELSE unchecked[t]
  BY DEF Admit, Goto, limitVars, counterVars, TypeOK
<1>2. CountsIn(t)' = CountsIn(t) /\ Unrecorded(t)' = Unrecorded(t)
  BY <1>1 DEF CountsIn, Completed, Unrecorded, Recording
<1>3. /\ Checked(t)' \subseteq Checked(t) /\ p \notin Checked(t)'
      /\ \A q \in Checked(t)' : limits'[q][t] = limits[q][t]
  BY <1>1 DEF Checked
<1>4. CASE p \in unchecked'[t]
  <2>1. Vetted(t)' \subseteq Vetted(t) /\ Moving(t)' \subseteq Moving(t)
    <3>1. /\ p \notin Vetted(t)' /\ p \notin Moving(t)'
          /\ \A q \in Payouts \ {p} : q \in unchecked'[t] <=> q \in unchecked[t]
      BY <1>1, <1>4 DEF Vetted, Moving
    <3>2. \A q \in Vetted(t)' : q \in Vetted(t)
      BY <1>1, <3>1 DEF Vetted
    <3>3. \A q \in Moving(t)' : q \in Moving(t)
      BY <1>1, <1>2, <3>1 DEF Moving, Unrecorded
    <3> QED
      BY <3>2, <3>3
  <2> QED
    BY <1>1, <1>2, <1>3, <2>1, PeriodSame
<1>5. CASE p \notin unchecked'[t]
  <2>1. limits[p][t] = limit[t] /\ unchecked'[t] = unchecked[t] /\ p \notin unchecked[t]
    BY <1>1, <1>5
  <2>2. limit[t] # Nil => p \in Checked(t)
    BY <1>1, <2>1 DEF Checked
  <2>3. /\ \A q \in Vetted(t)' : q \in Vetted(t) \/ q = p
        /\ \A q \in Moving(t)' : q \in Moving(t) \/ q = p
    BY <1>1, <1>2, <2>1 DEF Vetted, Moving, Unrecorded
  <2>4. Total(CountsIn(t))' = Total(CountsIn(t))
    BY <1>2 DEF Total
  <2>5. ASSUME limit'[t] # Nil PROVE LimitKept(t)'
    <3>1. LimitKept(t) /\ p \in Checked(t)
      BY <1>1, <2>2, <2>5 DEF PeriodKept
    <3>2. AtMostOneIn(Checked(t) \cup Moving(t))'
      BY <1>3, <2>3, <3>1 DEF LimitKept, AtMostOneIn
    <3>3. Total(CountsIn(t) \ Unrecorded(t))' = Total(CountsIn(t) \ Unrecorded(t))
      BY <1>2 DEF Total
    <3> QED
      BY <1>1, <1>3, <2>1, <2>3, <2>4, <3>1, <3>2, <3>3 DEF LimitKept, Raised
  <2>6. AtMostOneIn(Checked(t))' /\ \A q \in Checked(t)' : AmountOf[q] <= limits'[q][t]
    BY <1>3 DEF PeriodKept, AtMostOneIn
  <2> QED
    BY <2>5, <2>6 DEF PeriodKept
<1> QED
  BY <1>4, <1>5

\* Completion: a vetted payout counts, and the limit had room for it.
LEMMA PeriodCompletes ==
    ASSUME TypeOK, NEW p \in Payouts, Complete(p), NEW t \in Periods, PeriodKept(t)
    PROVE  PeriodKept(t)'
<1>1. /\ pc[p] = "admitted" /\ pc'[p] = "record"
      /\ \A q \in Payouts \ {p} : pc'[q] = pc[q]
      /\ UNCHANGED <<limit, counter, limits, left, before, unchecked>>
  BY DEF Complete, Goto, limitVars, counterVars, history, TypeOK
<1>2. /\ Unrecorded(t)' = Unrecorded(t) /\ Completed' = Completed \cup {p}
      /\ p \in Unrecorded(t) /\ p \notin Completed
  BY <1>1 DEF Unrecorded, Recording, Completed
<1>3. /\ Checked(t)' = Checked(t) /\ Vetted(t)' \subseteq Vetted(t)
      /\ Moving(t)' = Moving(t)
      /\ (CountsIn(t) \ Unrecorded(t))' = CountsIn(t) \ Unrecorded(t)
  <2>1. Checked(t)' = Checked(t) /\ Vetted(t)' \subseteq Vetted(t)
    BY <1>1 DEF Checked, Vetted
  <2>2. Moving(t)' = Moving(t)
    <3>1. \A q \in Payouts : pc'[q] # "check" <=> pc[q] # "check"
      BY <1>1
    <3> QED
      BY <1>1, <1>2, <3>1 DEF Moving, Unrecorded
  <2>3. (CountsIn(t) \ Unrecorded(t))' = CountsIn(t) \ Unrecorded(t)
    BY <1>1, <1>2 DEF CountsIn
  <2> QED
    BY <2>1, <2>2, <2>3
<1>4. CASE p \in before[t] \cup unchecked[t]
  <2>1. CountsIn(t)' = CountsIn(t)
    BY <1>1, <1>2, <1>4 DEF CountsIn
  <2> QED
    BY <1>1, <1>3, <2>1, PeriodSame
<1>5. CASE p \notin before[t] \cup unchecked[t]
  <2>1. CountsIn(t)' = CountsIn(t) \cup {p} /\ p \in Payouts \ CountsIn(t)
    BY <1>1, <1>2, <1>5 DEF CountsIn
  <2>2. Total(CountsIn(t))' = Total(CountsIn(t)) + AmountOf[p]
    BY <2>1, CountedPayouts, TotalAdds DEF Total
  <2>3. p \in Vetted(t) /\ p \in Moving(t) /\ p \notin Vetted(t)'
    BY <1>1, <1>2, <1>5 DEF Vetted, Moving
  <2>4. ASSUME limit'[t] # Nil PROVE LimitKept(t)'
    <3>1. LimitKept(t)
      BY <1>1, <2>4 DEF PeriodKept
    <3>2. Checked(t)' = {} /\ Vetted(t)' = {}
      <4>1. \A q \in Checked(t) \cup Vetted(t) : q = p
        BY <2>3, <3>1 DEF LimitKept, AtMostOneIn, Vetted, Moving, Unrecorded
      <4>2. p \notin Checked(t)
        BY <1>1 DEF Checked
      <4> QED
        BY <1>3, <2>3, <4>1, <4>2
    <3>3. AtMostOneIn(Checked(t) \cup Moving(t))'
      BY <1>3, <3>1 DEF LimitKept, AtMostOneIn
    <3>4. Total(CountsIn(t))' <= limit'[t]
      BY <1>1, <2>2, <2>3, <3>1 DEF LimitKept
    <3>5. Total(CountsIn(t) \ Unrecorded(t))' <= Raised(t)'
      BY <1>1, <1>3, <3>1 DEF LimitKept, Raised, Total
    <3> QED
      BY <3>2, <3>3, <3>4, <3>5 DEF LimitKept
  <2>5. AtMostOneIn(Checked(t))' /\ \A q \in Checked(t)' : AmountOf[q] <= limits'[q][t]
    BY <1>1, <1>3 DEF PeriodKept, AtMostOneIn
  <2> QED
    BY <2>4, <2>5 DEF PeriodKept
<1> QED
  BY <1>4, <1>5

\* Recording adds the amount of what counts to the counter.
LEMMA PeriodRecords ==
    ASSUME TypeOK, NEW p \in Payouts, Increment(p), NEW u \in Periods, PeriodKept(u)
    PROVE  PeriodKept(u)'
<1>1. PICK t \in left[p] :
         /\ counter' = [counter EXCEPT ![t] = AmountOf[p] + (IF @ = Nil THEN 0 ELSE @)]
         /\ left' = [left EXCEPT ![p] = @ \ {t}]
  BY DEF Increment
<1>2. /\ pc[p] = "incr" /\ pc'[p] = "ttl" /\ t \in Periods
      /\ \A q \in Payouts \ {p} : pc'[q] = pc[q] /\ left'[q] = left[q]
      /\ left'[p] = left[p] \ {t}
      /\ UNCHANGED <<limit, limits, before, unchecked>>
  BY <1>1 DEF Increment, Goto, limitVars, history, TypeOK
<1>3. /\ CountsIn(u)' = CountsIn(u) /\ Checked(u)' = Checked(u) /\ Vetted(u)' = Vetted(u)
      /\ Unrecorded(u)' = Unrecorded(u) \ (IF u = t THEN {p} ELSE {})
      /\ Moving(u)' \subseteq Moving(u)
  BY <1>2 DEF CountsIn, Completed, Checked, Vetted, Moving, Unrecorded, Recording
<1>4. CASE u # t
  <2>1. counter'[u] = counter[u]
    BY <1>1, <1>4 DEF TypeOK
  <2> QED
    BY <1>2, <1>3, <1>4, <2>1, PeriodSame
<1>5. CASE u = t
  <2>1. Raised(u)' = Raised(u) + AmountOf[p] /\ Raised(u) \in Nat /\ AmountOf[p] \in Nat
    <3>1. counter'[u] = AmountOf[p] + Raised(u) /\ AmountOf[p] \in Nat /\ Raised(u) \in Nat
      BY <1>1, <1>5, SpendingNumbers DEF Raised, TypeOK
    <3> QED
      BY <3>1, SpendingAssumption DEF Raised
  <2>2. \/ (CountsIn(u) \ Unrecorded(u))' = CountsIn(u) \ Unrecorded(u)
        \/ (CountsIn(u) \ Unrecorded(u))' = (CountsIn(u) \ Unrecorded(u)) \cup {p}
    BY <1>3
  <2>3. p \in Unrecorded(u)
    BY <1>2, <1>5 DEF Unrecorded, Recording
  <2>4. PICK S \in SUBSET Payouts : S = CountsIn(u) \ Unrecorded(u)
    BY CountedPayouts
  <2>5. p \notin S
    BY <2>3, <2>4
  <2>6. Total(S) \in Nat /\ Total(S \cup {p}) = Total(S) + AmountOf[p]
    BY <2>4, <2>5, TotalNat, TotalAdds
  <2>7. Total(S) <= Raised(u) => Total(CountsIn(u) \ Unrecorded(u))' <= Raised(u)'
    BY <2>1, <2>2, <2>4, <2>6 DEF Total
  <2>8. ASSUME limit'[u] # Nil PROVE LimitKept(u)'
    <3>1. LimitKept(u)
      BY <1>2, <2>8 DEF PeriodKept
    <3>2. AtMostOneIn(Checked(u) \cup Moving(u))'
      BY <1>3, <3>1 DEF LimitKept, AtMostOneIn
    <3> QED
      BY <1>2, <1>3, <2>4, <2>7, <3>1, <3>2 DEF LimitKept, Total
  <2> QED
    BY <1>2, <1>3, <2>8 DEF PeriodKept, AtMostOneIn
<1> QED
  BY <1>4, <1>5

\* A payout's other steps vet nothing, count nothing and record nothing.
LEMMA PeriodIdle ==
    ASSUME TypeOK, NEW p \in Payouts, NEW t \in Periods, PeriodKept(t),
           \/ Acquire(p) \/ FindLimits(p) \/ CheckFails(p) \/ Fail(p)
           \/ Record(p) \/ ReadTtl(p) \/ SetTtl(p) \/ Recorded(p)
    PROVE  PeriodKept(t)'
<1>1. /\ UNCHANGED <<limit, counter, before, unchecked>>
      /\ \A q \in Payouts \ {p} : /\ pc'[q] = pc[q] /\ left'[q] = left[q]
                                  /\ limits'[q] = limits[q]
  BY DEF Acquire, FindLimits, CheckFails, Fail, Record, ReadTtl, SetTtl, Recorded, Goto,
         limitVars, counterVars, history, TypeOK
<1>2. CASE Acquire(p) \/ FindLimits(p) \/ CheckFails(p) \/ Fail(p)
  <2>1. /\ pc[p] \in {"start", "find", "check", "admitted"}
        /\ pc'[p] \in {"find", "check", "refused"}
        /\ pc'[p] = "check" => \A u \in Periods : limits'[p][u] # Nil => u \in left'[p]
    BY <1>2 DEF Acquire, FindLimits, CheckFails, Fail, Goto, Limited, TypeOK
  <2>2. p \notin Completed /\ Completed' = Completed
    BY <1>1, <2>1 DEF Completed
  <2>3. CountsIn(t)' = CountsIn(t) /\ p \notin CountsIn(t)
    BY <1>1, <2>2 DEF CountsIn
  <2>4. p \notin Checked(t)' /\ p \notin Vetted(t)' /\ p \notin Moving(t)'
    BY <2>1 DEF Checked, Vetted, Moving, Unrecorded, Recording
  <2>5. \A q \in Payouts \ {p} : q \in Unrecorded(t)' <=> q \in Unrecorded(t)
    BY <1>1 DEF Unrecorded
  <2>6. /\ \A q \in Checked(t)' : q \in Checked(t) /\ q # p
        /\ \A q \in Vetted(t)' : q \in Vetted(t)
    BY <1>1, <2>4 DEF Checked, Vetted
  <2>7. \A q \in Moving(t)' : q \in Moving(t)
    BY <1>1, <2>4, <2>5 DEF Moving, Unrecorded
  <2>8. (CountsIn(t) \ Unrecorded(t))' = CountsIn(t) \ Unrecorded(t)
    BY <2>3, <2>5 DEF CountsIn, Completed
  <2> QED
    BY <1>1, <2>3, <2>6, <2>7, <2>8, PeriodSame DEF Checked
<1>3. CASE Record(p) \/ ReadTtl(p) \/ SetTtl(p) \/ Recorded(p)
  <2>1. /\ pc[p] \in {"record", "incr", "ttl", "expire"}
        /\ pc'[p] \in {"incr", "ttl", "expire", "done"}
        /\ limits' = limits
    BY <1>3 DEF Record, ReadTtl, SetTtl, Recorded, Goto, TypeOK
  <2>2. CountsIn(t)' = CountsIn(t)
    BY <1>1, <2>1 DEF CountsIn, Completed
  <2>3. /\ p \in Unrecorded(t)' => p \in Unrecorded(t)
        /\ limit[t] # Nil /\ p \in Unrecorded(t) => p \in Unrecorded(t)'
    BY <1>3, <2>1 DEF Record, ReadTtl, SetTtl, Recorded, Goto, TypeOK, Unrecorded, Recording,
       Limited
  <2>4. \A q \in Payouts \ {p} : q \in Unrecorded(t)' <=> q \in Unrecorded(t)
    BY <1>1 DEF Unrecorded
  <2>5. Checked(t)' \subseteq Checked(t) /\ Vetted(t)' \subseteq Vetted(t)
    BY <1>1, <2>1 DEF Checked, Vetted
  <2>6. Moving(t)' \subseteq Moving(t)
    <3>1. \A q \in Moving(t)' : q \in Unrecorded(t) /\ pc[q] # "check" /\ q \notin unchecked[t]
      BY <1>1, <2>1, <2>3, <2>4 DEF Moving, Unrecorded
    <3> QED
      BY <3>1 DEF Moving
  <2>7. limit[t] # Nil =>
           (CountsIn(t) \ Unrecorded(t))' = CountsIn(t) \ Unrecorded(t)
    BY <2>2, <2>3, <2>4 DEF CountsIn, Completed
  <2> QED
    BY <1>1, <2>1, <2>2, <2>5, <2>6, <2>7, PeriodSame
<1> QED
  BY <1>2, <1>3

\* A new limit counts from now on: whatever was admitted before is not vetted
\* against it, and only payouts still at their check are left.
LEMMA PeriodSet ==
    ASSUME TypeOK, NEW u \in Periods, NEW a \in Limits, SetLimit(u, a),
           NEW t \in Periods, PeriodKept(t)
    PROVE  PeriodKept(t)'
<1>1. UNCHANGED <<counter, pc, limits, left, before>>
  BY DEF SetLimit, counterVars, payoutVars
<1>2. CASE t # u \/ limit[t] = a
  <2>1. limit'[t] = limit[t] /\ unchecked'[t] = unchecked[t]
    BY <1>2 DEF SetLimit, TypeOK
  <2>2. /\ CountsIn(t)' = CountsIn(t) /\ Checked(t)' = Checked(t) /\ Vetted(t)' = Vetted(t)
        /\ Unrecorded(t)' = Unrecorded(t)
    BY <1>1, <2>1 DEF CountsIn, Completed, Checked, Vetted, Unrecorded, Recording
  <2>3. Moving(t)' = Moving(t)
    BY <1>1, <2>1, <2>2 DEF Moving
  <2> QED
    BY <1>1, <2>1, <2>2, <2>3, PeriodSame
<1>3. CASE t = u /\ limit[t] # a
  <2>1. /\ limit'[t] = a /\ a \in Nat
        /\ unchecked'[t] = unchecked[t] \cup Completed \cup {p \in Payouts : pc[p] = "admitted"}
    BY <1>3, SpendingAssumption DEF SetLimit, TypeOK
  <2>2. CountsIn(t)' = {} /\ Vetted(t)' = {} /\ Checked(t)' \subseteq Checked(t)
    BY <1>1, <2>1 DEF CountsIn, Completed, Vetted, Checked
  <2>3. Moving(t)' = {}
    <3>1. \A q \in Unrecorded(t)' : pc'[q] # "check" => q \in unchecked'[t]
      BY <1>1, <2>1 DEF Unrecorded, Recording, Completed
    <3> QED
      BY <3>1 DEF Moving
  <2>4. AtMostOneIn(Checked(t))' /\ AtMostOneIn(Checked(t) \cup Moving(t))'
    BY <2>2, <2>3 DEF PeriodKept, AtMostOneIn
  <2>5. \A q \in Checked(t)' : AmountOf[q] <= limits'[q][t]
    BY <1>1, <2>2 DEF PeriodKept
  <2>6. Total(CountsIn(t))' = 0 /\ Total(CountsIn(t) \ Unrecorded(t))' = 0
    BY <2>2, TotalEmpty DEF Total
  <2>7. \A q \in Checked(t)' : q \in Payouts /\ AmountOf[q] \in Nat
    BY SpendingAssumption DEF Checked
  <2>8. 0 <= Raised(t)'
    BY <1>1, SpendingAssumption DEF Raised, TypeOK
  <2>9. LimitKept(t)'
    BY <2>1, <2>2, <2>4, <2>5, <2>6, <2>7, <2>8 DEF LimitKept
  <2> QED
    BY <2>4, <2>5, <2>9 DEF PeriodKept
<1> QED
  BY <1>2, <1>3

LEMMA PeriodRemoved ==
    ASSUME TypeOK, NEW u \in Periods, RemoveLimit(u), NEW t \in Periods, PeriodKept(t)
    PROVE  PeriodKept(t)'
<1>1. /\ UNCHANGED <<counter, pc, limits, left, before, unchecked>>
      /\ limit'[t] \in {limit[t], Nil}
  BY DEF RemoveLimit, counterVars, payoutVars, history, TypeOK
<1>2. /\ CountsIn(t)' = CountsIn(t) /\ Checked(t)' = Checked(t) /\ Vetted(t)' = Vetted(t)
      /\ Unrecorded(t)' = Unrecorded(t)
  BY <1>1 DEF CountsIn, Completed, Checked, Vetted, Unrecorded, Recording
<1>3. Moving(t)' = Moving(t)
  BY <1>1, <1>2 DEF Moving
<1> QED
  BY <1>1, <1>2, <1>3, PeriodSame

\* With the period all it counted ends; the counter may outlive it.
LEMMA PeriodEnds ==
    ASSUME TypeOK, NEW u \in Periods, Reset(u), NEW t \in Periods, PeriodKept(t)
    PROVE  PeriodKept(t)'
<1>1. UNCHANGED <<limit, pc, limits, left, unchecked>>
  BY DEF Reset, limitVars, payoutVars
<1>2. Unrecorded(t)' = Unrecorded(t) /\ Checked(t)' = Checked(t) /\ Vetted(t)' = Vetted(t)
  BY <1>1 DEF Unrecorded, Recording, Checked, Vetted
<1>3. Moving(t)' = Moving(t)
  BY <1>1, <1>2 DEF Moving
<1>4. CASE t # u
  <2>1. counter'[t] = counter[t] /\ before'[t] = before[t]
    BY <1>4 DEF Reset, TypeOK
  <2>2. CountsIn(t)' = CountsIn(t)
    BY <1>1, <2>1 DEF CountsIn, Completed
  <2> QED
    BY <1>1, <1>2, <1>3, <2>1, <2>2, PeriodSame
<1>5. CASE t = u
  <2>1. CountsIn(t)' = {}
    BY <1>1, <1>5 DEF Reset, CountsIn, Completed, TypeOK
  <2>2. Total(CountsIn(t))' = 0 /\ Total(CountsIn(t) \ Unrecorded(t))' = 0
    BY <2>1, TotalEmpty DEF Total
  <2>3. 0 <= Raised(t)'
    BY <1>5, SpendingAssumption DEF Reset, Raised, TypeOK
  <2>4. \A q \in Checked(t) : /\ AmountOf[q] \in Nat /\ limits[q][t] \in Nat
                              /\ AmountOf[q] <= limits[q][t]
    BY SpendingNumbers DEF Checked, PeriodKept
  <2>5. ASSUME limit[t] # Nil PROVE LimitKept(t)'
    <3>1. LimitKept(t) /\ limit[t] \in Nat /\ Total(CountsIn(t)) \in Nat
      BY <2>5, SpendingAssumption, CountedPayouts, TotalNat DEF PeriodKept, TypeOK
    <3>2. \A q \in Vetted(t) : AmountOf[q] \in Nat /\ AmountOf[q] <= limit[t]
      <4>1. \A q \in Vetted(t) : AmountOf[q] \in Nat
        BY SpendingAssumption DEF Vetted
      <4> QED
        BY <3>1, <4>1 DEF LimitKept
    <3>3. AtMostOneIn(Checked(t) \cup Moving(t))'
      BY <1>2, <1>3, <3>1 DEF LimitKept, AtMostOneIn
    <3>4. \A q \in Checked(t)' : Total(CountsIn(t))' + AmountOf[q] <= limits'[q][t]
      BY <1>1, <1>2, <2>2, <2>4
    <3>5. \A q \in Vetted(t)' : Total(CountsIn(t))' + AmountOf[q] <= limit'[t]
      BY <1>1, <1>2, <2>2, <3>2
    <3>6. Total(CountsIn(t))' <= limit'[t]
      BY <1>1, <2>2, <3>1
    <3> QED
      BY <2>2, <2>3, <3>3, <3>4, <3>5, <3>6 DEF LimitKept
  <2> QED
    BY <1>1, <1>2, <2>5 DEF PeriodKept, AtMostOneIn
<1> QED
  BY <1>4, <1>5

\* What nobody's limits depend on.
LEMMA PeriodUntouched ==
    ASSUME NEW t \in Periods, PeriodKept(t),
           UNCHANGED <<limit, counter, pc, limits, left, before, unchecked>>
    PROVE  PeriodKept(t)'
  BY DEF PeriodKept, LimitKept, AtMostOneIn, Checked, Moving, Vetted, CountsIn, Completed,
         Unrecorded, Recording, Raised, Total

LEMMA InitCap == SpendingInit => CapInv
<1> SUFFICES ASSUME SpendingInit PROVE clearing = {} /\ \A t \in Periods : PeriodKept(t)
  BY DEF CapInv
<1>1. clearing = {} /\ \A t \in Periods : Checked(t) = {} /\ limit[t] = Nil
  BY DEF SpendingInit, NoLimits, Checked
<1> QED
  BY <1>1 DEF PeriodKept, AtMostOneIn

LEMMA CapStep == SpendingInv /\ CapInv /\ [SpendingNext]_spendingVars => CapInv'
<1> SUFFICES ASSUME SpendingInv, CapInv, [SpendingNext]_spendingVars, Calm'
             PROVE  clearing' = {} /\ \A t \in Periods : PeriodKept(t)'
  BY DEF CapInv
<1>1. TypeOK
  BY DEF SpendingInv
<1>2. {"crash", "fault", "clear", "set", "remove", "reset", "expire"} \subseteq Kinds
  BY DEF Kinds
<1>3. /\ \A p \in Payouts : ~RecordLost(p) /\ ~Crash(p)
      /\ \A t \in Periods : ~DeleteLimit(t)
  BY <1>1, <1>2, CalmBefore DEF RecordLost, Crash, DeleteLimit
<1>4. ASSUME NEW p \in Payouts, PayoutStep(p)
      PROVE  clearing' = {} /\ \A t \in Periods : PeriodKept(t)'
  <2>1. UNCHANGED <<spent, clearing>>
    BY <1>4 DEF PayoutStep, Acquire, FindLimits, CheckPasses, CheckFails, Admit, Complete, Fail,
       Record, Increment, ReadTtl, SetTtl, Recorded, limitVars
  <2>2. clearing = {} /\ \A t \in Periods : PeriodKept(t)
    BY <2>1 DEF CapInv, Calm
  <2>3. CASE CheckPasses(p)
    BY <1>1, <2>1, <2>2, <2>3, PeriodPasses
  <2>4. CASE Admit(p) \/ Complete(p) \/ Increment(p)
    BY <1>1, <2>1, <2>2, <2>4, PeriodAdmits, PeriodCompletes, PeriodRecords
  <2>5. CASE ~(CheckPasses(p) \/ Admit(p) \/ Complete(p) \/ Increment(p))
    BY <1>1, <1>4, <2>1, <2>2, <2>5, PeriodIdle DEF PayoutStep
  <2> QED
    BY <2>3, <2>4, <2>5
<1>5. ASSUME NEW u \in Periods, NEW a \in Limits, SetLimit(u, a)
      PROVE  clearing' = {} /\ \A t \in Periods : PeriodKept(t)'
  <2>1. Calm /\ clearing' = clearing
    BY <1>1, <1>2, <1>5, CalmBefore DEF SetLimit
  <2> QED
    BY <1>1, <1>5, <2>1, PeriodSet DEF CapInv
<1>6. ASSUME NEW u \in Periods, RemoveLimit(u) \/ Reset(u)
      PROVE  clearing' = {} /\ \A t \in Periods : PeriodKept(t)'
  <2>1. Calm /\ clearing' = clearing
    BY <1>1, <1>2, <1>6, CalmBefore DEF RemoveLimit, Reset, limitVars
  <2> QED
    BY <1>1, <1>6, <2>1, PeriodRemoved, PeriodEnds DEF CapInv
<1>7. \A u \in Periods : ~ClearCounter(u)
  BY DEF ClearCounter, CapInv, Calm
<1>8. ASSUME ExpireLock \/ UNCHANGED spendingVars
      PROVE  clearing' = {} /\ \A t \in Periods : PeriodKept(t)'
  <2>1. /\ UNCHANGED <<limit, counter, pc, limits, left, before, unchecked, clearing>>
        /\ Calm
    BY <1>1, <1>2, <1>8, CalmBefore DEF ExpireLock, Calm, spendingVars, limitVars, counterVars,
       payoutVars, history
  <2> QED
    BY <2>1, PeriodUntouched DEF CapInv
<1> QED
  BY <1>3, <1>4, <1>5, <1>6, <1>7, <1>8 DEF SpendingNext, LimitStep

\* "No more than $500 per day": without failures, and besides the payouts that
\* overtook one still to be recorded or were admitted before the limit was set,
\* what completes within a period never exceeds the limit, even when the lock
\* expires between a check and its recording.
THEOREM LimitsEnforced == SpendingSpec => []LimitEnforced
<1>1. CapInv => LimitEnforced
  BY DEF CapInv, Calm, PeriodKept, LimitKept, LimitEnforced, Limited
<1> QED BY SpendingInvariant, InitCap, CapStep, <1>1, PTL DEF SpendingSpec
=============================================================================
