------------------------------ MODULE Wallets -------------------------------
(***************************************************************************)
(* payout.controller.js: the payout profiles and their wallets, which the  *)
(* handlers read, change in memory and save without a version check.       *)
(***************************************************************************)
EXTENDS Integers, FiniteSets

CONSTANTS
    WalletCalls,    \* requests
    Customers,      \* values of userId
    Coins,          \* currencies of a wallet
    Sums,           \* amounts of a request
    PrimarySums,    \* initial balances; the code's default 0 is one
    WalletCap,      \* bound: no wallet is credited beyond it
    NoProfile

\* The PayoutUser documents.
Profiles == [balance : PrimarySums, wallet : [Coins -> Int],
             by : WalletCalls, details : WalletCalls]

ASSUME WalletsAssumption ==
    /\ Sums \subseteq Nat \ {0} /\ PrimarySums \subseteq Nat /\ WalletCap \in Nat
    /\ NoProfile \notin Profiles

VARIABLES
    profile,    \* the PayoutUser document of each customer; by and details
                \* are the requests that made it and last set its fields
    wcall,      \* of each request: its step, customer, currency, change, copy
    moved,      \* of each wallet: what the answered requests add up to (history)
    unclear     \* wallets two requests overlapped on (history)

walletVars == <<profile, wcall, moved, unclear>>

NoCall(step) ==
    [at |-> step, who |-> NoProfile, coin |-> NoProfile, sum |-> 0, copy |-> NoProfile]
NoFunds == [c \in Coins |-> 0]

WalletsType ==
    /\ profile \in [Customers -> Profiles \cup {NoProfile}]
    /\ \A r \in WalletCalls :
          /\ wcall[r].at \in {"idle", "create", "credit", "debit", "over"}
          /\ wcall[r].who \in Customers \cup {NoProfile}
          /\ wcall[r].coin \in Coins \cup {NoProfile} /\ wcall[r].sum \in Nat
    /\ moved \in [Customers \X Coins -> Int]
    /\ unclear \subseteq Customers \X Coins

WalletsInit ==
    /\ profile = [u \in Customers |-> NoProfile]
    /\ wcall = [r \in WalletCalls |-> NoCall("idle")]
    /\ moved = [x \in Customers \X Coins |-> 0]
    /\ unclear = {}

Document(b, w, r, d) == [balance |-> b, wallet |-> w, by |-> r, details |-> d]
Exists(u) == profile[u] # NoProfile
Waiting(r) == wcall[r].at = "idle"
EndCall(r) == wcall' = [wcall EXCEPT ![r] = NoCall("over")]
Suspend(r, step, u, c, n) ==
    wcall' = [wcall EXCEPT ![r] = [at |-> step, who |-> u, coin |-> c, sum |-> n,
                                   copy |-> profile[u]]]

-----------------------------------------------------------------------------
(* Profiles *)

FindProfile(r, u, n) ==
    /\ IF Exists(u) THEN EndCall(r) ELSE Suspend(r, "create", u, NoProfile, n)
    /\ UNCHANGED <<profile, moved, unclear>>

\* The unique userId refuses the second of two; a deleted customer's wallet
\* is forgotten, and a new profile starts with an empty one.
Vacant(u) == ~Exists(u)

CreateProfile(r) ==
    LET k == wcall[r] IN
    /\ k.at = "create"
    /\ profile' = IF Vacant(k.who)
                  THEN [profile EXCEPT ![k.who] = Document(k.sum, NoFunds, r, r)]
                  ELSE profile
    /\ EndCall(r)
    /\ UNCHANGED <<moved, unclear>>

\* Currency, country, e-mail address and phone number, set at once.
UpdateProfile(r, u) ==
    /\ profile' = IF Exists(u)
                  THEN [profile EXCEPT ![u] = Document(@.balance, @.wallet, @.by, r)]
                  ELSE profile
    /\ EndCall(r)
    /\ UNCHANGED <<moved, unclear>>

DeleteProfile(r, u) ==
    /\ profile' = [profile EXCEPT ![u] = NoProfile]
    /\ moved' = [x \in Customers \X Coins |-> IF x[1] = u THEN 0 ELSE moved[x]]
    /\ EndCall(r)
    /\ UNCHANGED unclear

-----------------------------------------------------------------------------
(* Wallets *)

FindToCredit(r, u, c, n) ==
    /\ IF Exists(u) /\ profile[u].wallet[c] + n <= WalletCap
       THEN Suspend(r, "credit", u, c, n) ELSE EndCall(r)
    /\ UNCHANGED <<profile, moved, unclear>>

Affordable(funds, n) == funds >= n

FindToDebit(r, u, c, n) ==
    /\ IF Exists(u) /\ Affordable(profile[u].wallet[c], n)
       THEN Suspend(r, "debit", u, c, n) ELSE EndCall(r)
    /\ UNCHANGED <<profile, moved, unclear>>

\* save() sets the one wallet that was changed, to what it was when read and
\* the change; it does not look whether another request changed it since, and
\* matches nothing when the profile the copy was read from is gone.
NewFunds(k) == k.copy.wallet[k.coin] + (IF k.at = "credit" THEN k.sum ELSE 0 - k.sum)

SavedWallet_All(w, k) == [k.copy.wallet EXCEPT ![k.coin] = NewFunds(k)]
SavedWallet(w, k) == [w EXCEPT ![k.coin] = NewFunds(k)]

SaveWallet(r) ==
    LET k == wcall[r]
        x == <<k.who, k.coin>>
        same == Exists(k.who) /\ profile[k.who].by = k.copy.by
        fresh == same /\ profile[k.who].wallet[k.coin] = k.copy.wallet[k.coin] IN
    /\ k.at \in {"credit", "debit"}
    /\ profile' = IF same
                  THEN [profile EXCEPT ![k.who] =
                           Document(@.balance, SavedWallet(@.wallet, k), @.by, @.details)]
                  ELSE profile
    /\ moved' = IF same THEN [moved EXCEPT ![x] = @ + NewFunds(k) - k.copy.wallet[k.coin]]
                        ELSE moved
    /\ unclear' = IF same /\ ~fresh THEN unclear \cup {x} ELSE unclear
    /\ EndCall(r)

WalletRequest(r) ==
    \E u \in Customers :
        \/ \E n \in PrimarySums : FindProfile(r, u, n)
        \/ UpdateProfile(r, u) \/ DeleteProfile(r, u)
        \/ \E c \in Coins, n \in Sums : FindToCredit(r, u, c, n) \/ FindToDebit(r, u, c, n)

WalletsNext ==
    \E r \in WalletCalls :
        \/ Waiting(r) /\ WalletRequest(r)
        \/ CreateProfile(r) \/ SaveWallet(r)

-----------------------------------------------------------------------------
(* Properties *)

(* However requests overlap, no wallet falls below zero: each save writes  *)
(* what its own read allowed (payout.controller.js:263-275).               *)
WalletNeverNegative ==
    \A u \in Customers : Exists(u) => \A c \in Coins : profile[u].wallet[c] >= 0

(* A wallet holds what its answered credits and debits add up to, unless   *)
(* two of that very wallet overlapped: requests on the customer's other    *)
(* wallets, or on a profile deleted and made anew meanwhile, lose nothing  *)
(* (payout.controller.js:217-287).                                         *)
WalletAddsUp ==
    \A u \in Customers, c \in Coins :
        Exists(u) /\ <<u, c>> \notin unclear => profile[u].wallet[c] = moved[<<u, c>>]

\* A wallet holds what was put in and not taken out, and never less than nothing.
WalletsSound == WalletsType /\ WalletNeverNegative /\ WalletAddsUp
=============================================================================
