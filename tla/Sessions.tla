------------------------------ MODULE Sessions ------------------------------
(***************************************************************************)
(* auth.service.js, the middleware in front of it and the tokens it hands  *)
(* out, for one account: its document in MongoDB and its keys in Redis,    *)
(* used by concurrent calls.  Every await is a step of its own.  A call's  *)
(* name also stands for what the call creates: the refresh token of a      *)
(* login, the verification token of a registration, the OTP, the password  *)
(* of a change.  A permit carries the OTP that was verified for it.        *)
(***************************************************************************)
EXTENDS Naturals

CONSTANTS
    Calls,      \* the calls, each an operation on the account
    Before,     \* stands for the calls that made what is there initially
    Emails,     \* the addresses the account has in turn
    Nil,
    Admin,      \* the account's role is admin
    Budget      \* bound on each kind of event of the surroundings

\* stop: a store call rejects or the process dies, and the call ends where it
\* is.   mail: an e-mail is not sent.   expire: a key reaches its TTL.
Kinds == {"stop", "mail", "expire"}

Ids == Calls \cup {Before}
Documents == [email : Emails, verified : BOOLEAN, password : Ids]

\* late: what was stored was already out of date when it was stored (history).
Tokens == [by : Ids, password : Ids, late : BOOLEAN]
Profiles == [email : Emails, verified : BOOLEAN, late : BOOLEAN]

\* otp_verified:<email> holds "true"; the OTP it was stored for, and whether
\* another verification of that OTP had stored one before (history).
Permits == [otp : Ids, again : BOOLEAN]

ASSUME SessionsAssumption ==
    /\ Before \notin Calls
    /\ Nil \notin Ids \cup Emails \cup Documents \cup Tokens \cup Profiles \cup Permits
    /\ Admin \in BOOLEAN
    /\ Budget \in [Kinds -> Nat]

VARIABLES
    user,        \* the document
    session,     \* refresh_token:<id>, with the password it was opened with
    verifier,    \* verify_token:<id>
    cache,       \* user:<id>
    otp,         \* otp:<email>
    permit,      \* otp_verified:<email>
    pc, doc, email, key,  \* of each call: its next step, the document it read,
                          \* the address and the key value it works with
    granted, changed, cut,  \* history: OTPs a permit was stored for, a password
                          \* was saved with, and whose change ended between
                          \* the save and the DEL of the permit
    spent

stores == <<user, session, verifier, cache, otp, permit>>
locals == <<doc, email, key>>
history == <<granted, changed, cut>>
vars == <<stores, pc, locals, history, spent>>

Steps == {"create", "storeVerifier", "readUnverified", "saveVerified",
          "dropVerifier", "storeSession", "fill", "getCached", "readUser",
          "dropCache", "storeOtp", "mailOtp", "takeBackOtp", "getOtp",
          "dropOtp", "storePermit", "readForChange", "savePassword",
          "dropPermit", "dropCached", "dropSession", "write", "dropProfile"}

TypeOK ==
    /\ user \in Documents \cup {Nil}
    /\ session \in Tokens \cup {Nil}
    /\ verifier \in Ids \cup {Nil}
    /\ cache \in Profiles \cup {Nil}
    /\ otp \in [Emails -> Ids \cup {Nil}]
    /\ permit \in [Emails -> Permits \cup {Nil}]
    /\ pc \in [Calls -> Steps \cup {"idle", "done", "ended"}]
    /\ doc \in [Calls -> Documents \cup {Nil}]
    /\ email \in [Calls -> Emails \cup {Nil}]
    /\ key \in [Calls -> Ids \cup {Nil}]
    /\ granted \in SUBSET Ids /\ changed \in SUBSET Ids /\ cut \in SUBSET Ids
    /\ spent \in [Kinds -> Nat]

Spend(kind) == /\ spent[kind] < Budget[kind]
               /\ spent' = [spent EXCEPT ![kind] = @ + 1]

\* Call c is accepted, with document d read, address e and key value k, and is
\* suspended before `step'.
Begin(c, step, d, e, k) ==
    /\ pc[c] = "idle"
    /\ pc' = [pc EXCEPT ![c] = step]
    /\ doc' = [doc EXCEPT ![c] = d]
    /\ email' = [email EXCEPT ![c] = e]
    /\ key' = [key EXCEPT ![c] = k]
    /\ UNCHANGED <<history, spent>>

Move(c, from, to) == pc[c] = from /\ pc' = [pc EXCEPT ![c] = to]

Proceed(c, from, to) == Move(c, from, to) /\ UNCHANGED <<locals, history, spent>>

\* The response is sent (or the error), and the call's variables are gone.
Leave(c, from, as) ==
    /\ Move(c, from, as)
    /\ doc' = [doc EXCEPT ![c] = Nil]
    /\ email' = [email EXCEPT ![c] = Nil]
    /\ key' = [key EXCEPT ![c] = Nil]

Finish(c, from) == Leave(c, from, "done") /\ UNCHANGED <<history, spent>>

\* findOne / findById: the call keeps the document it read.
ReadInto(c, from, to) ==
    /\ Move(c, from, to)
    /\ doc' = [doc EXCEPT ![c] = user]
    /\ UNCHANGED <<stores, email, key, history, spent>>

\* What a client can present: V4.verify accepts only what was signed here and
\* has not expired, and a token or an OTP reaches the client with the response
\* or the mail of the call that made it.
Known(t) == t \in Calls => pc[t] = "done"

-----------------------------------------------------------------------------
(* Registration and the verification of the address *)

\* findOne finds nothing, or the registration is refused without effect.
Register(c, e) == user = Nil /\ Begin(c, "create", Nil, e, Nil) /\ UNCHANGED stores

\* create: of two registrations the unique index refuses the second.
Create(c) ==
    /\ \/ /\ user = Nil
          /\ user' = [email |-> email[c], verified |-> FALSE, password |-> Before]
          /\ Proceed(c, "create", "storeVerifier")
       \/ user # Nil /\ UNCHANGED user /\ Finish(c, "create")
    /\ UNCHANGED <<session, verifier, cache, otp, permit>>

\* SET verify_token EX, of a registration or of a resent verification; the
\* mail follows, and its loss changes nothing.
StoreVerifier(c) ==
    /\ Finish(c, "storeVerifier")
    /\ verifier' = c
    /\ UNCHANGED <<user, session, cache, otp, permit>>

Resend(c) ==
    /\ user # Nil /\ ~user.verified
    /\ Begin(c, "storeVerifier", Nil, user.email, Nil)
    /\ UNCHANGED stores

\* GET verify_token: only the token stored last is accepted.
Verify(c) ==
    /\ verifier # Nil /\ Known(verifier)
    /\ Begin(c, "readUnverified", Nil, Nil, verifier)
    /\ UNCHANGED stores

ReadUnverified(c) ==
    \/ ReadInto(c, "readUnverified", "saveVerified") /\ ~user.verified
    \/ Finish(c, "readUnverified") /\ user.verified /\ UNCHANGED stores

\* save() writes the one path that was modified.
SaveVerified(c) ==
    /\ Proceed(c, "saveVerified", "dropVerifier")
    /\ user' = [user EXCEPT !.verified = TRUE]
    /\ UNCHANGED <<session, verifier, cache, otp, permit>>

\* DEL, whatever token is stored by now.
DropVerifier(c) ==
    /\ Finish(c, "dropVerifier")
    /\ verifier' = Nil
    /\ UNCHANGED <<user, session, cache, otp, permit>>

-----------------------------------------------------------------------------
(* Sessions and the cached profile *)

\* findOne, the right password, a verified address: what the login stores
\* later is from the document it reads now.
Login(c) ==
    /\ user # Nil /\ user.verified
    /\ Begin(c, "storeSession", user, Nil, Nil)
    /\ UNCHANGED stores

StoreSession(c) ==
    /\ Proceed(c, "storeSession", "fill")
    /\ session' = [by |-> c, password |-> doc[c].password,
                   late |-> doc[c].password # user.password]
    /\ UNCHANGED <<user, verifier, cache, otp, permit>>

\* SET user:<id> EX, at the end of a login and of getCachedUser.
Fill(c) ==
    /\ Finish(c, "fill")
    /\ cache' = [email |-> doc[c].email, verified |-> doc[c].verified,
                 late |-> \/ doc[c].email # user.email
                          \/ doc[c].verified # user.verified]
    /\ UNCHANGED <<user, session, verifier, otp, permit>>

\* GET refresh_token: only the token of the open session is accepted; the new
\* access token gets its claims from the cached profile.
Refresh(c) ==
    /\ session # Nil /\ Known(session.by)
    /\ Begin(c, "getCached", Nil, Nil, session.by)
    /\ UNCHANGED stores

\* isAuthenticated takes the claims from the access token; only the profile of
\* an administrator is looked up.
Authenticate(c) ==
    /\ Admin /\ user # Nil
    /\ Begin(c, "getCached", Nil, Nil, Nil)
    /\ UNCHANGED stores

GetCached(c) ==
    /\ IF cache = Nil THEN Proceed(c, "getCached", "readUser")
                      ELSE Finish(c, "getCached")
    /\ UNCHANGED stores

ReadUser(c) == ReadInto(c, "readUser", "fill")

\* DEL refresh_token first, then the cached profile.
Logout(c) ==
    /\ user # Nil
    /\ Begin(c, "dropCache", Nil, Nil, Nil)
    /\ session' = Nil
    /\ UNCHANGED <<user, verifier, cache, otp, permit>>

\* findOne finds no other account with the address, which may be the account's
\* own; the document itself is not read before findByIdAndUpdate.
UpdateProfile(c, e) ==
    /\ user # Nil
    /\ Begin(c, "write", Nil, e, Nil)
    /\ UNCHANGED stores

Write(c) ==
    /\ Proceed(c, "write", "dropProfile")
    /\ user' = [user EXCEPT !.email = email[c], !.verified = FALSE]
    /\ UNCHANGED <<session, verifier, cache, otp, permit>>

\* DEL user:<id>, of a logout, a changed profile or a changed password.
Dropped(step) == Nil

DropCache(c) ==
    /\ \/ Finish(c, "dropCache")
       \/ Finish(c, "dropProfile")
       \/ Proceed(c, "dropCached", "dropSession")
    /\ cache' = Dropped(pc[c])
    /\ UNCHANGED <<user, session, verifier, otp, permit>>

-----------------------------------------------------------------------------
(* Forgotten passwords *)

Forgot(c) ==
    /\ user # Nil
    /\ Begin(c, "storeOtp", Nil, user.email, Nil)
    /\ UNCHANGED stores

StoreOtp(c) ==
    /\ Proceed(c, "storeOtp", "mailOtp")
    /\ otp' = [otp EXCEPT ![email[c]] = c]
    /\ UNCHANGED <<user, session, verifier, cache, permit>>

MailOtp(c) ==
    /\ \/ Finish(c, "mailOtp")
       \/ Move(c, "mailOtp", "takeBackOtp") /\ Spend("mail") /\ UNCHANGED <<locals, history>>
    /\ UNCHANGED stores

\* The catch block's DEL, whatever OTP is stored by now.
TakeBackOtp(c) ==
    /\ Leave(c, "takeBackOtp", "ended")
    /\ otp' = [otp EXCEPT ![email[c]] = Nil]
    /\ UNCHANGED <<user, session, verifier, cache, permit, history, spent>>

\* The OTP the client types is that of the last mail.
VerifyOtp(c) ==
    /\ user # Nil /\ otp[user.email] # Nil /\ Known(otp[user.email])
    /\ Begin(c, "getOtp", Nil, user.email, otp[user.email])
    /\ UNCHANGED stores

GetOtp(c) ==
    /\ \/ Proceed(c, "getOtp", "dropOtp") /\ otp[email[c]] = key[c]
       \/ Finish(c, "getOtp") /\ otp[email[c]] # key[c]
    /\ UNCHANGED stores

\* The DEL comes before the SET of the permit.
DropOtp(c) ==
    /\ Proceed(c, "dropOtp", "storePermit")
    /\ otp' = [otp EXCEPT ![email[c]] = Nil]
    /\ UNCHANGED <<user, session, verifier, cache, permit>>

StorePermit(c) ==
    /\ Leave(c, "storePermit", "done")
    /\ permit' = [permit EXCEPT ![email[c]] =
                     [otp |-> key[c], again |-> key[c] \in granted]]
    /\ granted' = granted \cup {key[c]}
    /\ UNCHANGED <<user, session, verifier, cache, otp, changed, cut, spent>>

\* GET otp_verified, or the change is refused.
ChangePassword(c, e) ==
    /\ permit[e] # Nil
    /\ Begin(c, "readForChange", Nil, e, permit[e].otp)
    /\ UNCHANGED stores

ReadForChange(c) ==
    \/ ReadInto(c, "readForChange", "savePassword") /\ user.email = email[c]
    \/ Finish(c, "readForChange") /\ user.email # email[c] /\ UNCHANGED stores

SavePassword(c) ==
    /\ Move(c, "savePassword", "dropPermit")
    /\ user' = [user EXCEPT !.password = c]
    /\ changed' = changed \cup {key[c]}
    /\ UNCHANGED <<session, verifier, cache, otp, permit, locals, granted, cut, spent>>

DroppedPermit_Kept(c) == permit
DroppedPermit(c) == [permit EXCEPT ![email[c]] = Nil]

DropPermit(c) ==
    /\ Proceed(c, "dropPermit", "dropCached")
    /\ permit' = DroppedPermit(c)
    /\ UNCHANGED <<user, session, verifier, cache, otp>>

DroppedSession_Kept(c) == session
DroppedSession(c) == Nil

DropSession(c) ==
    /\ Finish(c, "dropSession")
    /\ session' = DroppedSession(c)
    /\ UNCHANGED <<user, verifier, cache, otp, permit>>

-----------------------------------------------------------------------------
(* The surroundings and the specification *)

Accept(c) ==
    \/ \E e \in Emails : Register(c, e) \/ UpdateProfile(c, e) \/ ChangePassword(c, e)
    \/ Resend(c) \/ Verify(c) \/ Login(c) \/ Logout(c) \/ Refresh(c)
    \/ Authenticate(c) \/ Forgot(c) \/ VerifyOtp(c)

Resume(c) ==
    \/ Create(c) \/ StoreVerifier(c) \/ ReadUnverified(c) \/ SaveVerified(c)
    \/ DropVerifier(c) \/ StoreSession(c) \/ Fill(c) \/ GetCached(c)
    \/ ReadUser(c) \/ Write(c) \/ DropCache(c) \/ StoreOtp(c) \/ MailOtp(c)
    \/ TakeBackOtp(c) \/ GetOtp(c) \/ DropOtp(c) \/ StorePermit(c)
    \/ ReadForChange(c) \/ SavePassword(c) \/ DropPermit(c) \/ DropSession(c)

Stop(c) ==
    /\ pc[c] \in Steps
    /\ Leave(c, pc[c], "ended")
    /\ Spend("stop")
    /\ cut' = IF pc[c] = "dropPermit" THEN cut \cup {key[c]} ELSE cut
    /\ UNCHANGED <<stores, granted, changed>>

\* Every key is set with EX.
ExpireProfile ==
    /\ cache # Nil /\ cache' = Nil
    /\ UNCHANGED <<user, session, verifier, otp, permit, pc, locals, history, spent>>

Expire ==
    /\ \/ /\ session # Nil /\ session' = Nil
          /\ UNCHANGED <<verifier, otp, permit>>
       \/ /\ verifier # Nil /\ verifier' = Nil
          /\ UNCHANGED <<session, otp, permit>>
       \/ \E e \in Emails :
             /\ \/ /\ otp[e] # Nil /\ otp' = [otp EXCEPT ![e] = Nil]
                   /\ UNCHANGED permit
                \/ /\ permit[e] # Nil /\ permit' = [permit EXCEPT ![e] = Nil]
                   /\ UNCHANGED otp
             /\ UNCHANGED <<session, verifier>>
    /\ Spend("expire")
    /\ UNCHANGED <<user, cache, pc, locals, history>>

\* Before the first call: no account yet; or a verified account, with a session
\* or without, and perhaps with an OTP just mailed or just verified.
Init ==
    /\ user = Nil \/ \E e \in Emails :
          user = [email |-> e, verified |-> TRUE, password |-> Before]
    /\ session = Nil \/ /\ user # Nil
                        /\ session = [by |-> Before, password |-> Before, late |-> FALSE]
    /\ verifier = Nil
    /\ cache = Nil \/ /\ session # Nil
                      /\ cache = [email |-> user.email, verified |-> TRUE, late |-> FALSE]
    /\ \/ /\ otp = [e \in Emails |-> Nil] /\ permit = [e \in Emails |-> Nil]
          /\ granted = {}
       \/ /\ user # Nil
          /\ otp = [e \in Emails |-> IF e = user.email THEN Before ELSE Nil]
          /\ permit = [e \in Emails |-> Nil]
          /\ granted = {}
       \/ /\ user # Nil
          /\ otp = [e \in Emails |-> Nil]
          /\ permit = [e \in Emails |-> IF e = user.email
                                       THEN [otp |-> Before, again |-> FALSE] ELSE Nil]
          /\ granted = {Before}
    /\ changed = {} /\ cut = {}
    /\ pc = [c \in Calls |-> "idle"]
    /\ doc = [c \in Calls |-> Nil]
    /\ email = [c \in Calls |-> Nil]
    /\ key = [c \in Calls |-> Nil]
    /\ spent = [kind \in Kinds |-> 0]

Next == \/ \E c \in Calls : Accept(c) \/ Resume(c) \/ Stop(c)
        \/ ExpireProfile \/ Expire

Spec == Init /\ [][Next]_vars

-----------------------------------------------------------------------------
(* Properties *)

Undisturbed == spent["stop"] = 0

\* "deleting this key = instant session invalidation": a session opened with
\* an older password is alive only while the change that replaces the password
\* is still at work, or if its login had read the old document and stored the
\* token after the change had deleted the key.
SessionIsCurrent ==
    session # Nil /\ ~session.late /\ Undisturbed =>
       \/ session.password = user.password
       \/ \E c \in Calls : pc[c] \in {"dropPermit", "dropCached", "dropSession"}

\* The cached profile the middleware and the access tokens rely on differs from
\* the document only while the update that invalidates it is at work, if a
\* slower reader put back what it had read before, or in that the address has
\* been verified since (verifyEmail leaves the cache alone).
VerifiedSince == ~cache.verified /\ user.verified /\ cache.email = user.email
CacheIsCurrent ==
    cache # Nil /\ ~cache.late /\ Undisturbed =>
       \/ cache.email = user.email /\ cache.verified = user.verified
       \/ VerifiedSince
       \/ \E c \in Calls : pc[c] = "dropProfile"

\* What Redis holds for an account is true of its document, up to the overlaps
\* named above.
KeysAreCurrent == SessionIsCurrent /\ CacheIsCurrent

\* One OTP serves one change of password (auth.service.js, "Short-lived flag so
\* changePasswordService knows OTP was verified").  Once a permit is stored for
\* it, the OTP is found under no key.  Once a password is saved with it, a permit
\* of it is found only while a change has yet to drop the permit, if one was cut
\* short before it could (the TTL then ends it), or if the permit was stored
\* again, by another verification that had found the OTP before it was dropped.
OtpServesOnce ==
    \A e \in Emails :
       /\ otp[e] \notin granted
       /\ permit[e] # Nil /\ permit[e].otp \in changed =>
             \/ permit[e].again
             \/ permit[e].otp \in cut
             \/ \E c \in Calls : pc[c] = "dropPermit" /\ key[c] = permit[e].otp

SessionInv == TypeOK /\ OtpServesOnce
=============================================================================
