--------------------------- MODULE SessionProofs ---------------------------
(***************************************************************************)
(* Theorems about an account's session, cached profile and permits, for    *)
(* any number of calls and addresses and all budgets.  Nothing is assumed  *)
(* of the order of the calls.                                              *)
(***************************************************************************)
EXTENDS Sessions, TLAPS

-----------------------------------------------------------------------------
(* One-time passwords and permits *)

\* A call that has found the OTP, and one that has found a permit, and has not
\* used it up.
Verifying(c) == pc[c] \in {"getOtp", "dropOtp", "storePermit"}
Holding(c) == pc[c] \in {"readForChange", "savePassword", "dropPermit"}

\* The addresses at which an OTP is found, used, or has left a permit.
Places(o) ==
    {e \in Emails : \/ otp[e] = o
                    \/ permit[e] # Nil /\ permit[e].otp = o
                    \/ \E c \in Calls : /\ Verifying(c) \/ Holding(c)
                                        /\ key[c] = o /\ email[c] = e}

\* An OTP that its call has stored.
Stored(o) == o \in Calls => pc[o] \in {"mailOtp", "takeBackOtp", "done", "ended"}

\* The functions the steps update.
Functions ==
    /\ permit = [e \in Emails |-> permit[e]] /\ otp = [e \in Emails |-> otp[e]]
    /\ pc = [c \in Calls |-> pc[c]]
    /\ email = [c \in Calls |-> email[c]] /\ key = [c \in Calls |-> key[c]]

\* An OTP belongs to one address; the DEL of its key comes before the permit,
\* and the permit before the change of password.
PermitInv ==
    /\ Functions
    /\ \A o \in Ids : /\ \A e, f \in Places(o) : e = f
                      /\ Places(o) # {} => Stored(o)
    /\ \A c \in Calls : Verifying(c) \/ Holding(c) => key[c] \in Ids /\ email[c] \in Emails
    /\ \A c \in Calls : pc[c] = "storePermit" => \A e \in Emails : otp[e] # key[c]
    /\ \A c \in Calls : Holding(c) => key[c] \in granted
    /\ \A e \in Emails : permit[e] # Nil => permit[e] \in Permits /\ permit[e].otp \in granted
    /\ \A e \in Emails : otp[e] \in Ids \cup {Nil}
    /\ granted \subseteq Ids /\ changed \subseteq granted
    /\ \A o \in granted : Stored(o)
    /\ OtpServesOnce

LEMMA PermitInvInit == Init => PermitInv
<1> SUFFICES ASSUME Init PROVE PermitInv
  OBVIOUS
<1>1. \A c \in Calls : ~Verifying(c) /\ ~Holding(c) /\ pc[c] # "storePermit"
  BY DEF Init, Verifying, Holding
<1>2. Before \in Ids /\ Before # Nil /\ Before \notin Calls
  BY SessionsAssumption DEF Ids
<1>3. /\ granted \subseteq {Before} /\ changed = {}
      /\ \A e \in Emails : otp[e] \in {Before, Nil}
      /\ \A e \in Emails : permit[e] # Nil =>
            permit[e] = [otp |-> Before, again |-> FALSE] /\ Before \in granted
      /\ \A e \in Emails : otp[e] \notin granted
  BY <1>2, SessionsAssumption DEF Init
<1>4. [otp |-> Before, again |-> FALSE] \in Permits
  BY <1>2 DEF Permits
<1>5. \A o \in Ids : \A e \in Places(o) : e = user.email /\ o = Before
  BY <1>1, <1>2, SessionsAssumption DEF Init, Places
<1>6. Stored(Before)
  BY <1>2 DEF Stored
<1>7. Functions
  BY DEF Init, Functions
<1>8. OtpServesOnce
  BY <1>3 DEF OtpServesOnce
<1> QED
  BY <1>1, <1>2, <1>3, <1>4, <1>5, <1>6, <1>7, <1>8 DEF PermitInv

\* What a step may do that stores no permit and saves no password: OTPs and
\* permits may be lost, and call c goes on where it works with what it found.
LosesOtps(c) ==
    /\ \A e \in Emails : otp'[e] = otp[e] \/ otp'[e] = Nil
    /\ \A e \in Emails : permit'[e] = permit[e] \/ permit'[e] = Nil
    /\ \A d \in Calls : d # c => pc'[d] = pc[d] /\ email'[d] = email[d] /\ key'[d] = key[d]
    /\ Verifying(c)' \/ Holding(c)' =>
          /\ Verifying(c) \/ Holding(c)
          /\ email'[c] = email[c] /\ key'[c] = key[c]
          /\ Holding(c)' => Holding(c)
    /\ pc'[c] = "storePermit" => \A e \in Emails : otp'[e] # key[c]
    /\ pc[c] = "dropPermit" => \/ pc'[c] = "dropPermit"
                               \/ key[c] \in cut'
                               \/ permit'[email[c]] = Nil
    /\ pc[c] \in {"mailOtp", "takeBackOtp"} => pc'[c] \in {"takeBackOtp", "done", "ended"}
    /\ pc[c] \notin {"done", "ended"}
    /\ cut \subseteq cut'
    /\ UNCHANGED <<granted, changed>>
    /\ Functions'

LEMMA LostOtps ==
  ASSUME PermitInv, NEW c \in Calls, LosesOtps(c)
  PROVE  PermitInv'
<1> USE DEF PermitInv
<1>1. \A o : Stored(o) => Stored(o)'
  BY DEF LosesOtps, Stored
<1>2. \A d \in Calls : Verifying(d)' \/ Holding(d)' =>
          /\ Verifying(d) \/ Holding(d)
          /\ email'[d] = email[d] /\ key'[d] = key[d]
          /\ Holding(d)' => Holding(d)
  BY DEF LosesOtps, Verifying, Holding
<1>3. \A o \in Ids : Places(o)' \subseteq Places(o)
  BY <1>2, SessionsAssumption DEF LosesOtps, Places
<1>4. \A o \in Ids : /\ \A e, f \in Places(o)' : e = f
                     /\ Places(o)' # {} => Stored(o)'
  BY <1>1, <1>3
<1>5. /\ \A d \in Calls : (Verifying(d) \/ Holding(d))' => key'[d] \in Ids /\ email'[d] \in Emails
      /\ \A d \in Calls : Holding(d)' => key'[d] \in granted'
  BY <1>2 DEF LosesOtps
<1>6. \A d \in Calls : pc'[d] = "storePermit" => \A e \in Emails : otp'[e] # key'[d]
  <2> SUFFICES ASSUME NEW d \in Calls, pc'[d] = "storePermit", NEW e \in Emails
               PROVE  otp'[e] # key'[d]
    OBVIOUS
  <2>1. key'[d] = key[d] /\ key[d] \in Ids
    BY <1>2 DEF Verifying
  <2>2. CASE d = c
    BY <2>1, <2>2 DEF LosesOtps
  <2>3. CASE d # c
    BY <2>1, <2>3, SessionsAssumption DEF LosesOtps
  <2> QED BY <2>2, <2>3
<1>7. /\ \A e \in Emails : permit'[e] # Nil => permit'[e] \in Permits /\ permit'[e].otp \in granted'
      /\ \A e \in Emails : otp'[e] \in Ids \cup {Nil} /\ otp'[e] \notin granted'
      /\ granted' \subseteq Ids /\ changed' \subseteq granted'
      /\ \A o \in granted' : Stored(o)'
  BY <1>1, SessionsAssumption DEF LosesOtps, OtpServesOnce
<1>8. ASSUME NEW e \in Emails, permit'[e] # Nil, permit'[e].otp \in changed'
      PROVE  \/ permit'[e].again
             \/ permit'[e].otp \in cut'
             \/ \E d \in Calls : pc'[d] = "dropPermit" /\ key'[d] = permit'[e].otp
  <2>1. permit'[e] = permit[e] /\ permit[e].otp \in changed /\ permit[e].otp \in Ids
    BY <1>8 DEF LosesOtps
  <2>2. CASE permit[e].again \/ permit[e].otp \in cut
    BY <2>1, <2>2 DEF LosesOtps
  <2>3. ASSUME NEW d \in Calls, pc[d] = "dropPermit", key[d] = permit[e].otp
        PROVE  permit[e].otp \in cut' \/ (pc'[d] = "dropPermit" /\ key'[d] = permit[e].otp)
    <3>1. CASE d # c
      BY <2>3, <3>1 DEF LosesOtps
    <3>2. CASE d = c
      <4>1. email[d] \in Places(permit[e].otp) /\ e \in Places(permit[e].otp)
        BY <1>8, <2>1, <2>3 DEF Places, Holding
      <4>2. email[d] = e
        BY <2>1, <4>1
      <4>3. permit'[email[c]] # Nil
        BY <1>8, <3>2, <4>2
      <4>4. CASE pc'[c] = "dropPermit"
        <5>1. Holding(c)'
          BY <4>4 DEF Holding
        <5>2. key'[c] = key[c]
          BY <1>2, <5>1
        <5> QED BY <2>3, <3>2, <4>4, <5>2
      <4>5. pc[c] = "dropPermit" /\ key[c] = permit[e].otp
        BY <2>3, <3>2
      <4>6. pc'[c] = "dropPermit" \/ key[c] \in cut'
        BY <4>3, <4>5 DEF LosesOtps
      <4> QED BY <4>4, <4>5, <4>6
    <3> QED BY <3>1, <3>2
  <2>4. \/ permit[e].again \/ permit[e].otp \in cut
        \/ \E d \in Calls : pc[d] = "dropPermit" /\ key[d] = permit[e].otp
    BY <1>8, <2>1 DEF OtpServesOnce
  <2> HIDE DEF PermitInv
  <2> QED BY <2>1, <2>2, <2>3, <2>4
<1>9. OtpServesOnce'
  BY <1>7, <1>8 DEF OtpServesOnce
<1> QED
  BY <1>4, <1>5, <1>6, <1>7, <1>9 DEF LosesOtps

\* Calls that are accepted, but for those that find an OTP or a permit.
LEMMA AcceptLosesOtps ==
  ASSUME PermitInv, NEW c \in Calls, Accept(c), ~VerifyOtp(c),
         ~\E e \in Emails : ChangePassword(c, e)
  PROVE  LosesOtps(c)
<1>1. PICK step, d, e, k :
          /\ step \in Steps /\ Begin(c, step, d, e, k)
          /\ step \notin {"getOtp", "dropOtp", "storePermit", "readForChange",
                          "savePassword", "dropPermit"}
  BY DEF Accept, Steps, Register, UpdateProfile, Resend, Verify, Login, Logout, Refresh,
         Authenticate, Forgot
<1>2. UNCHANGED <<otp, permit>>
  BY DEF Accept, Register, UpdateProfile, Resend, Verify, Login, Logout, Refresh,
         Authenticate, Forgot, stores
<1> QED BY <1>1, <1>2 DEF Begin, LosesOtps, PermitInv, Functions, Verifying, Holding, history

\* Calls that go on without a part in it.
LEMMA OtherLosesOtps ==
  ASSUME PermitInv, NEW c \in Calls, Resume(c),
         ~StoreOtp(c), ~StorePermit(c), ~SavePassword(c)
  PROVE  LosesOtps(c)
<1> USE DEF PermitInv, Functions, LosesOtps, Finish, Leave, Proceed, Move, ReadInto, stores,
            locals, history, Verifying, Holding
<1>1. CASE Create(c) \/ StoreVerifier(c) \/ ReadUnverified(c) \/ SaveVerified(c)
  BY <1>1 DEF Create, StoreVerifier, ReadUnverified, SaveVerified
<1>2. CASE DropVerifier(c) \/ StoreSession(c) \/ Fill(c) \/ GetCached(c) \/ ReadUser(c)
  BY <1>2 DEF DropVerifier, StoreSession, Fill, GetCached, ReadUser
<1>3. CASE Write(c) \/ DropCache(c) \/ DropSession(c)
  BY <1>3 DEF Write, DropCache, DropSession
<1>4. CASE MailOtp(c)
  BY <1>4 DEF MailOtp
<1>5. CASE TakeBackOtp(c)
  BY <1>5 DEF TakeBackOtp
<1>6. CASE GetOtp(c)
  BY <1>6 DEF GetOtp
<1>7. CASE DropOtp(c)
  <2>1. /\ pc[c] = "dropOtp" /\ key[c] \in Ids /\ email[c] \in Emails
        /\ otp' = [otp EXCEPT ![email[c]] = Nil]
    BY <1>7 DEF DropOtp
  <2>2. \A e \in Emails : otp[e] = key[c] => e = email[c]
    <3> SUFFICES ASSUME NEW e \in Emails, otp[e] = key[c] PROVE e = email[c]
      OBVIOUS
    <3>1. e \in Places(key[c]) /\ email[c] \in Places(key[c])
      BY <2>1 DEF Places
    <3> QED BY <2>1, <3>1
  <2>3. \A e \in Emails : otp'[e] # key[c]
    BY <2>1, <2>2, SessionsAssumption
  <2> QED BY <1>7, <2>3 DEF DropOtp
<1>8. CASE ReadForChange(c)
  BY <1>8 DEF ReadForChange
<1>9. CASE DropPermit(c)
  BY <1>9 DEF DropPermit, DroppedPermit
<1> QED BY <1>1, <1>2, <1>3, <1>4, <1>5, <1>6, <1>7, <1>8, <1>9 DEF Resume

\* A call finds an OTP under its key, or a permit, and keeps it with the address.
LEMMA FindsOtp ==
  ASSUME PermitInv, NEW c \in Calls, NEW e \in Emails, NEW o \in Ids,
         NEW step \in {"getOtp", "readForChange"}, NEW d,
         Begin(c, step, d, e, o), UNCHANGED stores,
         e \in Places(o), step = "readForChange" => o \in granted
  PROVE  PermitInv'
<1> USE DEF PermitInv
<1>1. /\ pc[c] = "idle" /\ pc' = [pc EXCEPT ![c] = step]
      /\ email' = [email EXCEPT ![c] = e] /\ key' = [key EXCEPT ![c] = o]
      /\ UNCHANGED <<otp, permit, granted, changed, cut>>
  BY DEF Begin, stores, history
<1>2. \A p : Stored(p) => Stored(p)'
  BY <1>1 DEF Stored
<1>3. \A x \in Calls : Verifying(x)' \/ Holding(x)' =>
          \/ x = c /\ key'[x] = o /\ email'[x] = e /\ (Holding(x)' => o \in granted)
          \/ /\ x # c /\ key'[x] = key[x] /\ email'[x] = email[x]
             /\ Verifying(x)' = Verifying(x) /\ Holding(x)' = Holding(x)
             /\ Verifying(x) \/ Holding(x)
  BY <1>1 DEF Verifying, Holding, Functions
<1>4. \A p \in Ids : Places(p)' \subseteq Places(p)
  BY <1>1, <1>3 DEF Places
<1>5. \A p \in Ids : /\ \A f, g \in Places(p)' : f = g
                     /\ Places(p)' # {} => Stored(p)'
  BY <1>2, <1>4
<1>6. \A x \in Calls : pc'[x] = "storePermit" => pc[x] = "storePermit" /\ key'[x] = key[x]
  BY <1>1 DEF Functions
<1>7. \A x \in Calls : pc[x] = "dropPermit" => pc'[x] = "dropPermit" /\ key'[x] = key[x]
  BY <1>1 DEF Functions
<1>8. OtpServesOnce'
  BY <1>1, <1>7 DEF OtpServesOnce
<1>9. Functions'
  BY <1>1 DEF Functions
<1> QED
  BY <1>1, <1>2, <1>3, <1>5, <1>6, <1>8, <1>9

\* A new OTP takes the place of the one before it; nothing else knows it.
LEMMA StoreOtpKeepsPermits ==
  ASSUME PermitInv, NEW c \in Calls, StoreOtp(c)
  PROVE  PermitInv'
<1> USE DEF PermitInv
<1>1. /\ pc[c] = "storeOtp" /\ pc' = [pc EXCEPT ![c] = "mailOtp"]
      /\ otp' = [otp EXCEPT ![email[c]] = c]
      /\ UNCHANGED <<permit, email, key, granted, changed, cut>>
  BY DEF StoreOtp, Proceed, Move, locals, history
<1>2. /\ ~Stored(c) /\ Places(c) = {} /\ c \notin granted /\ c \in Ids /\ c # Nil
      /\ Stored(c)' /\ \A p : Stored(p) => Stored(p)'
  BY <1>1, SessionsAssumption DEF Stored, Functions, Ids
<1>3. \A x \in Calls : /\ Verifying(x)' = Verifying(x) /\ Holding(x)' = Holding(x)
                       /\ pc'[x] = "storePermit" => pc[x] = "storePermit"
                       /\ pc[x] = "dropPermit" => pc'[x] = "dropPermit"
  BY <1>1 DEF Verifying, Holding, Functions
<1>4. \A e \in Emails : otp'[e] = otp[e] \/ (e = email[c] /\ otp'[e] = c)
  <2>1. Functions
    OBVIOUS
  <2> HIDE DEF PermitInv
  <2> QED BY <1>1, <2>1 DEF Functions
<1>5. \A p \in Ids : p # c => Places(p)' \subseteq Places(p)
  BY <1>1, <1>3, <1>4 DEF Places
<1>6. Places(c)' \subseteq {email[c]}
  BY <1>1, <1>2, <1>3, <1>4 DEF Places
<1>7. \A p \in Ids : /\ \A f, g \in Places(p)' : f = g
                     /\ Places(p)' # {} => Stored(p)'
  BY <1>2, <1>5, <1>6
<1>8. \A x \in Calls : Verifying(x) => key[x] # c
  <2> SUFFICES ASSUME NEW x \in Calls, Verifying(x), key[x] = c PROVE FALSE
    OBVIOUS
  <2>1. email[x] \in Places(c)
    BY DEF Places
  <2> QED BY <1>2, <2>1
<1>9. \A x \in Calls : pc'[x] = "storePermit" => \A e \in Emails : otp'[e] # key'[x]
  BY <1>1, <1>3, <1>4, <1>8 DEF Verifying
<1>10. OtpServesOnce'
  BY <1>1, <1>2, <1>3, <1>4 DEF OtpServesOnce
<1>11. Functions'
  BY <1>1 DEF Functions
<1>12. \A e \in Emails : otp'[e] \in Ids \cup {Nil}
  BY <1>2, <1>4
<1> QED
  BY <1>1, <1>2, <1>3, <1>7, <1>9, <1>10, <1>11, <1>12

\* The permit is stored after the DEL of the OTP.
LEMMA StorePermitKeepsPermits ==
  ASSUME PermitInv, NEW c \in Calls, StorePermit(c)
  PROVE  PermitInv'
<1> USE DEF PermitInv
<1> DEFINE p == [otp |-> key[c], again |-> key[c] \in granted]
<1>1. /\ pc[c] = "storePermit" /\ pc' = [pc EXCEPT ![c] = "done"]
      /\ permit' = [permit EXCEPT ![email[c]] = p]
      /\ email' = [email EXCEPT ![c] = Nil] /\ key' = [key EXCEPT ![c] = Nil]
      /\ granted' = granted \cup {key[c]}
      /\ UNCHANGED <<otp, changed, cut>>
  BY DEF StorePermit, Leave, Move
<1>2. /\ key[c] \in Ids /\ email[c] \in Emails
      /\ p \in Permits /\ p.otp = key[c] /\ p.again = (key[c] \in granted)
      /\ email[c] \in Places(key[c])
  BY <1>1 DEF Verifying, Permits, Places
<1> HIDE DEF p
<1>3. \A q : Stored(q) => Stored(q)'
  BY <1>1 DEF Stored
<1>4. \A x \in Calls : Verifying(x)' \/ Holding(x)' =>
          /\ x # c /\ key'[x] = key[x] /\ email'[x] = email[x]
          /\ Verifying(x)' = Verifying(x) /\ Holding(x)' = Holding(x)
          /\ Verifying(x) \/ Holding(x)
  BY <1>1 DEF Verifying, Holding, Functions
<1>5. \A e \in Emails : permit'[e] = permit[e] \/ (e = email[c] /\ permit'[e] = p)
  <2>1. Functions
    OBVIOUS
  <2> HIDE DEF PermitInv
  <2> QED BY <1>1, <2>1 DEF Functions
<1>6. \A q \in Ids : Places(q)' \subseteq Places(q)
  <2> SUFFICES ASSUME NEW q \in Ids, NEW e \in Places(q)' PROVE e \in Places(q)
    OBVIOUS
  <2>1. e \in Emails
    BY DEF Places
  <2>2. CASE otp'[e] = q
    BY <1>1, <2>1, <2>2 DEF Places
  <2>3. CASE permit'[e] # Nil /\ permit'[e].otp = q
    BY <1>2, <1>5, <2>1, <2>3 DEF Places
  <2>4. CASE \E x \in Calls : (Verifying(x) \/ Holding(x))' /\ key'[x] = q /\ email'[x] = e
    BY <1>4, <2>1, <2>4 DEF Places
  <2> QED BY <2>2, <2>3, <2>4 DEF Places
<1>7. \A q \in Ids : /\ \A f, g \in Places(q)' : f = g
                     /\ Places(q)' # {} => Stored(q)'
  BY <1>3, <1>6
<1>8. \A x \in Calls : pc'[x] = "storePermit" => \A e \in Emails : otp'[e] # key'[x]
  BY <1>1, <1>4 DEF Verifying, Functions
<1>9. \A e \in Emails : otp'[e] \notin granted'
  BY <1>1 DEF OtpServesOnce
<1>10. \A x \in Calls : pc[x] = "dropPermit" => pc'[x] = "dropPermit" /\ key'[x] = key[x]
  BY <1>1 DEF Functions
<1>11. OtpServesOnce'
  <2> SUFFICES ASSUME NEW e \in Emails, permit'[e] # Nil, permit'[e].otp \in changed
               PROVE  \/ permit'[e].again
                      \/ permit'[e].otp \in cut
                      \/ \E x \in Calls : pc'[x] = "dropPermit" /\ key'[x] = permit'[e].otp
    BY <1>1, <1>9 DEF OtpServesOnce
  <2>1. CASE permit'[e] = permit[e]
    BY <1>10, <2>1 DEF OtpServesOnce
  <2>2. CASE permit'[e] = p
    BY <1>2, <2>2
  <2> QED BY <1>5, <2>1, <2>2
<1>12. Functions'
  BY <1>1 DEF Functions
<1>13. \A e \in Emails : permit'[e] # Nil => permit'[e] \in Permits /\ permit'[e].otp \in granted'
  BY <1>1, <1>2, <1>5
<1>14. /\ granted' \subseteq Ids /\ changed' \subseteq granted'
       /\ \A o \in granted' : Stored(o)'
  BY <1>1, <1>2, <1>3
<1> QED
  BY <1>1, <1>4, <1>7, <1>8, <1>11, <1>12, <1>13, <1>14

\* The password is saved with a permit of the OTP; the DEL is the next step.
LEMMA SavePasswordKeepsPermits ==
  ASSUME PermitInv, NEW c \in Calls, SavePassword(c)
  PROVE  PermitInv'
<1> USE DEF PermitInv
<1>1. /\ pc[c] = "savePassword" /\ pc' = [pc EXCEPT ![c] = "dropPermit"]
      /\ changed' = changed \cup {key[c]}
      /\ UNCHANGED <<otp, permit, email, key, granted, cut>>
  BY DEF SavePassword, Move, locals
<1>2. key[c] \in Ids /\ key[c] \in granted
  BY <1>1 DEF Holding
<1>3. \A q : Stored(q) => Stored(q)'
  BY <1>1 DEF Stored
<1>4. \A x \in Calls : Verifying(x)' = Verifying(x) /\ Holding(x)' = Holding(x)
  BY <1>1 DEF Verifying, Holding, Functions
<1>5. \A q \in Ids : Places(q)' = Places(q)
  BY <1>1, <1>4 DEF Places
<1>6. pc'[c] = "dropPermit" /\ \A x \in Calls : pc[x] = "dropPermit" => pc'[x] = "dropPermit"
  BY <1>1 DEF Functions
<1>7. OtpServesOnce'
  <2> SUFFICES ASSUME NEW e \in Emails, permit[e] # Nil, permit[e].otp \in changed'
               PROVE  \/ permit[e].again
                      \/ permit[e].otp \in cut
                      \/ \E x \in Calls : pc'[x] = "dropPermit" /\ key[x] = permit[e].otp
    BY <1>1 DEF OtpServesOnce
  <2>1. CASE permit[e].otp \in changed
    BY <1>6, <2>1 DEF OtpServesOnce
  <2>2. CASE permit[e].otp = key[c]
    BY <1>6, <2>2
  <2> QED BY <1>1, <2>1, <2>2
<1>8. \A x \in Calls : pc'[x] = "storePermit" => pc[x] = "storePermit"
  BY <1>1 DEF Functions
<1>9. Functions'
  BY <1>1 DEF Functions
<1> QED
  BY <1>1, <1>2, <1>3, <1>4, <1>5, <1>7, <1>8, <1>9

LEMMA PermitInvNext ==
  user \in Documents \cup {Nil} /\ PermitInv /\ [Next]_vars => PermitInv'
<1> SUFFICES ASSUME user \in Documents \cup {Nil}, PermitInv, [Next]_vars PROVE PermitInv'
  OBVIOUS
<1> USE DEF PermitInv
<1>1. ASSUME NEW c \in Calls, NEW e \in Emails, ChangePassword(c, e) PROVE PermitInv'
  <2>1. permit[e] # Nil /\ permit[e].otp \in Ids /\ permit[e].otp \in granted
    BY <1>1 DEF ChangePassword
  <2>2. e \in Places(permit[e].otp)
    BY <2>1 DEF Places
  <2>3. Begin(c, "readForChange", Nil, e, permit[e].otp) /\ UNCHANGED stores
    BY <1>1 DEF ChangePassword
  <2> QED BY <2>1, <2>2, <2>3, FindsOtp
<1>2. ASSUME NEW c \in Calls, VerifyOtp(c) PROVE PermitInv'
  <2> DEFINE e == user.email
  <2>1. /\ otp[e] # Nil /\ Begin(c, "getOtp", Nil, e, otp[e]) /\ UNCHANGED stores
    BY <1>2 DEF VerifyOtp
  <2>2. e \in Emails
    BY <1>2 DEF VerifyOtp, Documents
  <2>3. otp[e] \in Ids /\ e \in Places(otp[e])
    BY <2>1, <2>2 DEF Places
  <2> HIDE DEF e
  <2> QED BY <2>1, <2>2, <2>3, FindsOtp
<1>3. ASSUME NEW c \in Calls, Accept(c) PROVE PermitInv'
  BY <1>1, <1>2, <1>3, AcceptLosesOtps, LostOtps
<1>4. ASSUME NEW c \in Calls, Resume(c) PROVE PermitInv'
  BY <1>4, OtherLosesOtps, LostOtps, StoreOtpKeepsPermits, StorePermitKeepsPermits,
     SavePasswordKeepsPermits
<1>5. ASSUME NEW c \in Calls, Stop(c) PROVE PermitInv'
  <2>1. /\ pc[c] \in Steps /\ pc' = [pc EXCEPT ![c] = "ended"]
        /\ email' = [email EXCEPT ![c] = Nil] /\ key' = [key EXCEPT ![c] = Nil]
        /\ pc[c] = "dropPermit" => key[c] \in cut'
        /\ cut \subseteq cut' /\ UNCHANGED <<otp, permit, granted, changed>>
    BY <1>5 DEF Stop, Leave, Move, stores
  <2>2. LosesOtps(c)
    BY <2>1 DEF LosesOtps, Verifying, Holding, Functions, Steps
  <2> QED BY <2>2, LostOtps
<1>6. CASE ExpireProfile \/ Expire
  <2>1. /\ \A e \in Emails : otp'[e] \in {otp[e], Nil} /\ permit'[e] \in {permit[e], Nil}
        /\ otp' = [e \in Emails |-> otp'[e]] /\ permit' = [e \in Emails |-> permit'[e]]
        /\ UNCHANGED <<pc, email, key, granted, changed, cut>>
    BY <1>6 DEF ExpireProfile, Expire, locals, history, Functions
  <2>2. /\ \A c \in Calls : Verifying(c)' = Verifying(c) /\ Holding(c)' = Holding(c)
        /\ \A o : Stored(o)' = Stored(o)
    BY <2>1 DEF Verifying, Holding, Stored
  <2>3. \A o \in Ids : Places(o)' \subseteq Places(o)
    BY <2>1, <2>2, SessionsAssumption DEF Places
  <2>4. OtpServesOnce'
    BY <2>1, SessionsAssumption DEF OtpServesOnce
  <2>5. \A c \in Calls : pc'[c] = "storePermit" => \A e \in Emails : otp'[e] # key'[c]
    <3> SUFFICES ASSUME NEW c \in Calls, pc[c] = "storePermit", NEW e \in Emails
                 PROVE  otp'[e] # key[c]
      BY <2>1
    <3>1. key[c] \in Ids
      BY DEF Verifying
    <3> QED BY <2>1, <3>1, SessionsAssumption
  <2>6. Functions'
    BY <2>1 DEF Functions
  <2> QED BY <2>1, <2>2, <2>3, <2>4, <2>5, <2>6
<1>7. CASE UNCHANGED vars
  BY <1>7 DEF vars, stores, locals, history, OtpServesOnce, Places, Verifying, Holding,
              Stored, Functions
<1> QED BY <1>3, <1>4, <1>5, <1>6, <1>7 DEF Next

-----------------------------------------------------------------------------
(* The account *)

\* Before there is an account, nothing is found under its keys and the only
\* calls are registrations; afterwards it stays.
AccountInv ==
    /\ user \in Documents \cup {Nil}
    /\ pc = [c \in Calls |-> pc[c]] /\ doc = [c \in Calls |-> doc[c]]
    /\ email = [c \in Calls |-> email[c]]
    /\ spent \in [Kinds -> Nat]
    /\ \A c \in Calls :
          /\ pc[c] \in {"create", "write"} => email[c] \in Emails
          /\ pc[c] \in {"storeSession", "fill"} => doc[c] \in Documents
    /\ user = Nil =>
          /\ session = Nil /\ cache = Nil /\ verifier = Nil
          /\ \A e \in Emails : permit[e] = Nil
          /\ \A c \in Calls : pc[c] \in {"idle", "create", "done", "ended"}

LEMMA AccountInvInit == Init => AccountInv
<1> SUFFICES ASSUME Init PROVE AccountInv
  OBVIOUS
<1> USE DEF Init
<1>1. user \in Documents \cup {Nil}
  <2>1. \A e \in Emails : [email |-> e, verified |-> TRUE, password |-> Before] \in Documents
    BY DEF Documents, Ids
  <2> QED BY <2>1
<1>4. spent \in [Kinds -> Nat]
  OBVIOUS
<1>2. \A c \in Calls : pc[c] = "idle"
  OBVIOUS
<1>3. user = Nil => session = Nil /\ cache = Nil /\ verifier = Nil
                    /\ \A e \in Emails : permit[e] = Nil
  BY SessionsAssumption DEF Documents
<1> QED BY <1>1, <1>2, <1>3, <1>4 DEF AccountInv

\* An accepted call has kept a document only if it goes on with a session, and
\* an address of the account's only if it goes on with writing it.
LEMMA AcceptKeepsAccount ==
  ASSUME AccountInv, NEW c \in Calls, Accept(c)
  PROVE  AccountInv'
<1>1. /\ UNCHANGED <<user, cache, verifier, permit, spent>>
      /\ session' \in {session, Nil}
  BY DEF Accept, Begin, Register, UpdateProfile, ChangePassword, Resend, Verify, Login,
         Logout, Refresh, Authenticate, Forgot, VerifyOtp, stores
<1>2. PICK step, d, e, k :
          /\ Begin(c, step, d, e, k)
          /\ step \in Steps
          /\ user = Nil => step = "create"
          /\ step \in {"create", "write"} => e \in Emails
          /\ step \in {"storeSession", "fill"} => d = user
  BY DEF Accept, AccountInv, Register, UpdateProfile, ChangePassword, Resend, Verify,
         Login, Logout, Refresh, Authenticate, Forgot, VerifyOtp, Steps
<1>3. /\ pc' = [pc EXCEPT ![c] = step] /\ doc' = [doc EXCEPT ![c] = d]
      /\ email' = [email EXCEPT ![c] = e]
  BY <1>2 DEF Begin
<1>4. step \in {"storeSession", "fill"} => d \in Documents
  BY <1>2 DEF AccountInv
<1> QED BY <1>1, <1>2, <1>3, <1>4 DEF AccountInv

\* A registration makes an account, unless there is one.
LEMMA CreateMakesUser ==
  ASSUME AccountInv, NEW c \in Calls, Create(c)
  PROVE  (user # Nil /\ user' = user) \/ user' \in Documents
<1>1. CASE user = Nil
  <2>1. email[c] \in Emails
    BY DEF AccountInv, Create, Finish, Leave, Proceed, Move
  <2>2. [email |-> email[c], verified |-> FALSE, password |-> Before] \in Documents
    BY <2>1 DEF Documents, Ids
  <2> QED BY <1>1, <2>2 DEF Create
<1> QED BY <1>1 DEF Create

\* The four writes to the document keep it a document, and do not undo it.
LEMMA ResumeKeepsUser ==
  ASSUME AccountInv, NEW c \in Calls, Resume(c)
  PROVE  user' = user \/ user' \in Documents
<1> USE DEF AccountInv, Proceed, Move
<1>1. CASE Create(c)
  BY <1>1, CreateMakesUser
<1>2. CASE SaveVerified(c)
  <2>1. user \in Documents
    BY <1>2 DEF SaveVerified
  <2> QED BY <1>2, <2>1 DEF SaveVerified, Documents
<1>3. CASE Write(c)
  <2>1. user \in Documents /\ email[c] \in Emails
    BY <1>3 DEF Write
  <2> QED BY <1>3, <2>1 DEF Write, Documents
<1>4. CASE SavePassword(c)
  <2>1. user \in Documents /\ c \in Ids
    BY <1>4 DEF SavePassword, Ids
  <2> QED BY <1>4, <2>1 DEF SavePassword, Documents
<1>5. CASE ~Create(c) /\ ~SaveVerified(c) /\ ~Write(c) /\ ~SavePassword(c)
  BY <1>5 DEF Resume, StoreVerifier, ReadUnverified, DropVerifier, StoreSession, Fill,
         GetCached, ReadUser, DropCache, StoreOtp, MailOtp, TakeBackOtp, GetOtp, DropOtp,
         StorePermit, ReadForChange, DropPermit, DropSession, ReadInto, stores
<1> QED BY <1>1, <1>2, <1>3, <1>4, <1>5

\* Where a suspended call can go on, and with what.
LEMMA ResumeSteps ==
  ASSUME AccountInv, NEW c \in Calls, Resume(c)
  PROVE  /\ pc[c] \in Steps
         /\ pc' = [pc EXCEPT ![c] = pc'[c]]
         /\ email' = [email EXCEPT ![c] = email'[c]] /\ doc' = [doc EXCEPT ![c] = doc'[c]]
         /\ \/ UNCHANGED spent
            \/ pc[c] = "mailOtp" /\ spent' \in [Kinds -> Nat] /\ spent'["stop"] = spent["stop"]
         /\ pc'[c] \notin {"create", "write"}
         /\ pc'[c] = "storeSession" => FALSE
         /\ pc'[c] = "fill" => \/ pc[c] = "readUser" /\ doc'[c] = user
                               \/ pc[c] = "storeSession" /\ doc'[c] = doc[c]
<1> USE DEF AccountInv, Finish, Leave, Proceed, Move, ReadInto, stores, locals, Steps
<1>1. CASE Create(c) \/ StoreVerifier(c) \/ ReadUnverified(c) \/ SaveVerified(c)
  BY <1>1 DEF Create, StoreVerifier, ReadUnverified, SaveVerified
<1>2. CASE DropVerifier(c) \/ StoreSession(c) \/ Fill(c) \/ GetCached(c) \/ ReadUser(c)
  BY <1>2 DEF DropVerifier, StoreSession, Fill, GetCached, ReadUser
<1>3. CASE Write(c) \/ DropCache(c) \/ DropSession(c)
  BY <1>3 DEF Write, DropCache, DropSession
<1>4. CASE StoreOtp(c) \/ TakeBackOtp(c) \/ GetOtp(c) \/ DropOtp(c)
  BY <1>4 DEF StoreOtp, TakeBackOtp, GetOtp, DropOtp
<1>5. CASE MailOtp(c)
  BY <1>5 DEF MailOtp, Spend, Kinds
<1>6. CASE StorePermit(c) \/ ReadForChange(c) \/ SavePassword(c) \/ DropPermit(c)
  BY <1>6 DEF StorePermit, ReadForChange, SavePassword, DropPermit
<1> QED BY <1>1, <1>2, <1>3, <1>4, <1>5, <1>6 DEF Resume

LEMMA ResumeKeepsAccount ==
  ASSUME AccountInv, NEW c \in Calls, Resume(c)
  PROVE  AccountInv'
<1>1. \A d \in Calls :
          /\ pc'[d] \in {"create", "write"} => email'[d] \in Emails
          /\ pc'[d] \in {"storeSession", "fill"} => doc'[d] \in Documents
  <2>1. CASE user = Nil
    BY <2>1, ResumeSteps DEF AccountInv
  <2>2. CASE user # Nil
    BY <2>2, ResumeSteps DEF AccountInv
  <2> QED BY <2>1, <2>2
<1>2. user' # Nil
  <2>1. CASE user = Nil
    <3>1. pc[c] = "create"
      BY <2>1, ResumeSteps DEF AccountInv, Steps
    <3>2. Create(c)
      BY <3>1 DEF Resume, StoreVerifier, ReadUnverified, SaveVerified, DropVerifier,
             StoreSession, Fill, GetCached, ReadUser, Write, DropCache, StoreOtp, MailOtp,
             TakeBackOtp, GetOtp, DropOtp, StorePermit, ReadForChange, SavePassword,
             DropPermit, DropSession, Finish, Leave, Proceed, Move, ReadInto
    <3> QED BY <2>1, <3>2, CreateMakesUser, SessionsAssumption
  <2>2. CASE user # Nil
    BY <2>2, ResumeKeepsUser, SessionsAssumption
  <2> QED BY <2>1, <2>2
<1>3. /\ user' \in Documents \cup {Nil}
      /\ pc' = [d \in Calls |-> pc'[d]] /\ doc' = [d \in Calls |-> doc'[d]]
      /\ email' = [d \in Calls |-> email'[d]] /\ spent' \in [Kinds -> Nat]
  BY ResumeSteps, ResumeKeepsUser DEF AccountInv
<1> QED BY <1>1, <1>2, <1>3 DEF AccountInv

LEMMA AccountInvNext == AccountInv /\ PermitInv /\ [Next]_vars => AccountInv'
<1> SUFFICES ASSUME AccountInv, PermitInv, [Next]_vars PROVE AccountInv'
  OBVIOUS
<1>1. ASSUME NEW c \in Calls, Stop(c) PROVE AccountInv'
  <2>1. spent' \in [Kinds -> Nat]
    BY <1>1 DEF Stop, Spend, AccountInv, Kinds
  <2>2. /\ pc' = [pc EXCEPT ![c] = "ended"] /\ doc' = [doc EXCEPT ![c] = Nil]
        /\ email' = [email EXCEPT ![c] = Nil] /\ UNCHANGED stores
    BY <1>1 DEF Stop, Leave, Move
  <2> QED BY <2>1, <2>2 DEF AccountInv, stores
<1>2. CASE ExpireProfile
  BY <1>2 DEF ExpireProfile, AccountInv, locals
<1>3. CASE Expire
  <2>1. spent' \in [Kinds -> Nat]
    BY <1>3 DEF Expire, Spend, AccountInv, Kinds
  <2>2. /\ UNCHANGED <<user, cache, pc, doc, email>>
        /\ session' \in {session, Nil} /\ verifier' \in {verifier, Nil}
        /\ \A e \in Emails : permit'[e] \in {permit[e], Nil}
    BY <1>3 DEF Expire, locals, PermitInv, Functions
  <2> QED BY <2>1, <2>2 DEF AccountInv
<1>4. CASE UNCHANGED vars
  BY <1>4 DEF vars, stores, locals, AccountInv
<1> QED BY <1>1, <1>2, <1>3, <1>4, AcceptKeepsAccount, ResumeKeepsAccount DEF Next

-----------------------------------------------------------------------------
(* The session and the cached profile *)

CurrentInv == AccountInv /\ PermitInv /\ SessionIsCurrent /\ CacheIsCurrent

\* A step that changes neither the document nor what is derived from it, of a
\* call that is not at work on replacing it.
LEMMA CurrentStutter ==
  ASSUME SessionIsCurrent, CacheIsCurrent, UNCHANGED user,
         session' \in {session, Nil}, cache' \in {cache, Nil},
         Undisturbed' => Undisturbed,
         \A c \in Calls : pc[c] \in {"dropPermit", "dropCached", "dropSession", "dropProfile"}
                             => pc'[c] = pc[c]
  PROVE  SessionIsCurrent' /\ CacheIsCurrent'
  BY DEF SessionIsCurrent, CacheIsCurrent, VerifiedSince

\* The steps of a call that has more to do than go on.
Writes(c) ==
    \/ Create(c) \/ SaveVerified(c) \/ Write(c) \/ SavePassword(c)
    \/ StoreSession(c) \/ Fill(c)
    \/ DropPermit(c) \/ DropCache(c) \/ DropSession(c)

LEMMA OtherSteps ==
  ASSUME AccountInv, NEW c \in Calls, Resume(c), ~Writes(c)
  PROVE  /\ UNCHANGED <<user, session, cache>>
         /\ spent'["stop"] = spent["stop"]
         /\ pc[c] \notin {"dropPermit", "dropCached", "dropSession", "dropProfile"}
         /\ \E to : pc' = [pc EXCEPT ![c] = to]
<1> USE DEF Finish, Leave, Proceed, Move, ReadInto, stores
<1>1. CASE StoreVerifier(c) \/ ReadUnverified(c) \/ DropVerifier(c) \/ GetCached(c)
  BY <1>1 DEF StoreVerifier, ReadUnverified, DropVerifier, GetCached
<1>2. CASE ReadUser(c) \/ StoreOtp(c) \/ TakeBackOtp(c) \/ GetOtp(c) \/ DropOtp(c)
  BY <1>2 DEF ReadUser, StoreOtp, TakeBackOtp, GetOtp, DropOtp
<1>3. CASE MailOtp(c)
  BY <1>3 DEF MailOtp, Spend, AccountInv, Kinds
<1>4. CASE StorePermit(c) \/ ReadForChange(c)
  BY <1>4 DEF StorePermit, ReadForChange
<1> QED BY <1>1, <1>2, <1>3, <1>4 DEF Resume, Writes

LEMMA WritesKeepCurrent ==
  ASSUME CurrentInv, NEW c \in Calls, Writes(c)
  PROVE  SessionIsCurrent' /\ CacheIsCurrent'
<1> USE DEF CurrentInv, SessionIsCurrent, CacheIsCurrent, VerifiedSince, Undisturbed,
            Finish, Leave, Proceed, Move
<1>0. pc = [d \in Calls |-> pc[d]] /\ user \in Documents \cup {Nil}
  BY DEF AccountInv
<1>1. CASE Create(c)
  <2>1. CASE user = Nil
    <3>1. session' = Nil /\ cache' = Nil
      BY <1>1, <2>1 DEF Create, AccountInv
    <3> QED BY <3>1
  <2>2. CASE user # Nil
    BY <1>0, <1>1, <2>2 DEF Create
  <2> QED BY <2>1, <2>2
<1>2. CASE SaveVerified(c)
  <2>1. user \in Documents
    BY <1>0, <1>2 DEF SaveVerified, AccountInv
  <2>2. /\ user'.password = user.password /\ user'.email = user.email /\ user'.verified = TRUE
        /\ UNCHANGED <<session, cache, spent>>
        /\ pc[c] = "saveVerified" /\ pc' = [pc EXCEPT ![c] = "dropVerifier"]
    BY <1>2, <2>1 DEF SaveVerified, Documents
  <2>3. user.verified \in BOOLEAN
    BY <2>1 DEF Documents
  <2> QED BY <1>0, <2>2, <2>3
<1>3. CASE Write(c)
  <2>1. user \in Documents
    BY <1>0, <1>3 DEF Write, AccountInv
  <2>2. /\ user'.password = user.password
        /\ UNCHANGED <<session, cache, spent>>
        /\ pc[c] = "write" /\ pc' = [pc EXCEPT ![c] = "dropProfile"]
    BY <1>3, <2>1 DEF Write, Documents
  <2> QED BY <1>0, <2>2
<1>4. CASE SavePassword(c)
  <2>1. user \in Documents
    BY <1>0, <1>4 DEF SavePassword, AccountInv
  <2>2. /\ user'.email = user.email /\ user'.verified = user.verified
        /\ UNCHANGED <<session, cache, spent>>
        /\ pc[c] = "savePassword" /\ pc' = [pc EXCEPT ![c] = "dropPermit"]
    BY <1>4, <2>1 DEF SavePassword, Documents
  <2> QED BY <1>0, <2>2
<1>5. CASE StoreSession(c)
  <2>1. /\ session'.password = doc[c].password
        /\ ~session'.late => doc[c].password = user.password
        /\ UNCHANGED <<user, cache, spent>>
        /\ pc[c] = "storeSession" /\ pc' = [pc EXCEPT ![c] = "fill"]
    BY <1>5 DEF StoreSession
  <2> QED BY <1>0, <2>1
<1>6. CASE Fill(c)
  <2>1. /\ cache'.email = doc[c].email /\ cache'.verified = doc[c].verified
        /\ ~cache'.late => doc[c].email = user.email /\ doc[c].verified = user.verified
        /\ UNCHANGED <<user, session, spent>>
        /\ pc[c] = "fill" /\ pc' = [pc EXCEPT ![c] = "done"]
    BY <1>6 DEF Fill
  <2> QED BY <1>0, <2>1
<1>7. CASE DropPermit(c)
  BY <1>0, <1>7 DEF DropPermit
<1>8. CASE DropCache(c)
  <2>1. /\ cache' = Nil /\ UNCHANGED <<user, session, spent>>
        /\ \/ pc[c] = "dropCached" /\ pc' = [pc EXCEPT ![c] = "dropSession"]
           \/ pc[c] \in {"dropCache", "dropProfile"} /\ pc' = [pc EXCEPT ![c] = "done"]
    BY <1>8 DEF DropCache, Dropped
  <2> QED BY <1>0, <2>1
<1>9. CASE DropSession(c)
  BY <1>0, <1>9 DEF DropSession, DroppedSession
<1> QED BY <1>1, <1>2, <1>3, <1>4, <1>5, <1>6, <1>7, <1>8, <1>9 DEF Writes

LEMMA CurrentInvNext == CurrentInv /\ [Next]_vars => CurrentInv'
<1> SUFFICES ASSUME CurrentInv, [Next]_vars
             PROVE  SessionIsCurrent' /\ CacheIsCurrent'
  BY AccountInvNext, PermitInvNext DEF CurrentInv, AccountInv
<1>0. AccountInv /\ SessionIsCurrent /\ CacheIsCurrent
  BY DEF CurrentInv
<1>1. ASSUME NEW c \in Calls, Accept(c) PROVE SessionIsCurrent' /\ CacheIsCurrent'
  <2>1. /\ UNCHANGED <<user, cache, spent>> /\ session' \in {session, Nil}
        /\ pc[c] = "idle" /\ \E to : pc' = [pc EXCEPT ![c] = to]
    BY <1>1 DEF Accept, Begin, Register, UpdateProfile, ChangePassword, Resend, Verify,
           Login, Logout, Refresh, Authenticate, Forgot, VerifyOtp, stores
  <2>2. \A d \in Calls : d # c => pc'[d] = pc[d]
    BY <1>0, <2>1 DEF AccountInv
  <2> QED BY <1>0, <2>1, <2>2, CurrentStutter DEF Undisturbed
<1>2. ASSUME NEW c \in Calls, Resume(c) PROVE SessionIsCurrent' /\ CacheIsCurrent'
  <2>1. CASE Writes(c)
    BY <2>1, WritesKeepCurrent
  <2>2. CASE ~Writes(c)
    <3>1. \A d \in Calls : d # c => pc'[d] = pc[d]
      BY <1>0, <1>2, <2>2, OtherSteps DEF AccountInv
    <3> QED BY <1>0, <1>2, <2>2, <3>1, OtherSteps, CurrentStutter DEF Undisturbed
  <2> QED BY <2>1, <2>2
<1>3. ASSUME NEW c \in Calls, Stop(c) PROVE SessionIsCurrent' /\ CacheIsCurrent'
  <2>1. ~Undisturbed'
    BY <1>0, <1>3 DEF Stop, Spend, Undisturbed, AccountInv, Kinds
  <2> QED BY <2>1 DEF SessionIsCurrent, CacheIsCurrent
<1>4. CASE ExpireProfile \/ Expire
  <2>1. /\ UNCHANGED <<user, pc>> /\ session' \in {session, Nil} /\ cache' \in {cache, Nil}
        /\ spent'["stop"] = spent["stop"]
    BY <1>0, <1>4 DEF ExpireProfile, Expire, Spend, AccountInv, Kinds
  <2> QED BY <1>0, <2>1, CurrentStutter DEF Undisturbed
<1>5. CASE UNCHANGED vars
  BY <1>0, <1>5, CurrentStutter DEF vars, stores, Undisturbed
<1> QED BY <1>1, <1>2, <1>3, <1>4, <1>5 DEF Next

LEMMA CurrentInvInit == Init => CurrentInv
<1> SUFFICES ASSUME Init PROVE SessionIsCurrent /\ CacheIsCurrent
  BY AccountInvInit, PermitInvInit DEF CurrentInv
<1>1. user # Nil => user.password = Before /\ user.verified = TRUE
  BY DEF Init
<1>2. session # Nil => session.password = Before /\ user # Nil
  BY DEF Init
<1>3. cache # Nil => cache.email = user.email /\ cache.verified = TRUE /\ user # Nil
  BY DEF Init
<1> QED BY <1>1, <1>2, <1>3 DEF SessionIsCurrent, CacheIsCurrent

(* While no call dies halfway, the stored refresh token and the cached     *)
(* profile are older than the account only as SessionIsCurrent and         *)
(* CacheIsCurrent list (auth.service.js, changePasswordService,            *)
(* getCachedUser and the callers of invalidateUserCache).                  *)
THEOREM KeysCurrent == Spec => []KeysAreCurrent
<1>1. CurrentInv => KeysAreCurrent
  BY DEF CurrentInv, KeysAreCurrent
<1> QED BY <1>1, CurrentInvInit, CurrentInvNext, PTL DEF Spec

-----------------------------------------------------------------------------
(* Types                                                                   *)

StepsOfCalls == Steps \cup {"idle", "done", "ended"}

LEMMA TypesInit == Init => TypeOK
<1> SUFFICES ASSUME Init PROVE TypeOK
  OBVIOUS
<1>1. user \in Documents \cup {Nil}
  BY AccountInvInit DEF AccountInv
<1>2. session \in Tokens \cup {Nil}
  <2>1. CASE session = Nil
    BY <2>1
  <2>2. CASE session # Nil
    <3>1. session = [by |-> Before, password |-> Before, late |-> FALSE]
      BY <2>2 DEF Init
    <3> QED BY <3>1 DEF Tokens, Ids
  <2> QED BY <2>1, <2>2
<1>3. cache \in Profiles \cup {Nil}
  <2>1. CASE cache = Nil
    BY <2>1
  <2>2. CASE cache # Nil
    <3>1. user \in Documents /\ cache = [email |-> user.email, verified |-> TRUE, late |-> FALSE]
      BY <1>1, <2>2 DEF Init
    <3> QED BY <3>1 DEF Documents, Profiles
  <2> QED BY <2>1, <2>2
<1>4. otp \in [Emails -> Ids \cup {Nil}] /\ permit \in [Emails -> Permits \cup {Nil}]
  <2>1. [otp |-> Before, again |-> FALSE] \in Permits
    BY DEF Permits, Ids
  <2> QED BY <2>1 DEF Init, Ids
<1>5. granted \in SUBSET Ids /\ changed \in SUBSET Ids /\ cut \in SUBSET Ids
  BY DEF Init, Ids
<1> QED BY <1>1, <1>2, <1>3, <1>4, <1>5 DEF Init, TypeOK, Ids

\* Calls are accepted with what was read from typed stores.
LEMMA AcceptTypes ==
  ASSUME TypeOK, NEW c \in Calls, Accept(c)
  PROVE  TypeOK'
<1>1. PICK step \in Steps, d \in Documents \cup {Nil}, e \in Emails \cup {Nil},
           k \in Ids \cup {Nil} : Begin(c, step, d, e, k)
  <2>1. user # Nil => user \in Documents /\ user.email \in Emails
    BY DEF TypeOK, Documents
  <2>2. session # Nil => session.by \in Ids
    BY DEF TypeOK, Tokens
  <2>3. \A e \in Emails : /\ otp[e] \in Ids \cup {Nil}
                          /\ permit[e] # Nil => permit[e].otp \in Ids
    BY DEF TypeOK, Permits
  <2>4. verifier \in Ids \cup {Nil}
    BY DEF TypeOK
  <2>5. CASE \E e \in Emails : Register(c, e) \/ UpdateProfile(c, e) \/ ChangePassword(c, e)
    BY <2>3, <2>5 DEF Register, UpdateProfile, ChangePassword, Steps
  <2>6. CASE Resend(c) \/ Verify(c) \/ Login(c) \/ Logout(c)
    BY <2>1, <2>4, <2>6 DEF Resend, Verify, Login, Logout, Steps
  <2>7. CASE Refresh(c) \/ Authenticate(c) \/ Forgot(c) \/ VerifyOtp(c)
    BY <2>1, <2>2, <2>3, <2>7 DEF Refresh, Authenticate, Forgot, VerifyOtp, Steps
  <2> QED BY <2>5, <2>6, <2>7 DEF Accept
<1>2. /\ UNCHANGED <<user, verifier, cache, otp, permit>> /\ session' \in {session, Nil}
  BY DEF Accept, Register, UpdateProfile, ChangePassword, Resend, Verify, Login, Logout,
         Refresh, Authenticate, Forgot, VerifyOtp, stores
<1> QED BY <1>1, <1>2 DEF Begin, TypeOK, Steps, history

\* What a call that goes on, or ends, keeps in its variables.
LEMMA ResumeLocals ==
  ASSUME TypeOK, NEW c \in Calls, Resume(c)
  PROVE  /\ pc' \in [Calls -> StepsOfCalls]
         /\ doc' \in [Calls -> Documents \cup {Nil}]
         /\ email' \in [Calls -> Emails \cup {Nil}]
         /\ key' \in [Calls -> Ids \cup {Nil}]
<1> USE DEF TypeOK, StepsOfCalls, Steps, Finish, Leave, Proceed, Move, ReadInto, locals
<1>1. CASE Create(c) \/ StoreVerifier(c) \/ ReadUnverified(c) \/ SaveVerified(c)
  BY <1>1 DEF Create, StoreVerifier, ReadUnverified, SaveVerified
<1>2. CASE DropVerifier(c) \/ StoreSession(c) \/ Fill(c) \/ GetCached(c) \/ ReadUser(c)
  BY <1>2 DEF DropVerifier, StoreSession, Fill, GetCached, ReadUser
<1>3. CASE Write(c) \/ DropCache(c) \/ StoreOtp(c) \/ MailOtp(c) \/ TakeBackOtp(c)
  BY <1>3 DEF Write, DropCache, StoreOtp, MailOtp, TakeBackOtp
<1>4. CASE GetOtp(c) \/ DropOtp(c) \/ StorePermit(c) \/ ReadForChange(c)
  BY <1>4 DEF GetOtp, DropOtp, StorePermit, ReadForChange
<1>5. CASE SavePassword(c) \/ DropPermit(c) \/ DropSession(c)
  BY <1>5 DEF SavePassword, DropPermit, DropSession
<1> QED BY <1>1, <1>2, <1>3, <1>4, <1>5 DEF Resume

\* What it leaves in the stores.
LEMMA ResumeStores ==
  ASSUME TypeOK, AccountInv, PermitInv, NEW c \in Calls, Resume(c)
  PROVE  /\ session' \in Tokens \cup {Nil} /\ verifier' \in Ids \cup {Nil}
         /\ cache' \in Profiles \cup {Nil}
         /\ otp' \in [Emails -> Ids \cup {Nil}]
         /\ permit' \in [Emails -> Permits \cup {Nil}]
         /\ granted' \in SUBSET Ids /\ changed' \in SUBSET Ids /\ cut' \in SUBSET Ids
<1> USE DEF TypeOK, Ids, Finish, Leave, Proceed, Move, ReadInto, stores, history
<1>1. CASE Create(c) \/ StoreVerifier(c) \/ ReadUnverified(c) \/ SaveVerified(c)
  BY <1>1 DEF Create, StoreVerifier, ReadUnverified, SaveVerified
<1>2. CASE StoreSession(c)
  <2>1. doc[c] \in Documents
    BY <1>2 DEF StoreSession, AccountInv
  <2>2. doc[c].password \in Ids /\ (doc[c].password # user.password) \in BOOLEAN
    BY <2>1 DEF Documents
  <2>3. session' \in Tokens
    BY <1>2, <2>2 DEF StoreSession, Tokens
  <2> QED BY <1>2, <2>3 DEF StoreSession
<1>3. CASE Fill(c)
  <2>1. doc[c] \in Documents
    BY <1>3 DEF Fill, AccountInv
  <2>2. /\ doc[c].email \in Emails /\ doc[c].verified \in BOOLEAN
        /\ (doc[c].email # user.email \/ doc[c].verified # user.verified) \in BOOLEAN
    BY <2>1 DEF Documents
  <2>3. cache' \in Profiles
    BY <1>3, <2>2 DEF Fill, Profiles
  <2> QED BY <1>3, <2>3 DEF Fill
<1>4. CASE DropVerifier(c) \/ GetCached(c) \/ ReadUser(c) \/ Write(c) \/ DropCache(c)
  BY <1>4 DEF DropVerifier, GetCached, ReadUser, Write, DropCache, Dropped
<1>5. CASE StoreOtp(c) \/ MailOtp(c) \/ TakeBackOtp(c) \/ GetOtp(c) \/ DropOtp(c)
  BY <1>5 DEF StoreOtp, MailOtp, TakeBackOtp, GetOtp, DropOtp
<1>6. CASE ReadForChange(c) \/ DropSession(c) \/ DropPermit(c)
  BY <1>6 DEF ReadForChange, DropSession, DroppedSession, DropPermit, DroppedPermit
<1>7. CASE SavePassword(c)
  <2>1. key[c] \in Ids
    BY <1>7 DEF SavePassword, PermitInv, Holding
  <2> QED BY <1>7, <2>1 DEF SavePassword
<1>8. CASE StorePermit(c)
  <2>1. key[c] \in Ids
    BY <1>8 DEF StorePermit, PermitInv, Verifying
  <2>2. [otp |-> key[c], again |-> key[c] \in granted] \in Permits
    BY <2>1 DEF Permits
  <2> QED BY <1>8, <2>1, <2>2 DEF StorePermit
<1> QED BY <1>1, <1>2, <1>3, <1>4, <1>5, <1>6, <1>7, <1>8 DEF Resume

LEMMA TypesNext ==
  TypeOK /\ AccountInv /\ PermitInv /\ AccountInv' /\ [Next]_vars => TypeOK'
<1> SUFFICES ASSUME TypeOK, AccountInv, PermitInv, AccountInv', [Next]_vars PROVE TypeOK'
  OBVIOUS
<1>1. ASSUME NEW c \in Calls, Accept(c) PROVE TypeOK'
  BY <1>1, AcceptTypes
<1>2. ASSUME NEW c \in Calls, Resume(c) PROVE TypeOK'
  BY <1>2, ResumeLocals, ResumeStores DEF TypeOK, AccountInv, StepsOfCalls
<1>3. user' \in Documents \cup {Nil} /\ spent' \in [Kinds -> Nat]
  BY DEF AccountInv
<1>4. ASSUME NEW c \in Calls, Stop(c) PROVE TypeOK'
  <2>1. pc' \in [Calls -> Steps \cup {"idle", "done", "ended"}]
    BY <1>4 DEF Stop, Leave, Move, TypeOK
  <2>2. cut' \in SUBSET Ids
    BY <1>4 DEF Stop, TypeOK, PermitInv, Holding
  <2> QED BY <1>3, <1>4, <2>1, <2>2 DEF Stop, Leave, Move, stores, TypeOK
<1>5. CASE ExpireProfile
  BY <1>5 DEF ExpireProfile, TypeOK, locals, history
<1>6. CASE Expire
  BY <1>3, <1>6 DEF Expire, TypeOK, locals, history
<1>7. CASE UNCHANGED vars
  BY <1>7 DEF vars, stores, locals, history, TypeOK
<1> QED BY <1>1, <1>2, <1>4, <1>5, <1>6, <1>7 DEF Next

\* Whatever keys expire, calls overlap or die, one OTP serves one change of
\* password, but for the permits OtpServesOnce names, and every store and call
\* keeps its type (auth.service.js, verifyOTPService and changePasswordService),
\* for any number of calls and addresses.
THEOREM PermitsAreSound == Spec => []SessionInv
<1>1. TypeOK /\ PermitInv => SessionInv
  BY DEF PermitInv, SessionInv
<1>2. AccountInv => user \in Documents \cup {Nil}
  BY DEF AccountInv
<1> QED
  BY <1>1, <1>2, TypesInit, TypesNext, AccountInvInit, AccountInvNext, PermitInvInit,
     PermitInvNext, PTL DEF Spec
=============================================================================
