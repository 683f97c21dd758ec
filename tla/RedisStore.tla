----------------------------- MODULE RedisStore -----------------------------
(***************************************************************************)
(* The Redis commands and Lua scripts the payout code runs on one key.     *)
(* Redis runs each of them alone, so each is a function from the value of  *)
(* the key to its next value.  Nil is the value of a missing key.  Money   *)
(* is counted in minor units (cents); Unit is how many make one whole      *)
(* unit, which matters because Redis turns the number a script returns     *)
(* into an integer.                                                        *)
(***************************************************************************)
EXTENDS Integers

CONSTANTS Nil, Unit

ASSUME RedisAssumption == Unit \in Nat \ {0} /\ Nil \notin Int

-----------------------------------------------------------------------------
(* Locks: SET key token PX ttl NX, and the compare-and-delete script.      *)

SetNX_Overwrite(key, token) == token
SetNX(key, token) == IF key = Nil THEN token ELSE key

CompareAndDelete_NoCompare(key, token) == Nil
CompareAndDelete_Never(key, token) == key
CompareAndDelete(key, token) == IF key = token THEN Nil ELSE key

-----------------------------------------------------------------------------
(* Balances.                                                               *)

\* deductBalance succeeds only on a present key that covers the amount:
\* otherwise the script returns nil or -1 and the caller throws.
CanDeduct_Unchecked(balance, amount) == balance # Nil
CanDeduct(balance, amount) == balance # Nil /\ balance >= amount

Deducted(balance, amount) == balance - amount

\* The balance deductBalance reports: the script stores the exact string but
\* its number reply loses the fraction.
ScriptReply(balance) == (balance \div Unit) * Unit

\* addBalance: nil, and an exception in the caller, when the key is missing.
Credited(balance, amount) == IF balance = Nil THEN Nil ELSE balance + amount
=============================================================================
