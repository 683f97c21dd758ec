----------------------------- MODULE MCServices -----------------------------
(***************************************************************************)
(* Finite values of the services' constants: each service by itself.       *)
(***************************************************************************)
EXTENDS Services, TLC

CONSTANTS i1, i2, s1, s2, u1, u2

EachAlone == {{p} : p \in {"webhooks", "realtime", "wallets", "lookups", "ai", "broker"}}

\* What the largest part tells apart by nothing but its name.
NameSymmetry ==
    Permutations({i1, i2}) \cup Permutations({s1, s2}) \cup Permutations({u1, u2})
=============================================================================
