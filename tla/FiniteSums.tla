----------------------------- MODULE FiniteSums -----------------------------
(***************************************************************************)
(* Adding up what a function says of the members of a finite set.          *)
(***************************************************************************)
EXTENDS FiniteSetsExt

Sum(w, S) == MapThenSumSet(LAMBDA x : w[x], S)
=============================================================================
