--------------------------- MODULE MCCollaboration ---------------------------
(***************************************************************************)
(* Finite values of Collaboration's constants: three calls on one of the   *)
(* parts at a time.                                                        *)
(***************************************************************************)
EXTENDS Collaboration, TLC

CONSTANTS c1, c2, c3, b, o, a, g1, n1, n2, m1, m2

OneAtATime == {{s} : s \in Subjects}

\* Calls are told apart by nothing but their names.
CallSymmetry == Permutations({c1, c2, c3})
=============================================================================
