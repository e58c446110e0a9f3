---------------------------- MODULE MCTimeConsent ----------------------------
(* Two actions of two players in a party of three.                           *)
EXTENDS TimeConsent, TLC

CONSTANTS p1, p2, p3, a1, a2

MCRequester == (a1 :> p1) @@ (a2 :> p2)

Symmetry == Permutations(Calls) \cup Permutations(Workers)
=============================================================================
