--------------------------- MODULE MCAdjudication ---------------------------
(* Two actions of one player's actor: six commits roll both checks and settle *)
(* both from one balance of luck, unless the host ends the game before.       *)
EXTENDS Adjudication, TLC

CONSTANTS p1, a1, a2, k1, k2, k3, k4, w1, w2

MCOwner == (a1 :> p1) @@ (a2 :> p1)

Symmetry == Permutations(Workers) \cup Permutations(Clicks)
=============================================================================
