---------------------------- MODULE MCActionPlan ----------------------------
(* The rooms that are checked. *)
EXTENDS ActionPlan, TLC

Symmetry == Permutations(Plans) \cup Permutations(Workers)
=============================================================================
