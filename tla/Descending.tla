------------------------------ MODULE Descending ------------------------------
(* ORDER BY ... DESC: the elements of a finite set of numbers, greatest first. *)
EXTENDS Naturals, FiniteSets

Descends(q, S) ==
  /\ {q[i] : i \in DOMAIN q} = S
  /\ \A i, j \in DOMAIN q : i < j => q[i] > q[j]

Descending(S) == CHOOSE q \in [1..Cardinality(S) -> S] : Descends(q, S)
=============================================================================
