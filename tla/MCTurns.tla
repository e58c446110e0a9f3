------------------------------ MODULE MCTurns -------------------------------
(* Two players with a socket each, one of them with a second one, and an    *)
(* action of one of them: several handlers can be at the same action, other *)
(* commits can come between, and a lock can expire under its holder.  With  *)
(* Actions = {look, open_door} each player has one.                         *)
EXTENDS Turns, TLC

CONSTANTS ann, ben, s1, s2, s3, look, open_door

MCPlayerOf == [l \in Loops |-> IF l = s3 THEN ben ELSE ann]
MCOwner == [a \in Actions |-> IF a = look THEN ann ELSE ben]

\* The two sockets of one player are interchangeable.
Symmetry == Permutations({s1, s2})
=============================================================================
