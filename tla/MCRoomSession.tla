---------------------------- MODULE MCRoomSession ----------------------------
(* Two players, an item on the floor that one of them picks up and drops, an *)
(* ending draft, and two transactions at a time.                             *)
EXTENDS RoomSession, TLC

Symmetry == Permutations(Players) \cup Permutations(Workers)
=============================================================================
