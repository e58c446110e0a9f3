---------------------------- MODULE MCRoomClient ----------------------------
(* RoomClient on a small instance; see RoomClient.cfg. *)
EXTENDS RoomClient
=============================================================================
