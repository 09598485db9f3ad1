----------------------------- MODULE MCRoomStream -----------------------------
(* Two users, a channel of two frames and a log of a few. *)
EXTENDS RoomStream

CONSTANTS u1, u2

TwoUsers == {u1, u2}
OneWatcher == {u1}
=============================================================================
