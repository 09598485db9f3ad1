----------------------------- MODULE MCRoomMemory -----------------------------
(* Two rooms share a ceiling of a few messages; the picture budget holds one *)
(* picture of the larger size.                                               *)
EXTENDS RoomMemory

CONSTANTS main, side, e1, e2, u1

MCRooms == {main, side}
MCEmojis == {e1, e2}
MCReactors == {u1}
=============================================================================
