------------------------------ MODULE MCRoomPage ------------------------------
EXTENDS RoomPage
=============================================================================
