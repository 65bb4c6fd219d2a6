-------------------------- MODULE MCRoomSignaling --------------------------
(* A host and two guests; the host may open its own link as well, and the    *)
(* client of one guest sends frames that are the host's to send.             *)
EXTENDS RoomSignaling

CONSTANTS host, guest, other

AllUsers == {host, guest, other}
Senders  == {host, guest}
=============================================================================
