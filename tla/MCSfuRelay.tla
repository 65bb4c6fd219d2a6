----------------------------- MODULE MCSfuRelay -----------------------------
(* Alice has two connections, Bob has one, and each may come back; there is  *)
(* one room, for one (it is full while somebody waits for a place), for two  *)
(* or for three (somebody joins again while the other one is there).         *)
EXTENDS SfuRelay, TLC

CONSTANTS alice, bob, a1, a2, b1, room

OwnerOf == (a1 :> alice) @@ (a2 :> alice) @@ (b1 :> bob)
=============================================================================
