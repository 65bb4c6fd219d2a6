--------------------------- MODULE MCSignalingHub ---------------------------
(* Two instances. Alice connects twice to the first instance (a reconnect or *)
(* a second device behind the same balancer choice) and Bob to the second;   *)
(* on one of her connections Bob signs in as well, before or after her.      *)
(* HubB puts a session of Alice on Bob's instance instead. Sessions are not  *)
(* symmetric: their tokens and hosts differ.                                 *)
EXTENDS SignalingHub, TLC

CONSTANTS alice, bob, i1, i2, a1, a2, a3, b1

PresentsA == (a1 :> {alice, bob}) @@ (a2 :> {alice}) @@ (b1 :> {bob})
HostA     == (a1 :> i1) @@ (a2 :> i1) @@ (b1 :> i2)

PresentsB == (a1 :> {alice, bob}) @@ (a3 :> {alice}) @@ (b1 :> {bob})
HostB     == (a1 :> i1) @@ (a3 :> i2) @@ (b1 :> i2)
=============================================================================
