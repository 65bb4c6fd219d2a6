--------------------------- MODULE MCCallSignaling --------------------------
(* A user with a session on each of two instances, and a peer; one session   *)
(* authenticates as either of them, as often as it likes.                    *)
EXTENDS CallSignaling, TLC

CONSTANTS alice, bob, i1, i2, a1, a2, b1

PresentsOf == (a1 :> {alice, bob}) @@ (a2 :> {alice}) @@ (b1 :> {bob})
HostOf  == (a1 :> i1) @@ (a2 :> i2) @@ (b1 :> i2)
=============================================================================
