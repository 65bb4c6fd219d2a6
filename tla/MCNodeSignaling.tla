-------------------------- MODULE MCNodeSignaling ---------------------------
(* Alice has two connections, Bob has one; one of Alice's has tokens of both,*)
(* as after a logout and a login on one device.                              *)
EXTENDS NodeSignaling, TLC

CONSTANTS alice, bob, a1, a2, b1

TokensOf == (a1 :> {alice, bob}) @@ (a2 :> {alice}) @@ (b1 :> {bob})

(* Users are interchangeable with the sessions that are only theirs. *)
Only == (alice :> a2) @@ (bob :> b1)
Symm == {p @@ (Only[alice] :> Only[p[alice]]) @@ (Only[bob] :> Only[p[bob]])
           : p \in Permutations(Users)}
=============================================================================
