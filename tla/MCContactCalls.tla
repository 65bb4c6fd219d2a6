--------------------------- MODULE MCContactCalls ---------------------------
(* Two users with a session each, one call between them, one contact request *)
(* or block under way and one invite link.                                   *)
EXTENDS ContactCalls, TLC

CONSTANTS alice, bob, i1, a1, b1, r1, l1

PresentsOf == (a1 :> {alice}) @@ (b1 :> {bob})
HostOf  == (a1 :> i1) @@ (b1 :> i1)

(* Users are interchangeable with their sessions. *)
SessionOf == (alice :> a1) @@ (bob :> b1)
Symm == {p @@ [s \in Sessions |-> SessionOf[p[CHOOSE u \in PresentsOf[s] : TRUE]]] :
           p \in Permutations(Users)}
=============================================================================
