---------------------------- MODULE MCContactBook ----------------------------
(* Two users and a link that either may generate; three tasks, so that a     *)
(* block, a request and an invite can overlap. Tasks are symmetric, and so   *)
(* are users.                                                                *)
EXTENDS ContactBook, TLC

CONSTANTS alice, bob, r1, r2, r3, l1

Symm == Permutations(Requests) \cup Permutations(Users)
=============================================================================
