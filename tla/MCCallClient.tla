---------------------------- MODULE MCCallClient ----------------------------
(* Two users who call each other; nothing tells them apart. *)
EXTENDS CallClient, TLC

CONSTANTS alice, bob

Both     == {alice, bob}
Symmetry == Permutations(Both)
=============================================================================
