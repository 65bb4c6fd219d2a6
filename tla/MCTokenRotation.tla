-------------------------- MODULE MCTokenRotation ---------------------------
(* Two requests at a time, which is what a command of one can fall between;  *)
(* two sessions kept in the list instead of ten. Requests are symmetric.     *)
EXTENDS TokenRotation, TLC

CONSTANTS r1, r2

Symm == Permutations(Requests)
=============================================================================
