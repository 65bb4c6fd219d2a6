CONSTANTS
  alice = alice
  bob = bob
  a1 = a1
  a2 = a2
  b1 = b1
  NoUser = NoUser
  NoSocket = NoSocket
  Users = {alice, bob}
  Sockets = {a1, a2, b1}
  Presents <- TokensOf
  MaxCalls = 2
SPECIFICATION Spec
CHECK_DEADLOCK FALSE
SYMMETRY Symm
INVARIANT TypeOK
INVARIANT CallIsHeld
INVARIANT UnreachableIsRobbed
INVARIANT GhostsAreStray
