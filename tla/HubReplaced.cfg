CONSTANTS
  alice = alice
  bob = bob
  i1 = i1
  i2 = i2
  a1 = a1
  a2 = a2
  a3 = a3
  b1 = b1
  NoSocket = NoSocket
  Users = {alice, bob}
  Instances = {i1, i2}
  Sockets = {a1, a2, b1}
  NoUser = NoUser
  Presents <- PresentsA
  Host <- HostA
  Faulty = {}
  MaxMsgs = 2
SPECIFICATION Spec
CHECK_DEADLOCK FALSE
INVARIANT TypeOK
INVARIANT DeadEntryIsStray
INVARIANT UnreachableIsExplained
INVARIANT AtMostOnce
INVARIANT CrossInstanceOrder
