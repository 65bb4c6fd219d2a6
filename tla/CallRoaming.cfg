CONSTANTS
  alice = alice
  bob = bob
  i1 = i1
  i2 = i2
  a1 = a1
  a2 = a2
  b1 = b1
  NoSession = NoSession
  Users = {alice, bob}
  Instances = {i1, i2}
  Sessions = {a1, a2, b1}
  Presents <- PresentsOf
  Host <- HostOf
  Faulty = {i1}
  Lapsing = {alice, bob}
  MaxCalls = 2
SPECIFICATION Spec
CHECK_DEADLOCK FALSE
INVARIANT TypeOK
INVARIANT CallerMarkHasSession
INVARIANT RungIsMarked
