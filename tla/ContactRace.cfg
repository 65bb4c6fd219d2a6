CONSTANTS
  alice = alice
  bob = bob
  r1 = r1
  r2 = r2
  r3 = r3
  l1 = l1
  NoUser = NoUser
  Users = {alice, bob}
  Requests = {r1, r2, r3}
  Links = {l1}
  MaxOverdraft = 2
SPECIFICATION Spec
INVARIANT TypeOK
INVARIANT CallableIsAgreed
INVARIANT FirmIsCallable
INVARIANT BarredStaysOut
INVARIANT OverdrawnIsShared
SYMMETRY Symm
