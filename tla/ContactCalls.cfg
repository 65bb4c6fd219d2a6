CONSTANTS
  alice = alice
  bob = bob
  i1 = i1
  a1 = a1
  b1 = b1
  NoSession = NoSession
  NoUser = NoUser
  r1 = r1
  l1 = l1
  Users = {alice, bob}
  Instances = {i1}
  Sessions = {a1, b1}
  Presents <- PresentsOf
  Host <- HostOf
  Faulty = {}
  Lapsing = {}
  MaxCalls = 1
  Requests = {r1}
  Links = {l1}
  MaxOverdraft = 0
SPECIFICATION BothSpec
CHECK_DEADLOCK FALSE
PROPERTY RungByAgreement
SYMMETRY Symm
