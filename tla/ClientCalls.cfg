CONSTANTS
  alice = alice
  bob = bob
  NoUser = NoUser
  Users <- Both
  Forms = {"map", "string"}
  MaxCalls = 2
  MaxMail = 2
SPECIFICATION Spec
SYMMETRY Symmetry
CHECK_DEADLOCK FALSE
INVARIANT TypeOK
INVARIANT AnsweredIsAccepted
INVARIANT LeaksAreCut
INVARIANT StuckIsLate
INVARIANT BusyVideoIsLeft
INVARIANT CallingIsTimed
