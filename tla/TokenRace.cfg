CONSTANTS
  r1 = r1
  r2 = r2
  Requests = {r1, r2}
  MaxSessions = 2
  MaxTokens = 3
SPECIFICATION Spec
INVARIANT TypeOK
INVARIANT TrackedUnlessLost
INVARIANT DeletedIsDead
INVARIANT DoubledIsRaced
PROPERTY AccusedIsSpent
PROPERTY RevokeAllLeavesLost
SYMMETRY Symm
