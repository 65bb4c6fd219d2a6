CONSTANTS
  alice = alice
  bob = bob
  a1 = a1
  a2 = a2
  b1 = b1
  room = room
  NoSession = NoSession
  Users = {alice, bob}
  Sessions = {a1, a2, b1}
  Rooms = {room}
  Owner <- OwnerOf
  Limits = {1, 2, 3}
SPECIFICATION FairSpec
CHECK_DEADLOCK FALSE
INVARIANT TypeOK
INVARIANT RoomSizes
INVARIANT PeersAgree
PROPERTY RoundsAreAtomic
PROPERTY RequestsEnd
