SPECIFICATION NotedSpec
CONSTANTS
  Users = {u1, u2}
  Rooms = {r1, r2}
  Names = {n1, n2}
  Slots = {s1}
  Steady = {u1, u2}
  Renewers = {}
  NoRoom = NoRoom
  NoName = NoName
  Idle = Idle
  TokenLife = 1
  InvitationLife = 1
  EmptyRoomLife = 1
  PongDelay = 0
  MaxClock = 0
SYMMETRY Symmetry
INVARIANT OnInvitationOnly
