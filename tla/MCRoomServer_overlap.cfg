SPECIFICATION NotedSpec
CONSTANTS
  Users = {u1, u2}
  Rooms = {r1}
  Names = {n1, n2}
  Slots = {s1, s2}
  Steady = {}
  Renewers = {}
  NoRoom = NoRoom
  NoName = NoName
  Idle = Idle
  TokenLife = 1
  InvitationLife = 1
  EmptyRoomLife = 1
  PongDelay = 0
  MaxClock = 0
SYMMETRY Symmetry
INVARIANTS TypeOK UniqueNames
PROPERTY ImplementsRoomAccess
