SPECIFICATION NotedFairSpec
CONSTANTS
  Users = {u1}
  Rooms = {r1}
  Names = {n1}
  Slots = {s1}
  Steady = {}
  Renewers = {}
  NoRoom = NoRoom
  NoName = NoName
  Idle = Idle
  TokenLife = 1
  InvitationLife = 1
  EmptyRoomLife = 0
  PongDelay = 0
  MaxClock = 1
PROPERTY ShortLivedRooms
