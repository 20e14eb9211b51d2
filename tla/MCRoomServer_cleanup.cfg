SPECIFICATION NotedFairSpec
CONSTANTS
  Users = {u1, u2}
  Rooms = {r1}
  Names = {n1}
  Slots = {s1}
  Steady = {u2}
  Renewers = {u2}
  NoRoom = NoRoom
  NoName = NoName
  Idle = Idle
  TokenLife = 0
  InvitationLife = 0
  EmptyRoomLife = 0
  PongDelay = 0
  MaxClock = 1
INVARIANTS NameReservedUntilExpiry UniqueNames
PROPERTIES DiscardedAfterVacancy DroppedLeavesRoom VacantRoomDiscarded ExpiredInvitationRemoved
