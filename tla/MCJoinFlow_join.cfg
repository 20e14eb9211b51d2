SPECIFICATION Spec
CONSTANTS
  MaxTokens = 2
  MaxForms = 2
  MaxMade = 3
  MaxUnderWay = 2
INVARIANTS JoinTypeOK TokenRemembered StorageFollows RoomPageToMembers
CHECK_DEADLOCK FALSE
