SPECIFICATION FairSpec
CONSTANTS
  Ask = {valid, invalid}
  Invalid = {invalid}
  KeepAlive = KeepAlive
  Push = Push
  Places = {home, room}
  Home = home
  Nowhere = Nowhere
  MaxSockets = 3
  MaxMade = 4
  MaxBack = 1
INVARIANTS SocketTypeOK LossShown PlaceKept KeptAlive
PROPERTIES ImplementsRequests EndsWhenQuiet
CHECK_DEADLOCK FALSE
