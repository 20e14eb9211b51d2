SPECIFICATION FairSpec
CONSTANTS
  Clients = {o, a}
  Owner = o
  Fragile = {a}
  MaxStays = 2
  MaxPending = 1
INVARIANTS SessionTypeOK NobodyListedTwice ViewsCurrent SomebodyInitiates LockShownToGuests
PROPERTY NewcomerSeen
CHECK_DEADLOCK FALSE
