SPECIFICATION Spec
CONSTANTS
  Clients = {o, a}
  Owner = o
  Fragile = {}
  MaxStays = 1
  MaxPending = 0
INVARIANT OneIsPolite
CHECK_DEADLOCK FALSE
