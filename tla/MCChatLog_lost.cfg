SPECIFICATION Spec
CONSTANTS
  Pages = {a, b}
  Founder = a
  Ahead = {a}
  Skew = 1
  Writers = {b}
  Leavers = {}
  Fragile = {}
  MaxMessages = 1
  MaxTime = 1
INVARIANT ReceivedShown
CHECK_DEADLOCK FALSE
