SPECIFICATION Spec
CONSTANTS
  Pages = {a, b, c}
  Founder = a
  Ahead = {a}
  Skew = 1
  Writers = {b,c}
  Leavers = {b}
  Fragile = {b,c}
  MaxMessages = 2
  MaxTime = 1
INVARIANTS ChatTypeOK LogSorted OnlyOlderDropped ReceiptsTruthful SeenAtRest
CHECK_DEADLOCK FALSE
