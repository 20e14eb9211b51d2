SPECIFICATION Spec
CONSTANTS
  Mics = {m1, m2}
  Videos = {v1}
  None = None
  MaxShares = 3
SYMMETRY Symmetry
INVARIANTS MediaTypeOK StreamMatchesState LiveTracksSent NothingLeftOn
CHECK_DEADLOCK FALSE
