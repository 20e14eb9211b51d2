SPECIFICATION FairSpec
CONSTANTS
  Newcomer = n
  Host = h
  MaxCandidates = 1
  Sharers = {n, h}
  MaxShares = 1
  MaxHiccups = 1
INVARIANTS NegotiationTypeOK AnswersFit ImpoliteRests HostSeen
PROPERTY Connects
CHECK_DEADLOCK FALSE
