SPECIFICATION MFairSpec
CONSTANTS
  Slots = {s1}
  Matches = {m1}
  Users = {u1, u2, u3}
  Hosts = {u1}
  Workers = {w1, w2}
  None = None
  Required = 2
  MaxBuyers = 1
  Hazards = {"overlap"}
INVARIANTS MTypeOK CountIsExact NeverOverfull
PROPERTIES SettledIsFinal MatchIsSettled
CHECK_DEADLOCK FALSE
