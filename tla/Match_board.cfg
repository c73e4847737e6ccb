SPECIFICATION BSpec
CONSTANTS
  Slots = {s1}
  Matches = {m1}
  Users = {me, u2}
  Hosts = {u2}
  Workers = {w1}
  None = None
  Required = 2
  MaxBuyers = 0
  Hazards = {"late", "redeliver"}
  Me = me
  Calls = {c1, c2}
  Fetches = {f1}
  Filters = {"open", "active"}
  Troubles = 1
SYMMETRY BoardSymm
INVARIANTS UnpaidCanPay SubmittedOnce TerminalIsMine
CHECK_DEADLOCK FALSE
