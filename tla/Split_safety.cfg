SPECIFICATION SSpec
CONSTANTS
  Slots = {s1}
  Bookings = {b1}
  Friends = {f1}
  Workers = {w1, w2}
  NoSlot = NoSlot
  Kinds = {"normal", "split"}
  Hooks = {"payment", "stripe"}
  Hazards = {"late", "crash"}
  HoldTime = 1
  SplitHoldTime = 1
  MatchSize = 2
  AskedFor = {}
  MaxTime = 2
  SplitOps = {"cancel", "decline"}
  MaxCopies = 1
SYMMETRY SplitSymm
INVARIANTS ConfirmedSplitIsPaid
CHECK_DEADLOCK FALSE
