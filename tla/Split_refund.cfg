SPECIFICATION SFairSpec
CONSTANTS
  Slots = {s1}
  Bookings = {b1}
  Friends = {f1, f2}
  Workers = {w1}
  NoSlot = NoSlot
  Kinds = {"split"}
  Hooks = {"payment"}
  Hazards = {"redeliver"}
  HoldTime = 1
  SplitHoldTime = 2
  MatchSize = 2
  AskedFor = {b1}
  MaxTime = 3
  SplitOps = {}
  MaxCopies = 1
INVARIANTS RefundedIsNotConfirmed
PROPERTIES MoneyIsReturned
CHECK_DEADLOCK FALSE
