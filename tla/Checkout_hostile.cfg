SPECIFICATION Spec
CONSTANTS
  Slots = {s1}
  Bookings = {b1, b2}
  Friends = {f1}
  Workers = {w1, w2}
  NoSlot = NoSlot
  Kinds = {"normal", "split"}
  Hooks = {"payment", "stripe"}
  Hazards = {"late", "redeliver", "crash"}
  HoldTime = 1
  SplitHoldTime = 2
  MatchSize = 2
  AskedFor = {b1, b2}
  MaxTime = 2
SYMMETRY Symm
INVARIANTS TypeOK OneLedgerRow
PROPERTIES NoHoldStolen
CHECK_DEADLOCK FALSE
