SPECIFICATION USpec
CONSTANTS
  Slots = {s1}
  Bookings = {b1, b2, b3}
  Friends = {}
  Workers = {w1}
  NoSlot = NoSlot
  Kinds = {"normal"}
  Hooks = {"payment"}
  Hazards = {"late", "redeliver", "overlap", "no_event_id"}
  HoldTime = 1
  SplitHoldTime = 1
  MatchSize = 2
  AskedFor = {}
  MaxTime = 1
  SplitOps = {}
  MaxCopies = 0
  Mine = {b1}
  MaxCalls = 2
  Terminals = {"mock"}
  Habits = {}
  Troubles = 0
SYMMETRY ScreenSymm
INVARIANTS NoDoubleBooking
CHECK_DEADLOCK FALSE
