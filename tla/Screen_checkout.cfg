SPECIFICATION UFairSpec
CONSTANTS
  Slots = {s1}
  Bookings = {b1, b2, b3}
  Friends = {f1}
  Workers = {w1}
  NoSlot = NoSlot
  Kinds = {"normal", "split", "host", "join"}
  Hooks = {"payment"}
  Hazards = {"late", "redeliver", "overlap", "no_event_id"}
  HoldTime = 1
  SplitHoldTime = 1
  MatchSize = 2
  AskedFor = {}
  MaxTime = 1
  SplitOps = {}
  MaxCopies = 0
  Mine = {b1, b2}
  MaxCalls = 2
  Terminals = {"mock", "stripe"}
  Habits = {}
  Troubles = 1
INVARIANTS UTypeOK ScreenIsTrue HeldCanPay NoPaidPlayerTwice
PROPERTIES PaidStaysConfirmed TerminalCloses
CHECK_DEADLOCK FALSE
