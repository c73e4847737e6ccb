SPECIFICATION ASpec
CONSTANTS
  s1 = s1
  s2 = s2
  d1 = d1
  d2 = d2
  Slots = {s1, s2}
  Dates = {d1, d2}
  DateOf <- TwoDateOf
  First = d1
  Made = {d1}
  MaxCalls = 1
  MaxActs = 3
  MaxLoads = 2
  Habits = {}
INVARIANTS ConsoleIsTrue PricedIsMeant
CHECK_DEADLOCK FALSE
