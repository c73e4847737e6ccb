SPECIFICATION HFairSpec
CONSTANTS
  Slots = {s1}
  Bookings = {b1}
  Friends = {}
  Workers = {w1}
  NoSlot = NoSlot
  Kinds = {"normal"}
  Hooks = {"payment"}
  Hazards = {"crash"}
  HoldTime = 1
  SplitHoldTime = 3
  MatchSize = 2
  AskedFor = {b1}
  MaxTime = 2
  Users = {u1, u2}
  Requests = {r1}
  Joiners = {j1, j2}
  Cron = cron
  AdminOps = {"release", "extend", "edit"}
  MatchSlots = {s1}
  MatchHold = 1
  ExtendTime = 1
  MaxWait = 2
  MaxHold = 2
INVARIANTS HTypeOK NotifiedInOrder
PROPERTIES ConfirmedIsFinal ExpiredIsFreed
CHECK_DEADLOCK FALSE
