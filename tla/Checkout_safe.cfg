SPECIFICATION FairSpec
CONSTANTS
  Slots = {s1}
  Bookings = {b1, b2, b3}
  Friends = {}
  Workers = {w1, w2}
  NoSlot = NoSlot
  Kinds = {"normal"}
  Hooks = {"payment"}
  Hazards = {"redeliver"}
  HoldTime = 2
  SplitHoldTime = 3
  MatchSize = 2
  AskedFor = {b1, b2, b3}
  MaxTime = 3
INVARIANTS NoDoubleBooking ConfirmedIsBooked BookingInv ConfirmedHasTicket
PROPERTIES ImplementsReservation PaidIsConfirmed
CHECK_DEADLOCK FALSE
