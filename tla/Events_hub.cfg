SPECIFICATION EFairSpec
CONSTANTS
  Browsers = {b1}
  Conns = {c1, c2}
  QueueSize = 2
  RingSize = 1
  MaxEvents = 2
  MaxReplays = 1
  Restarts = TRUE
  None = None
INVARIANTS ETypeOK AllOrDropped OnceInOrder ReplayIsComplete
PROPERTIES DroppedIsTold
CHECK_DEADLOCK FALSE
