SPECIFICATION FairSpec
CONSTANTS
  Addrs = {a1, a2}
  QueueCap = 1
  MaxWorkers = 2
INVARIANTS RegisteredWhileHandled
PROPERTIES ServeGoesOn StreamsEnd
CHECK_DEADLOCK FALSE
