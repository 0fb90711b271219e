SPECIFICATION FairSpec
CONSTANTS
  Recorders = {p1}
  Flushers = {f1}
  Closers = {k1}
  None = None
  QueueCap = 2
  BatchFlush = 2
  BatchMax = 2
  PruneMax = 1
  PageLimit = 1
  Wanted = {1, 2, 3}
  MaxCalls = 3
  MaxAged = 1
INVARIANTS NothingLost FlushedStored CloseReportsLoss PagesComplete
PROPERTIES CallersReturn EventuallyStored
CHECK_DEADLOCK FALSE
