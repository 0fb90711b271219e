SPECIFICATION FairSpec
CONSTANTS
  PoolNum = 1
  HalfRange = 1
  Conns = {m1, m2}
  NoConn = NoConn
  Callers = {c1, c2}
  Business = {c1}
  Testers = {c2}
  Creators = {g1, g2}
  Runner = Runner
  AutoExpire = TRUE
  MaxCalls <- MCMaxCalls
INVARIANTS ConnHeldOnce CreatingHasCreator QualityBooks
PROPERTIES CallReturns CloseStopsDialling SlotRefilled
CHECK_DEADLOCK FALSE
