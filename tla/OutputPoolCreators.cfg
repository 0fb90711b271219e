SPECIFICATION Spec
CONSTANTS
  PoolNum = 1
  HalfRange = 4
  Conns = {m1, m2, m3}
  NoConn = NoConn
  Callers = {c1, c2}
  Business = {c1, c2}
  Testers = {}
  Creators = {g1, g2}
  Runner = Runner
  AutoExpire = FALSE
  MaxCalls <- MCMaxCalls
INVARIANT SingleCreator
CHECK_DEADLOCK FALSE
