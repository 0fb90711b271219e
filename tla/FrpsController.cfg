SPECIFICATION MCSpec
CONSTANTS
  Users = {u1, u2}
  Registrars = {r1}
  Reader = Reader
  Handler = Handler
  WorkerCount = 4
  WorkerCap = 2
  SendCap = 1
  ReadCap = 1
  MaxCalls = 3
INVARIANTS NoSendOnClosed DemandCovered
PROPERTIES CloseReturns UserReturns LoopsEnd
CHECK_DEADLOCK FALSE
