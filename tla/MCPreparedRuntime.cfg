CONSTANTS
  Callers = {c1, c2}
  Workers = {w1, w2}
  Ids = {i1, i2}
  MaxCalls = 5
  NoCaller = NoCaller
  NoBinding = NoBinding
SPECIFICATION Spec
CHECK_DEADLOCK FALSE
INVARIANTS
  TypeOK
  StaleNeverRuns
  OneRowPerBinding
  PoolCleanForBatch
  ClosedIsQuiet
PROPERTY EveryCallReturns
