CONSTANTS
  Bars = 4
  FundingBars = {2}
  Batches <- SomeBatches
  MaxOrders = 3
  Versions = 8
  NoTransaction = NoTransaction
  NoAttempt = NoAttempt
SPECIFICATION Spec
CHECK_DEADLOCK FALSE
INVARIANTS
  TypeOK
  FailedStepLeavesNoTrace
  MarginCacheCurrent
  SnapshotCurrent
PROPERTY ImplementsAtomicBars
