CONSTANTS
  Symbols = {"A", "B"}
  Market <- FourBars
  Intents <- Packages
  Capitals = {80, 241, 300, 2000}
  Leverage <- PerSymbol
  FeeRate <- Fees
  SlippageRate = 100
  MaintenanceRatio = 50
  Tolerance = 1
SPECIFICATION Spec
CHECK_DEADLOCK FALSE
INVARIANTS
  PreviewIsCommitted
  AtomicAllOrNothing
  OutstandingCoversExposure
  HedgeWithinPrimary
