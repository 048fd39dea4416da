CONSTANTS
  Symbols = {"A", "B"}
  Market <- FourBars
  Intents <- Packages
  Capitals = {241}
  Leverage <- PerSymbol
  FeeRate <- Fees
  SlippageRate = 100
  MaintenanceRatio = 50
  Tolerance = 1
SPECIFICATION Spec
CHECK_DEADLOCK FALSE
INVARIANT AtomicPackageWhole
