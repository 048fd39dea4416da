CONSTANTS
  Values = {0, 1}
  None = None
  Budget = 2
  MaxEvents = 4
  MaxReports = 1
  DuplicatePolicy = "prune"
  Patience = 1
  MinTrials = 1
  MinDelta = 0
  Suggest <- MCSuggest
  Pruned <- MCPruned
  Process = {p1, p2}
  MaxSaves = 3
  MaxCrashes = 1
SPECIFICATION Spec
INVARIANTS TypeOK ReplayExact AckedWorkSurvives
CHECK_DEADLOCK FALSE
CONSTRAINT OneStudyAtATime
CONSTRAINT NoIdleWork
PROPERTIES Refinement SavesEnd
