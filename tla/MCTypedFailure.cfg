CONSTANTS
  MaxScores = 2
  HasDeadline = TRUE
  Keys = {k1}
  NoKey = NoKey
SPECIFICATION Spec
CHECK_DEADLOCK FALSE
INVARIANT TypedFailureDelivered
