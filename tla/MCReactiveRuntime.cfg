CONSTANTS
  MaxScores = 3
  HasDeadline = TRUE
  Keys = {k1}
  NoKey = NoKey
SPECIFICATION Spec
CHECK_DEADLOCK FALSE
INVARIANTS
  TypeOK
  RowOfItsOwnRequest
  FailedChildRunsNothing
  NoStrayChild
  AtMostOneLateRow
PROPERTIES
  CallEnds
  ChildrenGone
