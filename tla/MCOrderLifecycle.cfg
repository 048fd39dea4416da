CONSTANTS
  Commands <- BothCommands
  Capacities = {1, 3}
  Bars = 3
  MaxCommands = 5
  MaxLive = 3
  MaxSequence = 4
SPECIFICATION Spec
CONSTRAINT OneKind
INVARIANTS
  TypeOK
  IndexesAgree
  AliasesAgree
  NewestOrderAnswers
  EveryActiveOrderMatched
  OcoSiblingsExclusive
  ChildFillsAfterParent
  ExpiredBeforeMatching
  QuantitiesAccounted
PROPERTY ReduceOnlyReduces
