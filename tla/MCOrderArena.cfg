CONSTANTS
  Order = {o1, o2}
  NoOrder = NoOrder
  MaxGen = 2
  MaxSlots = 3
  MaxLive = 3
  MaxTotal = 5
SPECIFICATION Spec
SYMMETRY Symmetry
INVARIANTS
  FreeListExact
  LiveCountsOccupied
PROPERTY NoAlias
