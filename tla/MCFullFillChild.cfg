CONSTANTS
  Commands <- BracketCommands
  Capacities = {1, 3}
  Bars = 2
  MaxCommands = 4
  MaxLive = 3
  MaxSequence = 4
SPECIFICATION Spec
INVARIANT FullFillChildWaits
