CONSTANTS
  Callers = {c1, c2}
  Workers = {w1, w2}
  Ids = {i1, i2}
  MaxCalls = 2
  NoCaller = NoCaller
  NoBinding = NoBinding
SPECIFICATION Spec
CHECK_DEADLOCK FALSE
INVARIANT CancellationAgrees
