SPECIFICATION ClockSpec
CONSTANTS
  Thread = {t1, t2}
  Store = {s1, s2}
  None = None
  Delta = {}
  StartDelta = 1
  MaxOffset = 1
  MaxTime = 4
  MaxLogical = 1
  MaxJumps = 0
  Prompt = TRUE
SYMMETRY Symmetry
INVARIANT MonotoneWithoutBound
