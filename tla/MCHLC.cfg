SPECIFICATION ClockSpec
CONSTANTS
  Thread = {t1, t2}
  Store = {s1, s2}
  None = None
  Delta = {1, 2}
  StartDelta = 1
  MaxOffset = 1
  MaxTime = 4
  MaxLogical = 1
  MaxJumps = 1
  Prompt = TRUE
SYMMETRY Symmetry
INVARIANTS BoundCovers RestartMonotone
PROPERTY NowIncreases
