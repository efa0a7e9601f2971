SPECIFICATION Spec
CONSTANTS
  Key = {k1, k2}
  Recoverer = {r1}
  MaxTS = 2
  MaxEpoch = 0
  ResendLost = TRUE
  Scenarios <- MCReplay
SYMMETRY Symmetry
INVARIANTS AllOrNothing
CHECK_DEADLOCK FALSE
