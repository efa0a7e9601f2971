SPECIFICATION Spec
CONSTANTS
  Key = {k1, k2}
  Recoverer = {r1}
  MaxTS = 2
  MaxEpoch = 0
  ResendLost = FALSE
  Scenarios <- MCLost
SYMMETRY Symmetry
PROPERTIES ImplicitCommitFinal
CHECK_DEADLOCK FALSE
