SPECIFICATION Spec
CONSTANTS
  Key = {k1}
  Recoverer = {r1}
  MaxTS = 3
  MaxEpoch = 1
  ResendLost = FALSE
  Scenarios <- MCConflict
SYMMETRY Symmetry
INVARIANTS AllOrNothing PushRespected
PROPERTIES ImplicitCommitStable
CHECK_DEADLOCK FALSE
