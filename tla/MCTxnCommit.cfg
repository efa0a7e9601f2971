SPECIFICATION Spec
CONSTANTS
  Key = {k1, k2}
  Recoverer = {r1}
  MaxTS = 2
  MaxEpoch = 1
  ResendLost = FALSE
  Scenarios <- MCCommit
SYMMETRY Symmetry
INVARIANTS AckedSurvives AllOrNothing RetryNotCommitted
PROPERTIES ImplementsAtomicCommit AbortRespected
CHECK_DEADLOCK FALSE
