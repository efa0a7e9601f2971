SPECIFICATION FairSpec
CONSTANTS
  Key = {k1, k2}
  Recoverer = {r1}
  MaxTS = 2
  MaxEpoch = 0
  ResendLost = TRUE
  Scenarios <- MCResend
INVARIANTS RecoveryNotConfused
PROPERTIES ImplementsAtomicCommit IntentsResolved
CHECK_DEADLOCK FALSE
