CONSTANTS
  Txn = {1, 2}
  Key = {1, 2}
  Reg = {1, 2}
  EventChanCap = 2
  BufCap = 2
  PipeCap = 1
  MaxClosed = 2
  Now = 3
  Scenarios <- MCFollower
SPECIFICATION Spec
INVARIANT CheckpointCovers
CHECK_DEADLOCK FALSE
