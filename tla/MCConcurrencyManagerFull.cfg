CONSTANTS
  Key = {1, 2}
  Req = {1, 2, 3}
  Txn = {"T1", "T2", "T3"}
  Gen <- MCGen
  NoTxn = "none"
  NoReq = 0
  Scenarios <- MCFull
SPECIFICATION Spec
PROPERTY PushUpdatesWaiter
CHECK_DEADLOCK FALSE
