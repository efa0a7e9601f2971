SPECIFICATION FairSpec
CONSTANTS
  Txn <- MCTxn
  Prio = {1, 2}
  NoTxn = NoTxn
  Scenarios <- MCScenarios
INVARIANTS NoLostWakeup SomeoneSurvives
PROPERTIES PushAnsweredTruly PushEnds
CHECK_DEADLOCK FALSE
