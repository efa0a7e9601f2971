-------------------------- MODULE MCTxnWaitQueue --------------------------
(* The instance of TxnWaitQueue for TLC. *)
EXTENDS TxnWaitQueue

MCTxn == 1..3

Scenario(x, b, w, c, a, t) ==
  [txns |-> x, base |-> b, wants |-> w, clears |-> c, abandons |-> a, tspushes |-> t]

(* A cycle of three, with equal priorities (the IDs decide) and with a low *)
(* ID of high priority; a cycle of two that a third waits on, while one of *)
(* them disappears; a cycle of two while queues are cleared, while         *)
(* priorities change, and while one disappears.                            *)
MCScenarios ==
  { Scenario(1..3, <<1, 1, 1>>, <<{2}, {3}, {1}>>, 0, 0, 0),
    Scenario(1..3, <<2, 1, 1>>, <<{2}, {3}, {1}>>, 0, 0, 0),
    Scenario(1..3, <<1, 1, 1>>, <<{2}, {1}, {1}>>, 0, 1, 0),
    Scenario(1..2, <<2, 1, 1>>, <<{2}, {1}, {}>>, 2, 0, 0),
    Scenario(1..2, <<1, 1, 1>>, <<{2}, {1}, {}>>, 1, 0, 1),
    Scenario(1..2, <<1, 1, 1>>, <<{2}, {1}, {}>>, 0, 1, 1) }
=============================================================================
