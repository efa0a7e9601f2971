----------------------- MODULE MCConcurrencyManager -----------------------
(***************************************************************************)
(* Small ranges for TLC: two keys, three requests, three transactions.     *)
(* "T3" left intents (ts 1) or unreplicated locks behind in most of them.  *)
(***************************************************************************)
EXTENDS ConcurrencyManager

MCGen == 1..4
R(t, ts, sp) == [txn |-> t, ts |-> ts, spans |-> sp]
Write(k) == [key |-> k, op |-> "write"]
LockRead(k) == [key |-> k, op |-> "lock"]
Read(k) == [key |-> k, op |-> "read"]
Left(c, h, a, n, res) == [cancel |-> c, high |-> h, abandoned |-> a, clear |-> n, resolve |-> res]

\* Two requests of one transaction and a rival, behind a lock and an intent
\* of an abandoned transaction.
SameTxn ==
  [req |-> <<R("T1", 2, <<Write(1), Write(2)>>), R("T1", 2, <<LockRead(1)>>),
             R("T2", 3, <<Write(1), Write(2)>>)>>,
   max |-> 9, send |-> {1, 2, 3}, locked |-> <<"T3", NoTxn>>, intent |-> <<NoTxn, "T3">>,
   left |-> Left({}, {}, {"T3"}, 0, FALSE)]

\* A request that waits elsewhere first breaks the reservations of later ones;
\* the rival is kept out by the lock alone.
Broken == [SameTxn EXCEPT !.req = <<R("T1", 2, <<Write(1), Write(2)>>), R("T1", 2, <<Write(2)>>),
                                    R("T2", 3, <<LockRead(2)>>)>>,
                          !.intent = <<NoTxn, NoTxn>>]

\* A reader moves the timestamp of the lock a writer waits for.
Pushed ==
  [req |-> <<R("T1", 2, <<Write(1)>>), R("T2", 3, <<Read(1), Read(2)>>), R("T3", 4, <<Write(1)>>)>>,
   max |-> 9, send |-> {1, 2, 3}, locked |-> <<"T1", NoTxn>>, intent |-> <<NoTxn, NoTxn>>,
   left |-> Left({}, {2}, {}, 0, FALSE)]

\* Two transactions wait for each other's locks, a non-transactional write for both.
Cycle ==
  [req |-> <<R("T1", 2, <<Write(2)>>), R("T2", 3, <<Write(1)>>), R(NoTxn, 3, <<Write(1), Write(2)>>)>>,
   max |-> 9, send |-> {1, 2, 3}, locked |-> <<NoTxn, "T2">>, intent |-> <<"T1", NoTxn>>,
   left |-> Left({}, {}, {}, 0, FALSE)]

\* The table may hold one lock.
Full ==
  [req |-> <<R("T1", 2, <<Write(1)>>), R("T2", 2, <<LockRead(2)>>), R(NoTxn, 3, <<Read(1)>>)>>,
   max |-> 1, send |-> {1, 2, 3}, locked |-> <<NoTxn, NoTxn>>, intent |-> <<"T3", NoTxn>>,
   left |-> Left({}, {}, {"T3"}, 0, FALSE)]

\* Non-transactional requests, and asynchronous resolution of T3's locks.
Async ==
  [req |-> <<R(NoTxn, 2, <<Write(1), Write(2)>>), R("T2", 3, <<Write(1)>>),
             R(NoTxn, 3, <<Read(1), Read(2)>>)>>,
   max |-> 9, send |-> {1, 3}, locked |-> <<NoTxn, "T3">>, intent |-> <<"T3", "T3">>,
   left |-> Left({}, {}, {}, 0, TRUE)]

\* The table is cleared, or disabled and enabled again.
Cleared == [Async EXCEPT !.left = Left({}, {}, {"T3"}, 1, FALSE), !.send = {2, 3},
                         !.locked = <<NoTxn, NoTxn>>, !.intent = <<"T3", NoTxn>>]

\* The client of a waiting request goes away.
Cancelled ==
  [SameTxn EXCEPT !.req = <<R("T1", 2, <<Write(1), Write(2)>>), R("T2", 2, <<LockRead(1), Write(2)>>),
                            R(NoTxn, 3, <<Read(1)>>)>>,
                  !.locked = <<NoTxn, "T3">>, !.intent = <<"T3", NoTxn>>,
                  !.send = {1, 2}, !.left = Left({1}, {}, {"T3"}, 0, FALSE)]

MCScenarios == {SameTxn, Broken, Pushed, Cycle, Full, Async, Cleared, Cancelled}
MCFull == {Full}
===========================================================================
