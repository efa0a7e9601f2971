------------------------- MODULE TxnWaitQueueProofs -------------------------
(***************************************************************************)
(* Proofs about module TxnWaitQueue, for any set of transactions and any   *)
(* scenarios: no waiter on a finalized transaction is forgotten, and a     *)
(* push is answered only when the pushee or the pusher is finalized.       *)
(*                                                                         *)
(* The argument.  A transaction that is finalized stays so.  Whatever is   *)
(* known of it elsewhere, in an entry of the queue, in an UpdateTxn on its *)
(* way, in the channel of a waiter or in the answer of a query, is either  *)
(* about a time when it was pending or true (Truth).  A waiter that was    *)
(* not told anything is among the pushes of its pushee's entry (Joined),   *)
(* and if it has seen the pushee pending and the pushee is finalized now,  *)
(* then an UpdateTxn is on its way (Told).                                 *)
(***************************************************************************)
EXTENDS TxnWaitQueue, TLAPS

\* Leaves are first-order unless they cite SMT.
USE ZenonT(60)

Status == {"PENDING"} \union Final
PC == {"run", "intercept", "eval", "enqueue", "wait", "force", "giveup", "done"}

PushRecord ==
  [pc : PC, pushee : Txn \union {NoTxn}, note : Status \union {"none", "CLEARED"},
   timer : BOOLEAN, pusherPrio : Nat, pusheePrio : Nat, errPrio : Nat, deps : SUBSET Txn]

QueryRecord == [pc : {"none", "send", "wait", "eval", "final", "reply"},
                known : SUBSET Txn, prio : Nat, bounded : BOOLEAN]

EntryRecord == [on : BOOLEAN, status : Status, prio : Nat, pushes : SUBSET Txn]

\* The types of the variables the argument is about.
Types ==
  /\ status \in [Txn -> Status]
  /\ scen.base \in [Txn -> Nat] /\ prio \in [Txn -> Nat]
  /\ queue \in [Txn -> EntryRecord]
  /\ update \in [Txn -> SUBSET Status]
  /\ push \in [Txn -> PushRecord]
  /\ query \in [Txn -> QueryRecord]

\* A push that is under way has a pushee.
HasPushee ==
  \A p \in Txn : push[p].pc \in {"intercept", "eval", "enqueue", "wait", "force"}
                   => push[p].pushee \in Txn

\* Whoever says that a transaction is finalized is right.
Truth ==
  /\ \A t \in Txn : queue[t].status \in Final => status[t] \in Final
  /\ \A t \in Txn : \A s \in update[t] : s \in Final => status[t] \in Final
  /\ \A p \in Txn : push[p].pc = "wait" /\ push[p].note \in Final => status[push[p].pushee] \in Final
  /\ \A p \in Txn : query[p].pc = "final" => status[p] \in Final

\* A waiter that was not told anything is where UpdateTxn finds it.
Joined ==
  \A p \in Txn : push[p].pc = "wait" /\ push[p].note = "none" => p \in queue[push[p].pushee].pushes

\* After its first query of the pushee a waiter depends on UpdateTxn.
Told ==
  \A p \in Txn : /\ push[p].pc = "wait" /\ push[p].note = "none" /\ ~push[p].timer
                 /\ status[push[p].pushee] \in Final
                 => update[push[p].pushee] # {}

IInv == Types /\ HasPushee /\ Truth /\ Joined /\ Told

-----------------------------------------------------------------------------
(* Facts about records and helpers *)

\* The record of a push that has left the queue, or was answered.
LEMMA LeftRecord ==
  ASSUME Types, NEW p \in Txn, NEW pc \in PC
  PROVE  /\ Left(p, pc) = [push EXCEPT ![p] = Left(p, pc)[p]]
         /\ Left(p, pc)[p] \in PushRecord
         /\ Left(p, pc)[p].pc = pc
         /\ Left(p, pc)[p].pushee = push[p].pushee
BY DEF Types, Left, NoPush, PushRecord, PC, Status

\* Returned: the push of p is answered and its record is the idle one.
LEMMA ReturnedRecord ==
  ASSUME Types, NEW p \in Txn
  PROVE  /\ Returned(p) = [push EXCEPT ![p] = NoPush]
         /\ NoPush \in PushRecord /\ NoPush.pc = "run"
BY DEF Types, Returned, NoPush, PushRecord, PC, Status

\* Releasing or cancelling a query never makes it report a finalized transaction.
LEMMA QueriesRelease ==
  ASSUME Types, NEW t \in Txn
  PROVE  LET q == releaseWaitingQueriesLocked(query, t) IN
         q \in [Txn -> QueryRecord] /\ \A u \in Txn : q[u].pc = "final" => query[u].pc = "final"
BY DEF Types, releaseWaitingQueriesLocked, QueryRecord

\* The deferred cancellation in MaybeWaitForPush: as QueriesRelease.
LEMMA QueriesCancel ==
  ASSUME NEW q \in [Txn -> QueryRecord], NEW p \in Txn
  PROVE  /\ Cancelled(q, p) \in [Txn -> QueryRecord]
         /\ \A u \in Txn : Cancelled(q, p)[u].pc = "final" => q[u].pc = "final"
BY DEF Cancelled, NoQuery, QueryRecord

\* A step in which no push begins to wait and no record is written keeps the
\* invariant: pushes leave, or go on waiting and have looked at their pushee
\* while it was pending; entries and queries change, but say only what is true.
LEMMA StepKeeps ==
  ASSUME IInv, push' \in [Txn -> PushRecord],
         \A u \in Txn :
           \/ /\ push'[u].pc # "wait"
              /\ push'[u].pc \in {"intercept", "eval", "enqueue", "force"} => push'[u].pushee \in Txn
           \/ /\ push'[u].pc = push[u].pc /\ push'[u].pushee = push[u].pushee
              /\ push'[u].note = push[u].note
              /\ push'[u].timer = push[u].timer \/ status[push[u].pushee] \notin Final,
         query' \in [Txn -> QueryRecord],
         \A u \in Txn : query'[u].pc = "final" => query[u].pc = "final" \/ status[u] \in Final,
         queue' \in [Txn -> EntryRecord],
         \A u \in Txn : /\ queue'[u].pushes = queue[u].pushes
                        /\ queue'[u].status \in Final => queue[u].status \in Final \/ status[u] \in Final,
         UNCHANGED <<status, scen, prio, update>>
  PROVE  IInv'
<1>1. Types'
  BY DEF IInv, Types
<1>2. HasPushee'
  BY DEF IInv, HasPushee
<1>3. Truth'
  BY DEF IInv, Truth
<1>4. Joined'
  BY <1>2 DEF IInv, Joined, HasPushee
<1>5. Told'
  BY DEF IInv, Told
<1>6. QED
  BY <1>1, <1>2, <1>3, <1>4, <1>5 DEF IInv

\* The case of one push that leaves or does not begin to wait.
LEMMA LeaveKeeps ==
  ASSUME IInv, NEW p \in Txn, NEW r \in PushRecord,
         push' = [push EXCEPT ![p] = r], r.pc # "wait",
         r.pc \in {"intercept", "eval", "enqueue", "force"} => r.pushee \in Txn,
         query' \in [Txn -> QueryRecord],
         \A u \in Txn : query'[u].pc = "final" => query[u].pc = "final" \/ status[u] \in Final,
         UNCHANGED <<status, scen, prio, queue, update>>
  PROVE  IInv'
<1>1. /\ push' \in [Txn -> PushRecord] /\ queue' \in [Txn -> EntryRecord]
      /\ \A u \in Txn : push'[u] = IF u = p THEN r ELSE push[u]
  BY DEF IInv, Types
<1>2. QED
  BY <1>1, StepKeeps

\* A record is written, and the push of p, if it changes at all, does not wait.
LEMMA WriteKeeps ==
  ASSUME IInv, NEW p \in Txn, NEW r \in PushRecord,
         push' = [push EXCEPT ![p] = r], r = push[p] \/ r.pc # "wait",
         r.pc \in {"intercept", "eval", "enqueue", "wait", "force"} => r.pushee \in Txn,
         NEW t \in Txn, NEW s \in Status, WriteStatus(t, s),
         status[t] \in Final => s \in Final,
         prio' \in [Txn -> Nat], UNCHANGED <<scen, queue, query>>
  PROVE  IInv'
<1>1. Types'
  BY DEF IInv, Types, WriteStatus
<1>2. /\ \A u \in Txn : push'[u] = IF u = p THEN r ELSE push[u]
      /\ \A u \in Txn : status'[u] = IF u = t THEN s ELSE status[u]
      /\ update'[t] = update[t] \union {s}
      /\ \A u \in Txn \ {t} : update'[u] = update[u]
  BY DEF IInv, Types, WriteStatus
<1>3. HasPushee'
  BY <1>2 DEF IInv, HasPushee
<1>4. \A u \in Txn : status[u] \in Final => status'[u] \in Final
  BY <1>2
<1>5. \A u \in Txn : push'[u].pc = "wait" => push'[u] = push[u] /\ push[u].pushee \in Txn
  BY <1>2, <1>3 DEF HasPushee
<1>6. Truth'
  <2>1. \A u \in Txn : queue'[u].status \in Final => status'[u] \in Final
    BY <1>4 DEF IInv, Truth
  <2>2. \A u \in Txn : \A x \in update'[u] : x \in Final => status'[u] \in Final
    <3> SUFFICES ASSUME NEW u \in Txn, NEW x \in update'[u], x \in Final
                 PROVE  status'[u] \in Final
      OBVIOUS
    <3>1. CASE x \in update[u]
      BY <1>4, <3>1 DEF IInv, Truth
    <3>2. CASE x \notin update[u]
      <4>1. u = t /\ x = s
        BY <1>2, <3>2, SMT, Z3
      <4>2. QED
        BY <1>2, <4>1
    <3>3. QED
      BY <3>1, <3>2
  <2>3. \A u \in Txn : push'[u].pc = "wait" /\ push'[u].note \in Final => status'[push'[u].pushee] \in Final
    BY <1>4, <1>5 DEF IInv, Truth
  <2>4. \A u \in Txn : query'[u].pc = "final" => status'[u] \in Final
    BY <1>4 DEF IInv, Truth
  <2>5. QED
    BY <2>1, <2>2, <2>3, <2>4 DEF Truth
<1>7. Joined'
  BY <1>5 DEF IInv, Joined
<1>8. Told'
  <2> SUFFICES ASSUME NEW u \in Txn, push'[u].pc = "wait", push'[u].note = "none", ~push'[u].timer,
                      status'[push'[u].pushee] \in Final
               PROVE  update'[push'[u].pushee] # {}
    BY DEF Told
  <2>1. push'[u] = push[u] /\ push[u].pushee \in Txn
    BY <1>5
  <2>2. CASE push[u].pushee = t
    BY <1>2, <2>1, <2>2
  <2>3. CASE push[u].pushee # t
    BY <1>2, <2>1, <2>3, SMT, Z3 DEF IInv, Told
  <2>4. QED
    BY <2>2, <2>3
<1>9. QED
  BY <1>1, <1>3, <1>6, <1>7, <1>8 DEF IInv

\* UpdateTxn(t) with a state that is true, or with the nil of a cleared queue:
\* whoever waited for t has been told afterwards.
LEMMA UpdateTxnKeeps ==
  ASSUME IInv, NEW t \in Txn, NEW s \in Status \union {"CLEARED"},
         s \in Final => status[t] \in Final,
         NEW q \in [Txn -> QueryRecord],
         \A u \in Txn : q[u].pc = "final" => query[u].pc = "final",
         NEW w \in [Txn -> PushRecord],
         \A u \in Txn : w[u] = push[u] \/ w[u].pc \notin {"intercept", "eval", "enqueue", "wait", "force"},
         UpdateTxn(t, s, q, w),
         update' \in [Txn -> SUBSET Status],
         \A u \in Txn : update'[u] \subseteq update[u] /\ (u # t => update'[u] = update[u]),
         UNCHANGED <<status, scen, prio>>
  PROVE  IInv'
<1>1. /\ query' \in [Txn -> QueryRecord]
      /\ \A u \in Txn : query'[u].pc = "final" => query[u].pc = "final"
  BY DEF UpdateTxn, releaseWaitingQueriesLocked, QueryRecord
<1>2. /\ NoEntry \in EntryRecord /\ NoEntry.status = "PENDING"
      /\ queue' \in [Txn -> EntryRecord]
      /\ \A u \in Txn : queue'[u] = IF u = t THEN NoEntry ELSE queue[u]
  BY DEF IInv, Types, UpdateTxn, NoEntry, EntryRecord, Status
<1> DEFINE told(p) == p \in queue[t].pushes /\ w[p].pc = "wait" /\ w[p].pushee = t
<1>3. \A p \in Txn : push'[p] = IF told(p) THEN [w[p] EXCEPT !.note = s] ELSE w[p]
  BY DEF UpdateTxn
<1>4. \A p \in Txn : LET x == [w[p] EXCEPT !.note = s] IN
        x \in PushRecord /\ x.pc = w[p].pc /\ x.pushee = w[p].pushee /\ x.timer = w[p].timer /\ x.note = s
  BY SMT, Z3 DEF PushRecord
<1>5. push' \in [Txn -> PushRecord]
  BY <1>3, <1>4 DEF UpdateTxn
<1>6. Types'
  BY <1>1, <1>2, <1>5 DEF IInv, Types
<1>7. \A p \in Txn : /\ push'[p].pc = w[p].pc /\ push'[p].pushee = w[p].pushee
                     /\ push'[p].timer = w[p].timer
                     /\ push'[p].note = IF told(p) THEN s ELSE w[p].note
  BY <1>3, <1>4
<1>8. HasPushee'
  BY <1>7 DEF IInv, HasPushee
<1>9. s # "none"
  BY DEF Status, Final
<1>10. Truth'
  <2>1. \A u \in Txn : queue'[u].status \in Final => status'[u] \in Final
    BY <1>2 DEF IInv, Truth, Final
  <2>2. \A u \in Txn : \A x \in update'[u] : x \in Final => status'[u] \in Final
    BY DEF IInv, Truth
  <2>3. \A p \in Txn : push'[p].pc = "wait" /\ push'[p].note \in Final => status'[push'[p].pushee] \in Final
    BY <1>7, SMTT(30), Z3 DEF IInv, Truth
  <2>4. \A u \in Txn : query'[u].pc = "final" => status'[u] \in Final
    BY <1>1 DEF IInv, Truth
  <2>5. QED
    BY <2>1, <2>2, <2>3, <2>4 DEF Truth
<1>11. \A p \in Txn : push'[p].pc = "wait" /\ push'[p].note = "none" =>
                        /\ push[p].pc = "wait" /\ push[p].note = "none" /\ push'[p] = push[p]
                        /\ push[p].pushee # t /\ push[p].pushee \in Txn
  <2> SUFFICES ASSUME NEW p \in Txn, push'[p].pc = "wait", push'[p].note = "none"
               PROVE  /\ push[p].pc = "wait" /\ push[p].note = "none" /\ push'[p] = push[p]
                      /\ push[p].pushee # t /\ push[p].pushee \in Txn
    OBVIOUS
  <2>1. ~told(p) /\ w[p] = push[p] /\ push'[p] = push[p]
    BY <1>3, <1>7, <1>9
  <2>2. p \in queue[push[p].pushee].pushes
    BY <2>1 DEF IInv, Joined
  <2>3. QED
    BY <2>1, <2>2 DEF IInv, HasPushee
<1>12. Joined' /\ Told'
  BY <1>2, <1>11, SMT, Z3 DEF IInv, Joined, Told
<1>13. QED
  BY <1>6, <1>8, <1>10, <1>12 DEF IInv
-----------------------------------------------------------------------------
(* One lemma per action that does more than the lemmas above say *)

\* MaybeWaitForPush: no entry, a finalized entry, or the push joins the entry.
LEMMA MaybeWaitForPushKeeps ==
  ASSUME IInv, NEW p \in Txn, MaybeWaitForPush(p)
  PROVE  IInv'
<1> DEFINE u == push[p].pushee
<1>0. u \in Txn
  BY DEF IInv, HasPushee, MaybeWaitForPush
<1>1. CASE ~queue[u].on
  <2>1. [push[p] EXCEPT !.pc = "eval"] \in PushRecord
    BY SMT, Z3 DEF IInv, Types, PushRecord, PC
  <2>2. QED
    BY <1>0, <1>1, <2>1, LeaveKeeps, SMT, Z3 DEF MaybeWaitForPush, IInv, Types, PushRecord
<1>2. CASE queue[u].on /\ isPushed(queue[u].status)
  BY <1>2, ReturnedRecord, LeaveKeeps DEF MaybeWaitForPush, IInv, Types
<1>3. CASE queue[u].on /\ ~isPushed(queue[u].status)
  <2>1. /\ queue' = [queue EXCEPT ![u].pushes = @ \union {p}]
        /\ push' = [push EXCEPT ![p] = waitingPush(p, u)]
        /\ query' = [releaseWaitingQueriesLocked(query, u) EXCEPT
                       ![p] = [NoQuery EXCEPT !.pc = "send", !.prio = scen.base[p]]]
        /\ UNCHANGED <<status, scen, prio, update>>
    BY <1>3 DEF MaybeWaitForPush
  <2>2. /\ waitingPush(p, u) \in PushRecord /\ waitingPush(p, u).pc = "wait"
        /\ waitingPush(p, u).pushee = u /\ waitingPush(p, u).note = "none"
        /\ waitingPush(p, u).timer
    BY <1>0 DEF IInv, Types, waitingPush, NoPush, PushRecord, PC, Status
  <2>3. /\ query' \in [Txn -> QueryRecord]
        /\ \A t \in Txn : query'[t].pc = "final" => query[t].pc = "final"
    BY <1>0, <2>1, QueriesRelease DEF IInv, Types, NoQuery, QueryRecord
  <2>4. /\ queue' \in [Txn -> EntryRecord]
        /\ \A t \in Txn : queue'[t].status = queue[t].status
        /\ \A t \in Txn : queue[t].pushes \subseteq queue'[t].pushes
        /\ p \in queue'[u].pushes
    BY <1>0, <2>1, SMT, Z3 DEF IInv, Types, EntryRecord
  <2>5. \A t \in Txn : push'[t] = IF t = p THEN waitingPush(p, u) ELSE push[t]
    BY <2>1 DEF IInv, Types
  <2>6. Types'
    BY <2>1, <2>2, <2>3, <2>4 DEF IInv, Types
  <2>7. HasPushee'
    BY <1>0, <2>2, <2>5 DEF IInv, HasPushee
  <2>8. Truth'
    <3>1. \A t \in Txn : push'[t].pc = "wait" /\ push'[t].note \in Final => push'[t] = push[t]
      BY <2>2, <2>5 DEF Final
    <3>2. QED
      BY <2>1, <2>3, <2>4, <3>1 DEF IInv, Truth
  <2>9. Joined'
    BY <2>2, <2>4, <2>5 DEF IInv, Joined, HasPushee
  <2>10. Told'
    BY <2>1, <2>2, <2>5 DEF IInv, Told
  <2>11. QED
    BY <2>6, <2>7, <2>8, <2>9, <2>10 DEF IInv
<1>4. QED
  BY <1>1, <1>2, <1>3

\* PushTxn: the pushee is finalized, expired, or the push fails.
LEMMA EvalPushTxnKeeps ==
  ASSUME IInv, NEW p \in Txn, EvalPushTxn(p)
  PROVE  IInv'
<1> DEFINE u == push[p].pushee
<1>0. u \in Txn
  BY DEF IInv, HasPushee, EvalPushTxn
<1>1. CASE push' = Returned(p) /\ UNCHANGED <<status, update>>
  BY <1>1, ReturnedRecord, LeaveKeeps DEF EvalPushTxn, IInv, Types
<1>2. CASE push' = Returned(p) /\ WriteStatus(u, "ABORTED")
  BY <1>0, <1>2, ReturnedRecord, WriteKeeps DEF EvalPushTxn, IInv, Types, Status, Final
<1>3. CASE /\ push' = [push EXCEPT ![p].pc = "enqueue", ![p].errPrio = prio[u]]
           /\ UNCHANGED <<status, update>>
  <2> DEFINE r == [push[p] EXCEPT !.pc = "enqueue", !.errPrio = prio[u]]
  <2>0. push[p] \in PushRecord /\ prio[u] \in Nat
    BY <1>0 DEF IInv, Types
  <2>1. r \in PushRecord /\ r.pc = "enqueue" /\ r.pushee = u
    BY <2>0 DEF PushRecord, PC
  <2>2. push' = [push EXCEPT ![p] = r]
    BY <1>3 DEF IInv, Types, PushRecord
  <2>3. query' \in [Txn -> QueryRecord] /\ UNCHANGED <<status, scen, prio, queue, update, query>>
    BY <1>3 DEF EvalPushTxn, IInv, Types
  <2> HIDE DEF r
  <2>4. QED
    BY <1>0, <2>1, <2>2, <2>3, LeaveKeeps
<1>4. QED
  BY <1>1, <1>2, <1>3 DEF EvalPushTxn

\* EnqueueTxn: the entry may forget that its transaction is finalized.
LEMMA EnqueueTxnKeeps ==
  ASSUME IInv, NEW p \in Txn, EnqueueTxn(p)
  PROVE  IInv'
<1> DEFINE u == push[p].pushee
           r == [push[p] EXCEPT !.pc = "intercept", !.errPrio = 0]
           e == [queue[u] EXCEPT !.on = TRUE, !.status = "PENDING", !.prio = push[p].errPrio]
<1>0. u \in Txn /\ push[p] \in PushRecord /\ queue[u] \in EntryRecord
  BY DEF IInv, Types, HasPushee, EnqueueTxn
<1>1. /\ r \in PushRecord /\ r.pc = "intercept" /\ r.pushee = u
      /\ push[p].errPrio \in Nat
  BY <1>0 DEF PushRecord, PC
<1>2. /\ \A t \in Txn : push'[t] = IF t = p THEN r ELSE push[t]
      /\ push' \in [Txn -> PushRecord]
  BY <1>1 DEF EnqueueTxn, IInv, Types
<1>3. /\ queue' \in [Txn -> EntryRecord]
      /\ \A t \in Txn : queue'[t].pushes = queue[t].pushes
      /\ \A t \in Txn : queue'[t].status = queue[t].status \/ queue'[t].status = "PENDING"
  <2>1. e \in EntryRecord /\ e.pushes = queue[u].pushes /\ e.status = "PENDING"
    BY <1>0, <1>1 DEF EntryRecord, Status
  <2>2. queue' = [queue EXCEPT ![u] = e]
    BY DEF EnqueueTxn
  <2> HIDE DEF e
  <2>3. QED
    BY <1>0, <2>1, <2>2 DEF IInv, Types
<1>4. Types'
  BY <1>2, <1>3 DEF EnqueueTxn, IInv, Types
<1> HIDE DEF r
<1>5. HasPushee'
  BY <1>0, <1>1, <1>2 DEF IInv, HasPushee
<1>6. Truth'
  BY <1>1, <1>2, <1>3 DEF EnqueueTxn, IInv, Truth, Final
<1>7. Joined' /\ Told'
  BY <1>1, <1>2, <1>3 DEF EnqueueTxn, IInv, Joined, Told, HasPushee
<1>8. QED
  BY <1>4, <1>5, <1>6, <1>7 DEF IInv

\* A request runs into a lock and pushes.
LEMMA PushKeeps ==
  ASSUME IInv, NEW p \in Txn, NEW u \in Txn, Push(p, u)
  PROVE  IInv'
<1> DEFINE r == [NoPush EXCEPT !.pc = "intercept", !.pushee = u]
<1>1. r \in PushRecord /\ r.pc = "intercept" /\ r.pushee = u
  BY DEF NoPush, PushRecord, PC, Status
<1>2. /\ push' = [push EXCEPT ![p] = r]
      /\ query' \in [Txn -> QueryRecord]
      /\ UNCHANGED <<status, scen, prio, queue, update, query>>
  BY DEF Push, IInv, Types
<1> HIDE DEF r
<1>3. QED
  BY <1>1, <1>2, LeaveKeeps

\* A waiter takes what is in its channel and leaves.
LEMMA ReceivePendingKeeps ==
  ASSUME IInv, NEW p \in Txn, ReceivePending(p)
  PROVE  IInv'
<1>1. /\ query' \in [Txn -> QueryRecord]
      /\ \A u \in Txn : query'[u].pc = "final" => query[u].pc = "final"
      /\ UNCHANGED <<status, scen, prio, queue, update>>
  BY QueriesCancel DEF ReceivePending, IInv, Types
<1>2. push[p].pushee \in Txn
  BY DEF ReceivePending, IInv, HasPushee
<1>3. CASE push' = Returned(p)
  BY <1>1, <1>3, ReturnedRecord, LeaveKeeps DEF IInv
<1>4. CASE push' = Left(p, "eval")
  BY <1>1, <1>2, <1>4, LeftRecord, LeaveKeeps DEF IInv, PC
<1>5. QED
  BY <1>3, <1>4 DEF ReceivePending

\* A waiter queries its pushee: it leaves, or has seen the pushee pending.
LEMMA PusheeTxnTimerKeeps ==
  ASSUME IInv, NEW p \in Txn, PusheeTxnTimer(p)
  PROVE  IInv'
<1> DEFINE u == push[p].pushee
           refreshed == IF p \in queue[u].pushes
                        THEN [queue EXCEPT ![u].status = status[u], ![u].prio = prio[u]]
                        ELSE queue
<1>1. /\ u \in Txn
      /\ UNCHANGED <<status, scen, prio, update>>
  BY DEF PusheeTxnTimer, IInv, HasPushee
<1>2. /\ refreshed \in [Txn -> EntryRecord]
      /\ \A t \in Txn : /\ refreshed[t].pushes = queue[t].pushes
                        /\ refreshed[t].status \in Final => queue[t].status \in Final \/ status[t] \in Final
  <2> DEFINE e == [queue[u] EXCEPT !.status = status[u], !.prio = prio[u]]
  <2>1. queue[u] \in EntryRecord /\ status[u] \in Status /\ prio[u] \in Nat
    BY <1>1 DEF IInv, Types
  <2>2. e \in EntryRecord /\ e.pushes = queue[u].pushes /\ e.status = status[u]
    BY <2>1 DEF EntryRecord
  <2>3. refreshed = IF p \in queue[u].pushes THEN [queue EXCEPT ![u] = e] ELSE queue
    BY <1>1 DEF IInv, Types
  <2> HIDE DEF e, refreshed
  <2>4. QED
    BY <1>1, <2>2, <2>3 DEF IInv, Types
<1>3. /\ Cancelled(query, p) \in [Txn -> QueryRecord]
      /\ \A t \in Txn : Cancelled(query, p)[t].pc = "final" => query[t].pc = "final"
  BY QueriesCancel DEF IInv, Types
<1>4. CASE status[u] = "ABORTED" /\ UpdateTxn(u, "ABORTED", Cancelled(query, p), Returned(p))
  <2>1. /\ Returned(p) \in [Txn -> PushRecord]
        /\ \A t \in Txn : Returned(p)[t] = push[t] \/ Returned(p)[t].pc = "run"
    BY ReturnedRecord DEF IInv, Types
  <2>2. /\ update' \in [Txn -> SUBSET Status]
        /\ \A t \in Txn : update'[t] = update[t]
    BY <1>1 DEF IInv, Types
  <2>3. "ABORTED" \in Status /\ "ABORTED" \in Final
    BY DEF Status, Final
  <2>4. QED
    BY <1>1, <1>3, <1>4, <2>1, <2>2, <2>3, UpdateTxnKeeps
<1>5. CASE /\ queue' = refreshed /\ query' = Cancelled(query, p)
           /\ push' = Returned(p) \/ push' = Left(p, "eval")
  <2>1. PICK r \in PushRecord : /\ push' = [push EXCEPT ![p] = r]
                                /\ r.pc # "wait" /\ (r.pc = "run" \/ r.pushee = u)
    BY <1>5, ReturnedRecord, LeftRecord, SMT, Z3 DEF IInv, PC
  <2>2. /\ push' \in [Txn -> PushRecord]
        /\ \A t \in Txn : push'[t] = IF t = p THEN r ELSE push[t]
    BY <2>1 DEF IInv, Types
  <2> HIDE DEF refreshed
  <2>3. QED
    BY <1>1, <1>2, <1>3, <1>5, <2>1, <2>2, StepKeeps
<1>6. CASE /\ status[u] = "PENDING" /\ queue' = refreshed /\ UNCHANGED query
           /\ push' = [push EXCEPT ![p].timer = FALSE, ![p].pusheePrio = prio[u]]
  <2> DEFINE r == [push[p] EXCEPT !.timer = FALSE, !.pusheePrio = prio[u]]
  <2>1. push[p] \in PushRecord /\ prio[u] \in Nat
    BY <1>1 DEF IInv, Types
  <2>2. r \in PushRecord /\ r.pc = push[p].pc /\ r.pushee = u /\ r.note = push[p].note
    BY <2>1 DEF PushRecord
  <2>3. push' = [push EXCEPT ![p] = r]
    BY <1>6 DEF IInv, Types
  <2> HIDE DEF r, refreshed
  <2>4. /\ push' \in [Txn -> PushRecord] /\ query' \in [Txn -> QueryRecord]
        /\ \A t \in Txn : push'[t] = IF t = p THEN r ELSE push[t]
    BY <1>6, <2>2, <2>3 DEF IInv, Types
  <2>5. status[u] \notin Final
    BY <1>6 DEF Final
  <2>6. QED
    BY <1>1, <1>2, <1>6, <2>2, <2>4, <2>5, StepKeeps
<1>7. QED
  BY <1>4, <1>5, <1>6 DEF PusheeTxnTimer

\* A waiter looks at the answer about itself and may break a deadlock.
LEMMA ReceivePusherKeeps ==
  ASSUME IInv, NEW p \in Txn, ReceivePusher(p)
  PROVE  IInv'
<1> DEFINE u == push[p].pushee
           high == IF query[p].prio > push[p].pusherPrio THEN query[p].prio ELSE push[p].pusherPrio
           released == releaseWaitingQueriesLocked(query, u)
<1>1. /\ u \in Txn
      /\ queue' \in [Txn -> EntryRecord]
      /\ UNCHANGED <<status, scen, prio, queue, update>>
  BY DEF ReceivePusher, IInv, Types, HasPushee
<1>2. /\ released \in [Txn -> QueryRecord]
      /\ \A t \in Txn : released[t].pc = "final" => query[t].pc = "final"
  BY <1>1, QueriesRelease DEF IInv
<1>3. CASE push' = Left(p, "run") /\ query' = Cancelled(query, p)
  <2>1. /\ query' \in [Txn -> QueryRecord]
        /\ \A t \in Txn : query'[t].pc = "final" => query[t].pc = "final"
    BY <1>3, QueriesCancel DEF IInv, Types
  <2>2. QED
    BY <1>1, <1>3, <2>1, LeftRecord, LeaveKeeps DEF IInv, PC
<1>4. CASE push' = Left(p, "force") /\ query' = Cancelled(released, p)
  <2>1. /\ query' \in [Txn -> QueryRecord]
        /\ \A t \in Txn : query'[t].pc = "final" => query[t].pc = "final"
    BY <1>2, <1>4, QueriesCancel
  <2>2. QED
    BY <1>1, <1>4, <2>1, LeftRecord, LeaveKeeps DEF IInv, PC
<1>5. CASE /\ push' = [push EXCEPT ![p].pusherPrio = high]
           /\ query' = [released EXCEPT ![p].pc = "send"]
  <2> DEFINE r == [push[p] EXCEPT !.pusherPrio = high]
  <2>1. push[p] \in PushRecord /\ high \in Nat
    BY DEF IInv, Types, PushRecord, QueryRecord
  <2> HIDE DEF high
  <2>2. /\ r \in PushRecord /\ r.pc = push[p].pc /\ r.pushee = u
        /\ r.note = push[p].note /\ r.timer = push[p].timer
    BY <2>1 DEF PushRecord
  <2>3. push' = [push EXCEPT ![p] = r]
    BY <1>5 DEF IInv, Types
  <2> HIDE DEF r
  <2>4. /\ push' \in [Txn -> PushRecord]
        /\ \A t \in Txn : push'[t] = IF t = p THEN r ELSE push[t]
    BY <2>2, <2>3 DEF IInv, Types
  <2> HIDE DEF released
  <2>5. /\ query' \in [Txn -> QueryRecord]
        /\ \A t \in Txn : query'[t].pc = "final" => query[t].pc = "final"
    BY <1>2, <1>5 DEF QueryRecord
  <2>6. QED
    BY <1>1, <2>2, <2>4, <2>5, StepKeeps
<1>6. QED
  BY <1>3, <1>4, <1>5 DEF ReceivePusher

\* forcePushAbort: the pushee is finalized, then or before.
LEMMA ForcePushAbortKeeps ==
  ASSUME IInv, NEW p \in Txn, ForcePushAbort(p)
  PROVE  IInv'
<1>1. /\ push[p].pushee \in Txn /\ push' = Returned(p)
      /\ prio' \in [Txn -> Nat] /\ query' \in [Txn -> QueryRecord]
      /\ UNCHANGED <<scen, prio, queue, query>>
  BY DEF ForcePushAbort, IInv, Types, HasPushee
<1>2. CASE WriteStatus(push[p].pushee, "ABORTED")
  BY <1>1, <1>2, ReturnedRecord, WriteKeeps DEF IInv, Status, Final
<1>3. CASE UNCHANGED <<status, update>>
  BY <1>1, <1>3, ReturnedRecord, LeaveKeeps DEF IInv
<1>4. QED
  BY <1>2, <1>3 DEF ForcePushAbort

\* The steps of the goroutine that queries the pusher's record.
LEMMA QueryKeeps ==
  ASSUME IInv, NEW p \in Txn, MaybeWaitForQuery(p) \/ MaxWaitForQueryTxn(p) \/ QueryTxn(p)
  PROVE  IInv'
<1>1. /\ queue' \in [Txn -> EntryRecord]
      /\ UNCHANGED <<status, scen, prio, queue, update>>
  BY DEF MaybeWaitForQuery, MaxWaitForQueryTxn, QueryTxn, IInv, Types
<1>2. CASE MaybeWaitForQuery(p) \/ MaxWaitForQueryTxn(p)
  <2>1. /\ query' \in [Txn -> QueryRecord]
        /\ \A t \in Txn : query'[t].pc = "final" => query[t].pc = "final"
    <3>1. query[p] \in QueryRecord /\ (~queue[p].on) \in BOOLEAN
      BY DEF IInv, Types, EntryRecord
    <3>2. PICK x \in QueryRecord : x.pc # "final" /\ query' = [query EXCEPT ![p] = x]
      <4>1. CASE query' = [query EXCEPT ![p].pc = "eval"]
        <5>1. [query[p] EXCEPT !.pc = "eval"] \in QueryRecord
          BY <3>1 DEF QueryRecord
        <5>2. [query[p] EXCEPT !.pc = "eval"].pc # "final"
          BY <3>1 DEF QueryRecord
        <5>3. QED
          BY <4>1, <5>1, <5>2
      <4>2. CASE query' = [query EXCEPT ![p].pc = "wait", ![p].bounded = ~queue[p].on]
        <5> DEFINE x == [query[p] EXCEPT !.pc = "wait", !.bounded = ~queue[p].on]
        <5>1. x \in QueryRecord /\ x.pc # "final"
          BY <3>1 DEF QueryRecord
        <5>2. query' = [query EXCEPT ![p] = x]
          BY <4>2 DEF IInv, Types
        <5>3. QED
          BY <5>1, <5>2
      <4>3. QED
        BY <1>2, <4>1, <4>2 DEF MaybeWaitForQuery, MaxWaitForQueryTxn
    <3>3. QED
      BY <3>2 DEF IInv, Types
  <2>2. push' \in [Txn -> PushRecord] /\ UNCHANGED push
    BY <1>2 DEF MaybeWaitForQuery, MaxWaitForQueryTxn, IInv, Types
  <2>3. QED
    BY <1>1, <2>1, <2>2, StepKeeps
<1>3. CASE QueryTxn(p)
  <2> DEFINE r == [push[p] EXCEPT !.deps = @ \union GetDependents(p)]
             x == [pc |-> IF status[p] \in Final THEN "final" ELSE "reply",
                   known |-> GetDependents(p), bounded |-> FALSE,
                   prio |-> IF prio[p] > query[p].prio THEN prio[p] ELSE query[p].prio]
  <2>1. GetDependents(p) \in SUBSET Txn
    BY SMT, Z3 DEF GetDependents, getDependentsSet, IInv, Types, EntryRecord, PushRecord
  <2>2. push[p] \in PushRecord /\ query[p] \in QueryRecord /\ prio[p] \in Nat
    BY DEF IInv, Types
  <2>3. /\ r \in PushRecord /\ r.pc = push[p].pc /\ r.pushee = push[p].pushee
        /\ r.note = push[p].note /\ r.timer = push[p].timer
    BY <2>1, <2>2 DEF PushRecord
  <2>4. x \in QueryRecord /\ (x.pc = "final" => status[p] \in Final)
    BY <2>1, <2>2 DEF QueryRecord
  <2>5. push' = [push EXCEPT ![p] = r] /\ query' = [query EXCEPT ![p] = x]
    BY <1>3 DEF QueryTxn, IInv, Types
  <2> HIDE DEF r, x
  <2>6. /\ push' \in [Txn -> PushRecord] /\ query' \in [Txn -> QueryRecord]
        /\ \A t \in Txn : push'[t] = IF t = p THEN r ELSE push[t]
        /\ \A t \in Txn : query'[t] = IF t = p THEN x ELSE query[t]
    BY <2>3, <2>4, <2>5 DEF IInv, Types
  <2>7. QED
    BY <1>1, <2>3, <2>4, <2>6, StepKeeps
<1>4. QED
  BY <1>2, <1>3

\* EndTxn of a transaction that waits for nobody.
LEMMA EndTxnKeeps ==
  ASSUME IInv, NEW t \in Txn, Commit(t) \/ Rollback(t)
  PROVE  IInv'
<1> DEFINE r == [Left(t, "done")[t] EXCEPT !.pushee = NoTxn]
<1>1. r \in PushRecord /\ r.pc = "done"
  <2>1. Left(t, "done")[t] \in PushRecord /\ Left(t, "done")[t].pc = "done"
    BY LeftRecord DEF IInv, PC
  <2>2. QED
    BY <2>1 DEF PushRecord
<1>2. /\ push' = [push EXCEPT ![t] = r]
      /\ prio' \in [Txn -> Nat]
      /\ UNCHANGED <<scen, queue, query>>
  BY DEF Commit, Rollback, IInv, Types
<1> HIDE DEF r
<1>3. PICK s \in Final : WriteStatus(t, s)
  BY DEF Commit, Rollback, Final
<1>4. QED
  BY <1>1, <1>2, <1>3, WriteKeeps DEF Status

\* OnTransactionUpdated: one of the UpdateTxn calls on their way.
LEMMA OnTransactionUpdatedKeeps ==
  ASSUME IInv, NEW t \in Txn, OnTransactionUpdated(t)
  PROVE  IInv'
<1>1. PICK s \in update[t] : UpdateTxn(t, s, query, push) /\ update' = [update EXCEPT ![t] = @ \ {s}]
  BY DEF OnTransactionUpdated
<1>2. s \in Status /\ (s \in Final => status[t] \in Final)
  BY DEF IInv, Types, Truth
<1>3. /\ update' \in [Txn -> SUBSET Status]
      /\ \A u \in Txn : update'[u] \subseteq update[u] /\ (u # t => update'[u] = update[u])
  BY <1>1 DEF IInv, Types
<1>4. query \in [Txn -> QueryRecord] /\ push \in [Txn -> PushRecord] /\ UNCHANGED <<status, scen, prio>>
  BY DEF OnTransactionUpdated, IInv, Types
<1>5. QED
  BY <1>1, <1>2, <1>3, <1>4, UpdateTxnKeeps

\* Clear: all waiters are sent on without an answer.
LEMMA ClearKeeps ==
  ASSUME IInv, NEW t \in Txn, Clear(t)
  PROVE  IInv'
<1>1. /\ query \in [Txn -> QueryRecord] /\ push \in [Txn -> PushRecord]
      /\ update' \in [Txn -> SUBSET Status] /\ UNCHANGED <<status, scen, prio, update>>
  BY DEF Clear, IInv, Types
<1>2. UpdateTxn(t, "CLEARED", query, push) /\ "CLEARED" \notin Final
  BY DEF Clear, Final
<1>3. QED
  BY <1>1, <1>2, UpdateTxnKeeps

\* A cancelled request leaves its waitingPush in the entry.
LEMMA AbandonKeeps ==
  ASSUME IInv, NEW p \in Txn, NEW c \in BOOLEAN, Abandon(p, c)
  PROVE  IInv'
<1>1. /\ query' \in [Txn -> QueryRecord]
      /\ \A u \in Txn : query'[u].pc = "final" => query[u].pc = "final"
      /\ UNCHANGED <<status, scen, prio, queue, update>>
  BY QueriesCancel DEF Abandon, IInv, Types
<1>2. push' = Left(p, "done") \/ push' = Left(p, "giveup")
  BY DEF Abandon
<1>3. PICK r \in PushRecord : push' = [push EXCEPT ![p] = r] /\ r.pc \in {"done", "giveup"}
  BY <1>2, LeftRecord, SMT, Z3 DEF IInv, PC
<1>4. QED
  BY <1>1, <1>3, LeaveKeeps

\* A pushed timestamp writes a record that stays pending.
LEMMA PushTimestampKeeps ==
  ASSUME IInv, NEW t \in Txn, NEW pr \in Prio, PushTimestamp(t, pr)
  PROVE  IInv'
<1>1. /\ push' = [push EXCEPT ![t] = push[t]] /\ push[t] \in PushRecord
      /\ prio' \in [Txn -> Nat]
      /\ WriteStatus(t, "PENDING") /\ status[t] \notin Final
      /\ UNCHANGED <<scen, queue, query>>
  BY TxnAssumption DEF PushTimestamp, IInv, Types, Final
<1>2. push[t].pc \in {"intercept", "eval", "enqueue", "wait", "force"} => push[t].pushee \in Txn
  BY DEF IInv, HasPushee
<1>3. QED
  BY <1>1, <1>2, WriteKeeps DEF Status

-----------------------------------------------------------------------------
(* The theorems *)

\* At first nobody waits and nothing is known.
LEMMA InitInv == Init => IInv
<1> SUFFICES ASSUME Init PROVE IInv
  OBVIOUS
<1>1. /\ NoPush \in PushRecord /\ NoQuery \in QueryRecord /\ NoEntry \in EntryRecord
      /\ [NoPush EXCEPT !.pc = "done"] \in PushRecord
      /\ [NoPush EXCEPT !.pc = "run"] \in PushRecord
  BY DEF NoPush, NoQuery, NoEntry, PushRecord, QueryRecord, EntryRecord, Status, PC
<1>2. scen.base \in [Txn -> Nat] /\ prio = scen.base
  BY TxnAssumption DEF Init
<1>3. Types
  BY <1>1, <1>2 DEF Init, Types, Status, Final
<1>4. \A p \in Txn : push[p].pc \in {"run", "done"}
  BY DEF Init, NoPush
<1>5. /\ \A t \in Txn : queue[t].status = "PENDING" /\ update[t] = {} /\ query[t].pc = "none"
  BY DEF Init, NoEntry, NoQuery
<1>6. QED
  BY <1>3, <1>4, <1>5 DEF IInv, HasPushee, Truth, Joined, Told, Final

\* The invariant is inductive.
LEMMA NextKeeps == IInv /\ [Next]_vars => IInv'
<1> SUFFICES ASSUME IInv, [Next]_vars PROVE IInv'
  OBVIOUS
<1>1. CASE UNCHANGED vars
  BY <1>1 DEF vars, IInv, Types, HasPushee, Truth, Joined, Told
<1>2. CASE Next
  <2>1. PICK p \in Txn :
          \/ PushStep(p) \/ QueryStep(p)
          \/ ReceivePending(p) \/ PusheeTxnTimer(p) \/ OnTransactionUpdated(p)
          \/ Clear(p)
          \/ \E u \in Txn : Push(p, u)
          \/ \E c \in BOOLEAN : Abandon(p, c)
          \/ \E pr \in Prio : PushTimestamp(p, pr)
    BY <1>2 DEF Next
  <2>2. CASE PushStep(p)
    BY <2>2, MaybeWaitForPushKeeps, EvalPushTxnKeeps, EnqueueTxnKeeps, ForcePushAbortKeeps,
       EndTxnKeeps DEF PushStep
  <2>3. CASE QueryStep(p)
    BY <2>3, QueryKeeps, ReceivePusherKeeps DEF QueryStep
  <2>4. QED
    BY <2>1, <2>2, <2>3, ReceivePendingKeeps, PusheeTxnTimerKeeps, OnTransactionUpdatedKeeps,
       ClearKeeps, PushKeeps, AbandonKeeps, PushTimestampKeeps
<1>3. QED
  BY <1>1, <1>2

\* The inductive invariant holds in every state of the wait queue.
LEMMA Invariance == Spec => []IInv
BY InitInv, NextKeeps, PTL DEF Spec

\* For any transactions, priorities and order of events, a waiter of
\* MaybeWaitForPush whose pushee is finalized has been told, has its first query
\* of the pushee ahead, or is in the entry that a coming UpdateTxn drops.
THEOREM WaitersAreTold == Spec => []NoLostWakeup
<1>1. IInv => NoLostWakeup
  BY DEF IInv, Joined, Told, NoLostWakeup
<1>2. QED
  BY <1>1, Invariance, PTL

\* For any transactions, priorities and order of events, a push returns only when
\* its pushee, or the pusher itself, is finalized: no entry, notification or
\* query of the wait queue claims more than the record says.
THEOREM PushesAnsweredTruly == Spec => PushAnsweredTruly
<1> DEFINE A == \A p \in Txn :
                  /\ push[p].pc \in {"intercept", "eval", "wait", "force"}
                  /\ push'[p].pc = "run"
                  => status'[push[p].pushee] \in Final \/ status[p] \in Final
<1>1. IInv /\ [Next]_vars => [A]_vars
  <2> SUFFICES ASSUME IInv, Next, NEW p \in Txn,
                      push[p].pc \in {"intercept", "eval", "wait", "force"}, push'[p].pc = "run"
               PROVE  status'[push[p].pushee] \in Final \/ status[p] \in Final
    OBVIOUS
  <2>1. \A w \in [Txn -> PushRecord] : \A t, s, q : UpdateTxn(t, s, q, w) => push'[p].pc = w[p].pc
    BY SMT, Z3 DEF UpdateTxn, PushRecord
  <2>2. ASSUME NEW x \in Txn,
               \/ PushStep(x) \/ QueryStep(x)
               \/ ReceivePending(x) \/ PusheeTxnTimer(x) \/ OnTransactionUpdated(x)
               \/ Clear(x)
               \/ \E u \in Txn : Push(x, u)
               \/ \E c \in BOOLEAN : Abandon(x, c)
               \/ \E pr \in Prio : PushTimestamp(x, pr)
        PROVE  status'[push[p].pushee] \in Final \/ status[p] \in Final
    <3>1. /\ push \in [Txn -> PushRecord] /\ Returned(x) \in [Txn -> PushRecord]
          /\ \A pc \in PC : Left(x, pc) \in [Txn -> PushRecord]
          /\ \A t \in Txn : t # x => Returned(x)[t] = push[t]
          /\ \A t \in Txn, pc \in PC : Left(x, pc)[t].pc = IF t = x THEN pc ELSE push[t].pc
      <4>1. /\ push \in [Txn -> PushRecord] /\ Returned(x) \in [Txn -> PushRecord]
            /\ \A t \in Txn : t # x => Returned(x)[t] = push[t]
        BY ReturnedRecord DEF IInv, Types
      <4>2. ASSUME NEW pc \in PC
            PROVE  /\ Left(x, pc) \in [Txn -> PushRecord]
                   /\ \A t \in Txn : Left(x, pc)[t].pc = IF t = x THEN pc ELSE push[t].pc
        <5>1. PICK r \in PushRecord : Left(x, pc) = [push EXCEPT ![x] = r] /\ r.pc = pc
          BY LeftRecord, SMT, Z3 DEF IInv
        <5>2. QED
          BY <4>1, <5>1
      <4>3. QED
        BY <4>1, <4>2
    <3>2. CASE MaybeWaitForPush(x)
      <4>1. x = p
        BY <3>1, <3>2 DEF MaybeWaitForPush
      <4>2. waitingPush(p, push[p].pushee).pc = "wait" /\ push[p].pushee \in Txn
        BY DEF waitingPush, NoPush, IInv, HasPushee
      <4>3. isPushed(queue[push[p].pushee].status) /\ UNCHANGED status
        BY <3>1, <3>2, <4>1, <4>2, SMT, Z3 DEF MaybeWaitForPush, PushRecord
      <4>4. QED
        BY <4>2, <4>3 DEF isPushed, IInv, Truth
    <3>3. CASE EvalPushTxn(x)
      <4>1. x = p
        BY <3>1, <3>3 DEF EvalPushTxn
      <4>2. push[p].pushee \in Txn
        BY DEF IInv, HasPushee
      <4>3. ~(push' = [push EXCEPT ![p].pc = "enqueue", ![p].errPrio = prio[push[p].pushee]])
        BY <3>1, SMT, Z3 DEF PushRecord
      <4>4. QED
        BY <3>3, <4>1, <4>2, <4>3 DEF EvalPushTxn, WriteStatus, IInv, Types, Final
    <3>4. CASE EnqueueTxn(x)
      BY <3>1, <3>4 DEF EnqueueTxn, PushRecord
    <3>5. CASE ForcePushAbort(x)
      BY <3>1, <3>5 DEF ForcePushAbort, WriteStatus, IInv, Types, HasPushee, Status, Final
    <3>6. CASE Commit(x) \/ Rollback(x)
      <4>1. x # p
        BY <3>6 DEF Commit, Rollback
      <4>2. push'[p] = push[p]
        BY <3>1, <3>6, <4>1 DEF Commit, Rollback
      <4>3. QED
        BY <4>2
    <3>7. CASE MaybeWaitForQuery(x) \/ MaxWaitForQueryTxn(x) \/ QueryTxn(x)
      <4>1. push' = push \/ push' = [push EXCEPT ![x].deps = @ \union GetDependents(x)]
        BY <3>7 DEF MaybeWaitForQuery, MaxWaitForQueryTxn, QueryTxn
      <4>2. push'[p].pc = push[p].pc
        BY <3>1, <4>1, SMT, Z3 DEF PushRecord
      <4>3. QED
        BY <4>2
    <3>8. CASE ReceivePusher(x)
      <4> DEFINE high == IF query[x].prio > push[x].pusherPrio THEN query[x].prio ELSE push[x].pusherPrio
      <4>1. \A n : [push EXCEPT ![x].pusherPrio = n][p].pc = push[p].pc
        BY <3>1, SMT, Z3 DEF PushRecord
      <4>2. push' # [push EXCEPT ![x].pusherPrio = high]
        BY <4>1
      <4>3. push' # Left(x, "force")
        BY <3>1 DEF PC
      <4>4. push' = Left(x, "run") /\ query[x].pc = "final"
        BY <3>8, <4>2, <4>3 DEF ReceivePusher
      <4>5. x = p
        BY <3>1, <4>4 DEF PC
      <4>6. QED
        BY <4>4, <4>5 DEF IInv, Truth
    <3>9. CASE ReceivePending(x)
      BY <3>1, <3>9 DEF ReceivePending, isPushed, IInv, Truth, PC
    <3>10. CASE PusheeTxnTimer(x)
      <4>1. CASE push'[p].pc = Returned(x)[p].pc /\ status[push[x].pushee] \in Final /\ UNCHANGED status
        <5>1. x = p
          BY <3>1, <4>1
        <5>2. QED
          BY <4>1, <5>1
      <4>2. CASE push' = Left(x, "eval")
        BY <3>1, <4>2 DEF PC
      <4>3. CASE push' = [push EXCEPT ![x].timer = FALSE, ![x].pusheePrio = prio[push[x].pushee]]
        BY <3>1, <4>3, SMT, Z3 DEF PushRecord
      <4>4. CASE UpdateTxn(push[x].pushee, "ABORTED", Cancelled(query, x), Returned(x))
              /\ status[push[x].pushee] = "ABORTED" /\ UNCHANGED status
        BY <2>1, <3>1, <4>1, <4>4 DEF Final
      <4>5. QED
        BY <3>10, <4>1, <4>2, <4>3, <4>4 DEF PusheeTxnTimer, Final
    <3>11. CASE OnTransactionUpdated(x) \/ Clear(x)
      BY <2>1, <3>1, <3>11 DEF OnTransactionUpdated, Clear
    <3>12. CASE \E u \in Txn : Push(x, u)
      BY <3>1, <3>12 DEF Push, NoPush
    <3>13. CASE \E c \in BOOLEAN : Abandon(x, c)
      BY <3>1, <3>13, SMT, Z3 DEF Abandon, PC
    <3>14. CASE \E pr \in Prio : PushTimestamp(x, pr)
      BY <3>14 DEF PushTimestamp
    <3>15. QED
      BY <2>2, <3>2, <3>3, <3>4, <3>5, <3>6, <3>7, <3>8, <3>9, <3>10, <3>11, <3>12, <3>13, <3>14
         DEF PushStep, QueryStep
  <2>3. QED
    BY <2>2 DEF Next
<1>2. QED
  BY <1>1, Invariance, PTL DEF Spec, PushAnsweredTruly
=============================================================================
