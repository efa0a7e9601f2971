--------------------------- MODULE TxnWaitQueue ---------------------------
(***************************************************************************)
(* The transaction wait queue (pkg/kv/kvserver/txnwait/queue.go): where    *)
(* pushers of a transaction that cannot be pushed yet wait for its record  *)
(* to change, and where distributed deadlocks are found and broken.        *)
(*                                                                         *)
(* The record of every transaction lives on a range of its own, and        *)
(* queue[t] is the pendingTxn of t on that range.  A transaction has one   *)
(* request in flight, so it waits for at most one other: push[p] is its    *)
(* PushTxn request, the waitingPush it becomes and the select loop of      *)
(* MaybeWaitForPush; query[p] is the goroutine that queries p's own record *)
(* while p waits.  Every push is a PUSH_ABORT of a transaction with an     *)
(* ordinary priority.                                                      *)
(***************************************************************************)
EXTENDS Integers, FiniteSets

CONSTANTS
  Txn,          \* the transactions: numbers, ordered as their IDs are
  Prio,         \* the priorities: numbers
  NoTxn,
  Scenarios     \* the situations to consider: the transactions that run,
                \* the others being done, their priorities, who runs
                \* into whose locks, and how many queues are cleared, pushers
                \* abandoned and timestamps pushed by others

ASSUME TxnAssumption ==
  /\ Txn \subseteq Nat /\ Prio \subseteq Nat
  /\ NoTxn \notin Txn
  /\ Scenarios \subseteq [txns : SUBSET Txn, base : [Txn -> Prio],
                           wants : [Txn -> SUBSET Txn], clears : Nat, abandons : Nat, tspushes : Nat]
  /\ \A s \in Scenarios, t \in Txn : t \notin s.wants[t]

VARIABLES
  status,  \* the state of the transaction records
  scen,    \* the scenario; scen.base[t] is the priority t's intents carry
  prio,    \* the priority in its record
  alive,   \* FALSE: the coordinator crashed, the record expires
  queue,   \* q.mu.txns[t]: [on, status, prio, pushes]
  update,  \* the statuses of the UpdateTxn calls still to be made for t
  push,    \* the push of a transaction and where it is
  query,   \* the goroutine of startQueryPusherTxn
  wants,   \* the transactions whose locks a transaction has yet to run into
  used     \* the bounded events taken: [clears, abandons, tspushes]

vars == <<status, scen, prio, alive, queue, update, push, query, wants, used>>

Final == {"COMMITTED", "ABORTED"}

NoPush == [pc |-> "run", pushee |-> NoTxn, note |-> "none", timer |-> FALSE,
           pusherPrio |-> 0, pusheePrio |-> 0, errPrio |-> 0, deps |-> {}]

NoQuery == [pc |-> "none", known |-> {}, prio |-> 0, bounded |-> FALSE]

NoEntry == [on |-> FALSE, status |-> "PENDING", prio |-> 0, pushes |-> {}]

Init ==
  /\ scen \in Scenarios /\ prio = scen.base
  /\ status = [t \in Txn |-> IF t \in scen.txns THEN "PENDING" ELSE "ABORTED"]
  /\ alive = [t \in Txn |-> TRUE]
  /\ queue = [t \in Txn |-> NoEntry]
  /\ update = [t \in Txn |-> {}]
  /\ push = [t \in Txn |-> [NoPush EXCEPT !.pc = IF t \in scen.txns THEN "run" ELSE "done"]]
  /\ query = [t \in Txn |-> NoQuery]
  /\ wants = scen.wants
  /\ used = [clears |-> 0, abandons |-> 0, tspushes |-> 0]

(* A changed isPushed, for the runs that must fail: whatever is not a      *)
(* pending transaction counts, the nil of a cleared queue too.             *)
isPushedIfNotPending(s) == s # "PENDING"

(* isPushed: a PUSH_ABORT is fulfilled when the pushee is finalized. *)
isPushed(s) == s \in Final

(* getDependentsSet: the pushers of t and everyone they know to wait on    *)
(* them.                                                                   *)
getDependentsSet(t) ==
  queue[t].pushes \union UNION {push[p].deps : p \in queue[t].pushes}

(* GetDependents *)
GetDependents(t) == IF queue[t].on THEN getDependentsSet(t) ELSE {}

(* A changed isTxnUpdated: dependents that arrived between two queries are *)
(* not noticed.                                                            *)
isTxnUpdatedNoDependents(t) ==
  queue[t].status \in Final \/ queue[t].prio > query[t].prio

(* isTxnUpdated: does the entry of t differ from what the query knows? *)
isTxnUpdated(t) ==
  \/ queue[t].status \in Final
  \/ queue[t].prio > query[t].prio
  \/ getDependentsSet(t) # query[t].known

(* releaseWaitingQueriesLocked: the query waiting on t goes on to evaluate.*)
releaseWaitingQueriesLocked(q, t) ==
  IF q[t].pc = "wait" THEN [q EXCEPT ![t].pc = "eval"] ELSE q

(* Leaving MaybeWaitForPush cancels the query goroutine.  The waitingPush  *)
(* and its dependents stay where they are; once the pushee is finalized    *)
(* nobody asks for them any more.                                          *)
Left(p, pc) == [push EXCEPT ![p] = [NoPush EXCEPT
                   !.pc = pc, !.pushee = push[p].pushee, !.deps = push[p].deps]]
Returned(p) == [push EXCEPT ![p] = NoPush]
Cancelled(q, p) == [q EXCEPT ![p] = NoQuery]

-----------------------------------------------------------------------------
(* The PushTxn request *)

(* A request of p runs into a lock of u and pushes u. *)
Push(p, u) ==
  /\ push[p].pc = "run" /\ status[p] = "PENDING" /\ alive[p]
  /\ u \in wants[p]
  /\ push' = [push EXCEPT ![p] = [NoPush EXCEPT !.pc = "intercept", !.pushee = u]]
  /\ wants' = [wants EXCEPT ![p] = @ \ {u}]
  /\ UNCHANGED <<status, scen, prio, alive, queue, update, query, used>>

(* A changed waitingPush: the pushee is first queried when it expires. *)
waitingPushNoFirstCheck(p, u) ==
  [NoPush EXCEPT !.pc = "wait", !.pushee = u,
                 !.pusherPrio = scen.base[p], !.pusheePrio = scen.base[u]]

(* The waitingPush and the local state of its select loop: the timer is    *)
(* set to query the pushee at once.                                        *)
waitingPush(p, u) ==
  [NoPush EXCEPT !.pc = "wait", !.pushee = u, !.timer = TRUE,
                 !.pusherPrio = scen.base[p], !.pusheePrio = scen.base[u]]

(* MaybeWaitForPush up to the select loop: without an entry the push is    *)
(* evaluated; an entry that is already finalized answers it; otherwise it  *)
(* joins the entry's pushes, and the query waiting on u learns of the new  *)
(* dependent.                                                              *)
MaybeWaitForPush(p) ==
  LET u == push[p].pushee IN
  /\ push[p].pc = "intercept"
  /\ \/ /\ ~queue[u].on
        /\ push' = [push EXCEPT ![p].pc = "eval"]
        /\ UNCHANGED <<queue, query>>
     \/ /\ queue[u].on /\ isPushed(queue[u].status)
        /\ push' = Returned(p)
        /\ UNCHANGED <<queue, query>>
     \/ /\ queue[u].on /\ ~isPushed(queue[u].status)
        /\ queue' = [queue EXCEPT ![u].pushes = @ \union {p}]
        /\ push' = [push EXCEPT ![p] = waitingPush(p, u)]
        /\ query' = [releaseWaitingQueriesLocked(query, u) EXCEPT
                       ![p] = [NoQuery EXCEPT !.pc = "send", !.prio = scen.base[p]]]
  /\ UNCHANGED <<status, scen, prio, alive, update, wants, used>>

(* The record of t is written, and UpdateTxn is called when the command    *)
(* that wrote it has applied.                                              *)
WriteStatus(t, s) ==
  /\ status' = [status EXCEPT ![t] = s]
  /\ update' = [update EXCEPT ![t] = @ \union {s}]

(* PushTxn: a finalized pushee satisfies the push, an expired one is       *)
(* aborted, any other fails the push with a TransactionPushError.          *)
EvalPushTxn(p) ==
  LET u == push[p].pushee IN
  /\ push[p].pc = "eval"
  /\ \/ /\ status[u] \in Final
        /\ push' = Returned(p)
        /\ UNCHANGED <<status, update>>
     \/ /\ status[u] = "PENDING" /\ ~alive[u]
        /\ push' = Returned(p)
        /\ WriteStatus(u, "ABORTED")
     \/ /\ status[u] = "PENDING" /\ alive[u]
        /\ push' = [push EXCEPT ![p].pc = "enqueue", ![p].errPrio = prio[u]]
        /\ UNCHANGED <<status, update>>
  /\ UNCHANGED <<scen, prio, alive, queue, query, wants, used>>

(* HandleTransactionPushError: EnqueueTxn with the pushee the failed push  *)
(* saw, and the request is sequenced again.                                *)
EnqueueTxn(p) ==
  LET u == push[p].pushee IN
  /\ push[p].pc = "enqueue"
  /\ queue' = [queue EXCEPT ![u] = [@ EXCEPT !.on = TRUE, !.status = "PENDING",
                                             !.prio = push[p].errPrio]]
  /\ push' = [push EXCEPT ![p].pc = "intercept", ![p].errPrio = 0]
  /\ UNCHANGED <<status, scen, prio, alive, update, query, wants, used>>

-----------------------------------------------------------------------------
(* The select loop of MaybeWaitForPush *)

(* push.pending: the queue was cleared or the pushee updated.  A push that *)
(* is not satisfied is evaluated again.                                    *)
ReceivePending(p) ==
  /\ push[p].pc = "wait" /\ push[p].note # "none"
  /\ push' = IF isPushed(push[p].note) THEN Returned(p) ELSE Left(p, "eval")
  /\ query' = Cancelled(query, p)
  /\ UNCHANGED <<status, scen, prio, alive, queue, update, wants, used>>

(* UpdateTxn(t) with a transaction in state s: wakes the query and the     *)
(* pushes waiting on t and drops the entry.                                *)
UpdateTxn(t, s, q, w) ==
  /\ query' = releaseWaitingQueriesLocked(q, t)
  /\ queue' = [queue EXCEPT ![t] = NoEntry]
  /\ push' = [p \in Txn |-> IF /\ p \in queue[t].pushes
                               /\ w[p].pc = "wait" /\ w[p].pushee = t
                            THEN [w[p] EXCEPT !.note = s] ELSE w[p]]

(* pusheeTxnTimer: fires at once, and when the pushee's record expires.    *)
(* The pushee is queried: its priority is remembered, the entry refreshed  *)
(* (the one the push joined, when it is still there), a finalized pushee   *)
(* satisfies the push and an expired one makes it evaluate.                *)
PusheeTxnTimer(p) ==
  LET u == push[p].pushee
      refreshed == IF p \in queue[u].pushes
                   THEN [queue EXCEPT ![u].status = status[u], ![u].prio = prio[u]]
                   ELSE queue
  IN
  /\ push[p].pc = "wait"
  /\ push[p].timer \/ ~alive[u]
  /\ \/ /\ status[u] = "ABORTED"
        /\ UpdateTxn(u, "ABORTED", Cancelled(query, p), Returned(p))
     \/ /\ status[u] = "COMMITTED"
        /\ queue' = refreshed
        /\ push' = Returned(p) /\ query' = Cancelled(query, p)
     \/ /\ status[u] = "PENDING" /\ ~alive[u]
        /\ queue' = refreshed
        /\ push' = Left(p, "eval") /\ query' = Cancelled(query, p)
     \/ /\ status[u] = "PENDING" /\ alive[u]
        /\ queue' = refreshed
        /\ push' = [push EXCEPT ![p].timer = FALSE, ![p].pusheePrio = prio[u]]
        /\ UNCHANGED query
  /\ UNCHANGED <<status, scen, prio, alive, update, wants, used>>

(* A changed BreaksDeadlock: equal priorities are not told apart. *)
BreaksDeadlockOnTie(p, pusherPrio) ==
  push[p].pushee \in push[p].deps /\ push[p].pusheePrio <= pusherPrio

(* Whether the pusher wins the dependency cycle: the higher priority, then *)
(* the higher ID.                                                          *)
BreaksDeadlock(p, pusherPrio) ==
  LET u == push[p].pushee IN
  /\ u \in push[p].deps
  /\ \/ push[p].pusheePrio < pusherPrio
     \/ push[p].pusheePrio = pusherPrio /\ u < p

(* queryPusherCh: the pusher's own record was queried.  A finalized pusher *)
(* gives up; otherwise the queries on the pushee are released, so that     *)
(* they learn of the dependents added here, and a dependency cycle that    *)
(* the pusher wins is broken by a forced push; else the record is queried  *)
(* again.                                                                  *)
ReceivePusher(p) ==
  LET u    == push[p].pushee
      high == IF query[p].prio > push[p].pusherPrio
              THEN query[p].prio ELSE push[p].pusherPrio
  IN
  /\ push[p].pc = "wait"
  /\ query[p].pc \in {"final", "reply"}
  /\ \/ /\ query[p].pc = "final"
        /\ push' = Left(p, "run")
        /\ query' = Cancelled(query, p)
     \/ /\ query[p].pc = "reply" /\ BreaksDeadlock(p, high)
        /\ push' = Left(p, "force")
        /\ query' = Cancelled(releaseWaitingQueriesLocked(query, u), p)
     \/ /\ query[p].pc = "reply" /\ ~BreaksDeadlock(p, high)
        /\ push' = [push EXCEPT ![p].pusherPrio = high]
        /\ query' = [releaseWaitingQueriesLocked(query, u) EXCEPT ![p].pc = "send"]
  /\ UNCHANGED <<status, scen, prio, alive, queue, update, wants, used>>

(* forcePushAbort: the pushee is aborted unless it is finalized already. *)
ForcePushAbort(p) ==
  LET u == push[p].pushee IN
  /\ push[p].pc = "force"
  /\ push' = Returned(p)
  /\ IF status[u] = "PENDING" THEN WriteStatus(u, "ABORTED")
                              ELSE UNCHANGED <<status, update>>
  /\ UNCHANGED <<scen, prio, alive, queue, query, wants, used>>

-----------------------------------------------------------------------------
(* The goroutine of startQueryPusherTxn: QueryTxn of the pusher's record   *)

(* MaybeWaitForQuery: a query that can learn something is evaluated;       *)
(* otherwise it waits, for a limited time if p has no entry.               *)
MaybeWaitForQuery(p) ==
  /\ query[p].pc = "send"
  /\ query' = IF queue[p].on /\ isTxnUpdated(p)
              THEN [query EXCEPT ![p].pc = "eval"]
              ELSE [query EXCEPT ![p].pc = "wait", ![p].bounded = ~queue[p].on]
  /\ UNCHANGED <<status, scen, prio, alive, queue, update, push, wants, used>>

(* maxWaitCh *)
MaxWaitForQueryTxn(p) ==
  /\ query[p].pc = "wait" /\ query[p].bounded
  /\ query' = [query EXCEPT ![p].pc = "eval"]
  /\ UNCHANGED <<status, scen, prio, alive, queue, update, push, wants, used>>

(* QueryTxn, and what the goroutine does with the answer: the dependents   *)
(* accumulate in the push, the last answer is what the next query knows.   *)
QueryTxn(p) ==
  /\ query[p].pc = "eval"
  /\ push' = [push EXCEPT ![p].deps = @ \union GetDependents(p)]
  /\ query' = [query EXCEPT
       ![p] = [pc |-> IF status[p] \in Final THEN "final" ELSE "reply",
               known |-> GetDependents(p), bounded |-> FALSE,
               prio |-> IF prio[p] > @.prio THEN prio[p] ELSE @.prio]]
  /\ UNCHANGED <<status, scen, prio, alive, queue, update, wants, used>>

-----------------------------------------------------------------------------
(* Transactions, their coordinators and the ranges of their records *)

(* EndTxn(commit) of a transaction that waits for nobody. *)
Commit(t) ==
  /\ push[t].pc = "run" /\ alive[t] /\ status[t] = "PENDING"
  /\ WriteStatus(t, "COMMITTED")
  /\ push' = [push EXCEPT ![t] = [Left(t, "done")[t] EXCEPT !.pushee = NoTxn]]
  /\ UNCHANGED <<scen, prio, alive, queue, query, wants, used>>

(* EndTxn(rollback), of a client that gave up or of an aborted transaction.*)
Rollback(t) ==
  /\ \/ push[t].pc = "giveup" /\ status[t] # "COMMITTED"
     \/ push[t].pc = "run" /\ alive[t] /\ status[t] = "ABORTED"
  /\ WriteStatus(t, "ABORTED")
  /\ push' = [push EXCEPT ![t] = [Left(t, "done")[t] EXCEPT !.pushee = NoTxn]]
  /\ UNCHANGED <<scen, prio, alive, queue, query, wants, used>>

(* OnTransactionUpdated *)
OnTransactionUpdated(t) ==
  /\ \E s \in update[t] :
       /\ UpdateTxn(t, s, query, push)
       /\ update' = [update EXCEPT ![t] = @ \ {s}]
  /\ UNCHANGED <<status, scen, prio, alive, wants, used>>

(* ctx.Done(): the request of p is cancelled, because its client gives up  *)
(* or because its coordinator crashed.  The waitingPush is left behind.    *)
Abandon(p, crashed) ==
  /\ used.abandons < scen.abandons
  /\ push[p].pc \notin {"done", "giveup"} /\ alive[p]
  /\ used' = [used EXCEPT !.abandons = @ + 1]
  /\ alive' = [alive EXCEPT ![p] = ~crashed]
  /\ push' = Left(p, IF crashed THEN "done" ELSE "giveup")
  /\ query' = Cancelled(query, p)
  /\ UNCHANGED <<status, scen, prio, queue, update, wants>>

(* Clear, on a lease change, split or merge of the range of t's record:    *)
(* every waiter is sent on; the new leaseholder starts with an empty       *)
(* queue.                                                                  *)
Clear(t) ==
  /\ used.clears < scen.clears /\ queue[t].on
  /\ used' = [used EXCEPT !.clears = @ + 1]
  /\ UpdateTxn(t, "CLEARED", query, push)
  /\ UNCHANGED <<status, scen, prio, alive, update, wants>>

(* A reader outside of the model pushes the timestamp of t and raises its  *)
(* priority to just below its own.                                         *)
PushTimestamp(t, pr) ==
  /\ used.tspushes < scen.tspushes
  /\ status[t] = "PENDING" /\ alive[t] /\ pr > prio[t]
  /\ used' = [used EXCEPT !.tspushes = @ + 1]
  /\ prio' = [prio EXCEPT ![t] = pr]
  /\ WriteStatus(t, "PENDING")
  /\ UNCHANGED <<scen, alive, queue, push, query, wants>>

-----------------------------------------------------------------------------
PushStep(p) ==
  \/ MaybeWaitForPush(p) \/ EvalPushTxn(p) \/ EnqueueTxn(p)
  \/ ForcePushAbort(p) \/ Commit(p) \/ Rollback(p)

QueryStep(p) ==
  \/ MaybeWaitForQuery(p) \/ MaxWaitForQueryTxn(p) \/ QueryTxn(p)
  \/ ReceivePusher(p)

Next ==
  \E p \in Txn :
    \/ PushStep(p) \/ QueryStep(p)
    \/ ReceivePending(p) \/ PusheeTxnTimer(p) \/ OnTransactionUpdated(p)
    \/ Clear(p)
    \/ \E u \in Txn : Push(p, u)
    \/ \E c \in BOOLEAN : Abandon(p, c)
    \/ \E pr \in Prio : PushTimestamp(p, pr)

Spec == Init /\ [][Next]_vars

(* Goroutines that can run do run, a ready case of a select loop is taken  *)
(* eventually, timers fire, and a client whose transaction waits for       *)
(* nobody finishes it.  Pushes, crashes, lease changes and timestamp       *)
(* pushes need not happen.                                                 *)
Fairness ==
  \A p \in Txn :
    /\ WF_vars(PushStep(p)) /\ WF_vars(QueryStep(p))
    /\ WF_vars(ReceivePending(p)) /\ WF_vars(PusheeTxnTimer(p))
    /\ WF_vars(OnTransactionUpdated(p))

FairSpec == Spec /\ Fairness
-----------------------------------------------------------------------------

(* A waiter on a finalized transaction is always about to be told: it has  *)
(* an answer in its channel, it has yet to make its first query of the     *)
(* pushee, or it is among the pushes that a coming UpdateTxn wakes.  The   *)
(* failed push, EnqueueTxn and the wait are three steps, and the pushee    *)
(* may finish between any two of them (queue.go, "the pushee might be gone *)
(* by the time the pusher gets here").                                     *)
NoLostWakeup ==
  \A p \in Txn :
    LET u == push[p].pushee IN
    push[p].pc = "wait" /\ status[u] \in Final
      => \/ push[p].note # "none"
         \/ push[p].timer
         \/ p \in queue[u].pushes /\ update[u] # {}

(* While nobody crashes or gives up and priorities stay as they began, not *)
(* every transaction is aborted: of the members of a cycle, the one with   *)
(* the highest priority and ID is nobody's victim, whatever the order in   *)
(* which their queries learn of the cycle (MaybeWaitForPush, "Break the    *)
(* deadlock if the pusher has higher priority").                           *)
SomeoneSurvives ==
  used.abandons = 0 /\ used.tspushes = 0
    => \E t \in Txn : status[t] # "ABORTED"

(* A push is answered only by the truth: when MaybeWaitForPush, PushTxn or *)
(* the forced push return to p, the record of the pushee is finalized, or  *)
(* p's own is.  The answer may come from an entry, a notification or a     *)
(* query that is older than the record.                                    *)
PushAnsweredTruly ==
  [][\A p \in Txn :
       /\ push[p].pc \in {"intercept", "eval", "wait", "force"}
       /\ push'[p].pc = "run"
       => status'[push[p].pushee] \in Final \/ status[p] \in Final]_vars

(* Every push ends: no transaction waits forever on others that all wait,  *)
(* for any cycle, although each waiter learns of the others only through   *)
(* queries of its own record, queues are cleared by lease changes,         *)
(* priorities change and coordinators die (MaybeWaitForPush).              *)
PushEnds ==
  \A p \in Txn : push[p].pc = "wait" ~> push[p].pc # "wait"
=============================================================================
