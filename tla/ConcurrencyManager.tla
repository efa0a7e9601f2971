------------------------- MODULE ConcurrencyManager -------------------------
(***************************************************************************)
(* The concurrency manager of one range: how a request is sequenced with   *)
(* latches and the lock table, waits, pushes, evaluates and leaves.        *)
(*   concurrency/concurrency_manager.go   SequenceReq, FinishReq, the      *)
(*                                        listeners                        *)
(*   concurrency/lock_table_waiter.go     WaitOn, pushLockTxn              *)
(*   spanlatch/manager.go                 Acquire, Release                 *)
(*   replica_send.go                      the retry loop around evaluation *)
(* The lock table itself is module LockTable.                              *)
(*                                                                         *)
(* The transaction records and the wait queue on them (module              *)
(* TxnWaitQueue) are environment: a push returns when its pushee no longer *)
(* conflicts, and may abort a pushee, or move its timestamp.               *)
(***************************************************************************)
EXTENDS LockTable

CONSTANTS
  Txn,         \* transactions
  Scenarios    \* where the range starts: see Init

VARIABLES
  lt,        \* the lock table
  pc,        \* where each request is in the loops of the code
  latched,   \* the requests whose latches are in the latch manager
  before,    \* the latches a request in latched still waits for
  intent,    \* the MVCC intent on each key: [txn, ts] (ts 0: none)
  status,    \* transaction status
  wts,       \* the timestamp in the transaction record
  cache,     \* finalizedTxnCache
  ws,        \* per request: the waiting state its timer or push is about
  up,        \* per request: the update a successful push found
  deferred,  \* per request: keys whose resolution WaitOn deferred, with the txn
  waitOn,    \* per request: intents still to wait on while the table is off
  left       \* what the environment may still do

vars == <<lt, pc, latched, before, intent, status, wts, cache, ws, up, deferred, waitOn,
          left>>

NoIntent == [txn |-> NoTxn, ts |-> 0]
Finalized(t) == status[t] \in {"COMMITTED", "ABORTED"}
Done(r) == pc[r] = "done"
OwnTxnAborted(r) == TxnOf(lt, r) # NoTxn /\ status[TxnOf(lt, r)] = "ABORTED"
Requests(t) == {r \in Req : TxnOf(lt, r) = t}

(***************************************************************************)
(* Latches.  A read latch and a write latch on one key conflict unless the *)
(* read is below the write's timestamp (ignoreLater, ignoreEarlier).       *)
(***************************************************************************)
LatchConflict(a, b) ==
  \E p \in DOMAIN lt.req[a].spans, q \in DOMAIN lt.req[b].spans :
    /\ KeyAt(lt, a, p) = KeyAt(lt, b, q)
    /\ \/ AccessAt(lt, a, p) = "write" /\ AccessAt(lt, b, q) = "write"
       \/ AccessAt(lt, a, p) = "read"  /\ AccessAt(lt, b, q) = "write" /\ lt.req[b].ts <= lt.req[a].ts
       \/ AccessAt(lt, a, p) = "write" /\ AccessAt(lt, b, q) = "read"  /\ lt.req[a].ts <= lt.req[b].ts

\* The latch of ResolveIntent is a write latch at the lock holder's minimum
\* timestamp, which is below every request that meets the lock.
LatchFree(k) == \A r \in latched : \A p \in DOMAIN lt.req[r].spans : KeyAt(lt, r, p) # k

Release(r) ==
  /\ latched' = latched \ {r}
  /\ before' = [a \in Req |-> IF a = r THEN {} ELSE before[a] \ {r}]

KeepLatches == UNCHANGED <<latched, before>>

(***************************************************************************)
(* The loop of sequenceReqWithGuard.                                       *)
(***************************************************************************)
Acquire(r) ==
  /\ pc[r] = "sequence"
  /\ before' = [before EXCEPT ![r] = {a \in latched : LatchConflict(a, r)}]
  /\ latched' = latched \cup {r}
  /\ pc' = [pc EXCEPT ![r] = "latching"]
  /\ UNCHANGED <<lt, intent, status, wts, cache, ws, up, deferred, waitOn, left>>

ScanAndEnqueue(r) ==
  /\ pc[r] = "latching"
  /\ before[r] = {}
  /\ lt' = StartScan(lt, r)
  /\ pc' = [pc EXCEPT ![r] = "scan"]
  /\ KeepLatches
  /\ UNCHANGED <<intent, status, wts, cache, ws, up, deferred, waitOn, left>>

\* A request that need not look at its snapshot again lets go of it.
DropSnapshot(s, r) == Collect([s EXCEPT !.g[r].snap = [k \in Key |-> 0]])

Scan(r) ==
  LET f == FindNextLock(lt, r, TRUE)
      wait == f.s.g[r].startWait IN
  /\ pc[r] = "scan"
  /\ lt' = IF f.over /\ ~wait THEN DropSnapshot(f.s, r) ELSE f.s
  /\ pc' = [pc EXCEPT ![r] = IF ~f.over THEN "scan" ELSE IF wait THEN "wait" ELSE "evaluate"]
  /\ IF f.over /\ wait THEN Release(r) ELSE KeepLatches
  /\ UNCHANGED <<intent, status, wts, cache, ws, up, deferred, waitOn, left>>

(***************************************************************************)
(* lockTableWaiterImpl.                                                    *)
(***************************************************************************)
\* A mutant of ReturnPC: the request evaluates without being sequenced again.
ReturnToEvaluate(r) == IF deferred[r] # {} THEN "resolveDeferred" ELSE "evaluate"

\* WaitOn returns without an error: first resolveDeferredIntents, then the
\* loop of sequenceReqWithGuard goes around.
ReturnPC(r) == IF deferred[r] # {} THEN "resolveDeferred" ELSE "sequence"

\* One turn of WaitOn's switch on the state that CurState returned, in table s.
OnState(s, r) ==
  LET st   == s.g[r].state
      live == st.kind = "waitForDistinguished" /\ st.held
      dead == TxnOf(s, r) # NoTxn
      wait == st.kind \in {"waitFor", "waitForDistinguished"}
      fin  == wait /\ live /\ st.txn \in cache
  IN /\ ws' = [ws EXCEPT ![r] = IF (wait /\ (live \/ dead) /\ ~fin) \/ st.kind = "waitElsewhere"
                                THEN st ELSE NoState]
     /\ pc' = [pc EXCEPT ![r] = CASE st.kind = "waitElsewhere" -> "pushLock"
                                  [] st.kind = "doneWaiting" -> ReturnPC(r)
                                  [] OTHER -> "wait"]
     /\ deferred' = IF fin THEN [deferred EXCEPT ![r] = @ \cup {[txn |-> st.txn, key |-> st.key]}]
                    ELSE deferred
     /\ lt' = IF fin
              THEN Collect(UpdateLocks(s, [txn |-> st.txn, key |-> st.key, final |-> TRUE, ts |-> 0]))
              ELSE IF st.kind = "doneWaiting" THEN DropSnapshot(s, r) ELSE s

NewState(r) ==
  LET s == [lt EXCEPT !.g[r].signal = FALSE] IN
  /\ pc[r] = "wait"
  /\ lt.g[r].signal
  /\ IF lt.g[r].mustFind
     THEN /\ lt' = [s EXCEPT !.g[r].mustFind = FALSE]
          /\ pc' = [pc EXCEPT ![r] = "find"]
          /\ ws' = [ws EXCEPT ![r] = NoState]
          /\ UNCHANGED deferred
     ELSE OnState(s, r)
  /\ KeepLatches
  /\ UNCHANGED <<intent, status, wts, cache, up, waitOn, left>>

\* The search that CurState does on behalf of whoever released the lock.
FindNext(r) ==
  LET f == FindNextLock(lt, r, FALSE) IN
  /\ pc[r] = "find"
  /\ IF f.over THEN OnState(f.s, r)
     ELSE lt' = f.s /\ UNCHANGED <<pc, ws, deferred>>
  /\ KeepLatches
  /\ UNCHANGED <<intent, status, wts, cache, up, waitOn, left>>

TimerFires(r) ==
  /\ pc[r] = "wait"
  /\ ws[r] # NoState
  /\ pc' = [pc EXCEPT ![r] = IF ws[r].held THEN "pushLock" ELSE "pushRequest"]
  /\ KeepLatches
  /\ UNCHANGED <<lt, intent, status, wts, cache, ws, up, deferred, waitOn, left>>

\* PushTransaction returns: the holder is finalized or, for a reader, its
\* timestamp is above the read.
Unblocked(r) ==
  \/ Finalized(ws[r].txn)
  \/ ws[r].acc = "read" /\ wts[ws[r].txn] > lt.req[r].ts

PushLockTxn(r) ==
  LET t == ws[r].txn IN
  /\ pc[r] = "pushLock"
  /\ Unblocked(r)
  /\ cache' = IF Finalized(t) THEN cache \cup {t} ELSE cache
  /\ up' = [up EXCEPT ![r] = [txn |-> t, key |-> ws[r].key, final |-> Finalized(t), ts |-> wts[t]]]
  /\ pc' = [pc EXCEPT ![r] = "resolve"]
  /\ KeepLatches
  /\ UNCHANGED <<lt, intent, status, wts, ws, deferred, waitOn, left>>

\* ResolveIntent: a request of its own, under its own latches.
ResolveIntent(u) ==
  /\ LatchFree(u.key)
  /\ intent' = IF intent[u.key].txn # u.txn THEN intent
               ELSE IF u.final THEN [intent EXCEPT ![u.key] = NoIntent]
               ELSE [intent EXCEPT ![u.key].ts = Forward(@, u.ts)]
  /\ lt' = Collect(UpdateLocks(lt, u))

ResolvePushed(r) ==
  /\ pc[r] = "resolve"
  /\ ResolveIntent(up[r])
  /\ ws' = [ws EXCEPT ![r] = NoState]
  /\ up' = [up EXCEPT ![r] = NoState]
  /\ pc' = [pc EXCEPT ![r] = CASE ws[r].kind = "waitElsewhere" -> ReturnPC(r)
                               [] ws[r].kind = "waitOnLock" -> "waitOnLock"
                               [] OTHER -> "wait"]
  /\ KeepLatches
  /\ UNCHANGED <<status, wts, cache, deferred, waitOn, left>>

ResolveDeferred(r) ==
  /\ pc[r] = "resolveDeferred"
  /\ \E d \in deferred[r] :
       /\ ResolveIntent([txn |-> d.txn, key |-> d.key, final |-> TRUE, ts |-> 0])
       /\ deferred' = [deferred EXCEPT ![r] = @ \ {d}]
       /\ pc' = [pc EXCEPT ![r] = IF deferred[r] = {d} THEN "sequence" ELSE @]
  /\ KeepLatches
  /\ UNCHANGED <<status, wts, cache, ws, up, waitOn, left>>

\* pushRequestTxn returns: the lock table has news for the pusher (the watcher
\* cancels the push and puts the notification back), or the pushee is finalized.
PushRequestTxn(r) ==
  /\ pc[r] = "pushRequest"
  /\ lt.g[r].signal \/ Finalized(ws[r].txn)
  /\ pc' = [pc EXCEPT ![r] = "wait"]
  /\ ws' = [ws EXCEPT ![r] = NoState]
  /\ KeepLatches
  /\ UNCHANGED <<lt, intent, status, wts, cache, up, deferred, waitOn, left>>

(***************************************************************************)
(* Evaluation and the end of a request.                                    *)
(***************************************************************************)
\* The request is over and its guard goes to FinishReq.
Leave(r) ==
  /\ pc' = [pc EXCEPT ![r] = "finish"]
  /\ ws' = [ws EXCEPT ![r] = NoState]
  /\ up' = [up EXCEPT ![r] = NoState]
  /\ deferred' = [deferred EXCEPT ![r] = {}]
  /\ waitOn' = [waitOn EXCEPT ![r] = {}]
  /\ KeepLatches
  /\ UNCHANGED lt

\* FinishReq leaves one lock after the other; a lock at which other requests have
\* ended the wait meanwhile is no longer in the guard's locks.
DequeueOne(r) ==
  /\ pc[r] = "finish"
  /\ \E l \in lt.g[r].locks : lt' = Collect(DequeueFrom(lt, r, l))
  /\ KeepLatches
  /\ UNCHANGED <<pc, intent, status, wts, cache, ws, up, deferred, waitOn, left>>

\* The end of FinishReq: the latches go last.
FinishReq(r) ==
  /\ pc[r] = "finish"
  /\ lt.g[r].locks = {}
  /\ lt' = Collect(DequeueEnd(lt, r))
  /\ Release(r)
  /\ pc' = [pc EXCEPT ![r] = "done"]
  /\ UNCHANGED <<intent, status, wts, cache, ws, up, deferred, waitOn, left>>

\* The intents of other transactions in the way of the request.
Conflicting(r) ==
  {k \in Key : /\ intent[k].txn \notin {NoTxn, TxnOf(lt, r)}
               /\ \E p \in DOMAIN lt.req[r].spans :
                    /\ KeyAt(lt, r, p) = k
                    /\ AccessAt(lt, r, p) = "write" \/ intent[k].ts <= lt.req[r].ts}

\* Evaluation meets intents: HandleWriterIntentError.
DiscoverIntents(r) ==
  /\ pc[r] = "evaluate"
  /\ \E ks \in SUBSET Conflicting(r) \ {{}} :
       LET add(s, k) == AddDiscoveredLock(s, k, intent[k].txn, intent[k].ts, r) IN
       /\ lt' = FoldLeft(add, lt, SetToSeq(ks))
       /\ waitOn' = [waitOn EXCEPT ![r] = IF lt.enabled THEN {}
                                          ELSE {[txn |-> intent[k].txn, key |-> k] : k \in ks}]
       /\ pc' = [pc EXCEPT ![r] = IF lt.enabled THEN "sequence" ELSE "waitOnLock"]
  /\ Release(r)
  /\ UNCHANGED <<intent, status, wts, cache, ws, up, deferred, left>>

WaitOnLock(r) ==
  /\ pc[r] = "waitOnLock"
  /\ IF waitOn[r] = {}
     THEN pc' = [pc EXCEPT ![r] = "sequence"] /\ UNCHANGED <<ws, waitOn>>
     ELSE \E w \in waitOn[r] :
            /\ ws' = [ws EXCEPT ![r] = [kind |-> "waitOnLock", txn |-> w.txn, key |-> w.key,
                                        held |-> TRUE, acc |-> AccessOf(lt, r, w.key)]]
            /\ waitOn' = [waitOn EXCEPT ![r] = @ \ {w}]
            /\ pc' = [pc EXCEPT ![r] = "pushLock"]
  /\ KeepLatches
  /\ UNCHANGED <<lt, intent, status, wts, cache, up, deferred, left>>

\* The lease check at the top of the retry loop: the range moved away.
Redirect(r) ==
  /\ pc[r] = "waitOnLock"
  /\ waitOn[r] = {}
  /\ ~lt.enabled
  /\ Leave(r)
  /\ UNCHANGED <<intent, status, wts, cache, left>>

\* Evaluation succeeds and its effects apply: intents for the writes, an
\* unreplicated lock for a locking read, OnLockAcquired for both.
Evaluate(r) ==
  LET t   == TxnOf(lt, r)
      ts  == lt.req[r].ts
      sp  == lt.req[r].spans
      acq(s, e) == IF t = NoTxn \/ e.op = "read" THEN s
                   ELSE AcquireLock(s, t, e.key, IF e.op = "write" THEN "repl" ELSE "unrepl", ts)
      s1  == FoldLeft(acq, lt, sp)
      writes(k) == t # NoTxn /\ \E p \in DOMAIN sp : sp[p].key = k /\ sp[p].op = "write"
  IN /\ pc[r] = "evaluate"
     /\ Conflicting(r) = {}
     /\ lt' = Collect(s1)
     /\ intent' = [k \in Key |-> IF writes(k)
                                 THEN [txn |-> t, ts |-> Forward(intent[k].ts, ts)]
                                 ELSE intent[k]]
     /\ pc' = [pc EXCEPT ![r] = "finish"]
     /\ KeepLatches
     /\ UNCHANGED <<status, wts, cache, ws, up, deferred, waitOn, left>>

\* A request of an aborted transaction learns of it, while it evaluates (the
\* abort span) or while it pushes (the wait queue queries the pusher's record).
NoticeAbort(r) ==
  /\ pc[r] \in {"evaluate", "pushLock", "pushRequest"}
  /\ OwnTxnAborted(r)
  /\ Leave(r)
  /\ UNCHANGED <<intent, status, wts, cache, left>>

\* The client goes away while the request waits.
Cancel(r) ==
  /\ pc[r] \in {"latching", "wait", "pushLock", "pushRequest"}
  /\ r \in left.cancel
  /\ left' = [left EXCEPT !.cancel = @ \ {r}]
  /\ Leave(r)
  /\ UNCHANGED <<intent, status, wts, cache>>

(***************************************************************************)
(* The rest of the system.                                                 *)
(***************************************************************************)
\* The coordinator ends its transaction once its requests have returned.
EndTxn(t) ==
  /\ status[t] = "PENDING"
  /\ t \notin left.abandoned
  /\ \A r \in Requests(t) : Done(r)
  /\ status' = [status EXCEPT ![t] = "COMMITTED"]
  /\ KeepLatches
  /\ UNCHANGED <<lt, pc, intent, wts, cache, ws, up, deferred, waitOn, left>>

\* The asynchronous resolution of a finalized transaction's locks.
ResolveAsync(t, k) ==
  /\ Finalized(t)
  /\ left.resolve
  /\ intent[k].txn = t \/ (InTree(lt, k) /\ lt.obj[ObjOf(lt, k)].txn = t)
  /\ ResolveIntent([txn |-> t, key |-> k, final |-> TRUE, ts |-> 0])
  /\ KeepLatches
  /\ UNCHANGED <<pc, status, wts, cache, ws, up, deferred, waitOn, left>>

Pushing(r, t) ==
  /\ ws[r].txn = t
  /\ \/ pc[r] = "pushLock" /\ ws[r].acc = "write"
     \/ pc[r] = "pushRequest"

WaitsFor(t, u) == \E r \in Requests(t) : pc[r] \in {"pushLock", "pushRequest"} /\ ws[r].txn = u

\* Transactions that wait for each other in a circle.
Deadlocked(t) == \E S \in SUBSET Txn : /\ t \in S
                                       /\ \A a \in S : \E b \in S : WaitsFor(a, b)
                                       /\ \A b \in S : \E a \in S : WaitsFor(a, b)

\* A push aborts its pushee: the pushee was abandoned, or is part of a deadlock.
PushAborts(t) ==
  /\ status[t] = "PENDING"
  /\ \/ t \in left.abandoned /\ \E r \in Req : Pushing(r, t) \/ (pc[r] = "pushLock" /\ ws[r].txn = t)
     \/ Deadlocked(t) /\ \E r \in Req : Pushing(r, t)
  /\ status' = [status EXCEPT ![t] = "ABORTED"]
  /\ KeepLatches
  /\ UNCHANGED <<lt, pc, intent, wts, cache, ws, up, deferred, waitOn, left>>

\* A reader of higher priority moves the timestamp of the holder.
PushTimestamp(r) ==
  LET t == ws[r].txn IN
  /\ pc[r] = "pushLock"
  /\ ws[r].acc = "read"
  /\ status[t] = "PENDING"
  /\ r \in left.high
  /\ wts[t] <= lt.req[r].ts
  /\ wts' = [wts EXCEPT ![t] = lt.req[r].ts + 1]
  /\ KeepLatches
  /\ UNCHANGED <<lt, pc, intent, status, cache, ws, up, deferred, waitOn, left>>

\* OnRangeSplit, OnReplicaSnapshotApplied (disable FALSE); the lease is lost
\* or the range merged away (disable TRUE).
OnRangeCleared(disable) ==
  /\ left.clear > 0
  /\ left' = [left EXCEPT !.clear = @ - 1]
  /\ lt' = Collect(Clear(lt, disable))
  /\ cache' = IF disable THEN {} ELSE cache
  /\ KeepLatches
  /\ UNCHANGED <<pc, intent, status, wts, ws, up, deferred, waitOn>>

OnLeaseAcquired ==
  /\ ~lt.enabled
  /\ lt' = Enable(lt)
  /\ KeepLatches
  /\ UNCHANGED <<pc, intent, status, wts, cache, ws, up, deferred, waitOn, left>>

(***************************************************************************)
(* Specification.                                                          *)
(***************************************************************************)
NewLockTable(sc) ==
  [req |-> sc.req, max |-> sc.max, enabled |-> TRUE, nextSeq |-> 1,
   tree |-> [k \in Key |-> IF sc.locked[k] = NoTxn THEN 0 ELSE 1],
   obj |-> [l \in LockID |-> IF l[2] = 1 /\ sc.locked[l[1]] # NoTxn
                             THEN [EmptyLock EXCEPT !.txn = sc.locked[l[1]], !.unrepl = 1]
                             ELSE EmptyLock],
   g |-> [r \in Req |-> NewGuard], fatal |-> FALSE]

TxnTS(sc, t) == sc.req[CHOOSE r \in sc.send : sc.req[r].txn = t].ts

\* A scenario: the requests to come, the unreplicated locks and the intents
\* that earlier requests left, the limit on locks, and what else may happen.
Init ==
  \E sc \in Scenarios :
    /\ lt = NewLockTable(sc)
    /\ pc = [r \in Req |-> IF r \in sc.send THEN "sequence" ELSE "done"]
    /\ latched = {}
    /\ before = [r \in Req |-> {}]
    /\ intent = [k \in Key |-> IF sc.intent[k] = NoTxn THEN NoIntent
                               ELSE [txn |-> sc.intent[k], ts |-> 1]]
    /\ status = [t \in Txn |-> "PENDING"]
    /\ wts = [t \in Txn |-> IF \E r \in sc.send : sc.req[r].txn = t THEN TxnTS(sc, t) ELSE 1]
    /\ cache = {}
    /\ ws = [r \in Req |-> NoState]
    /\ up = [r \in Req |-> NoState]
    /\ deferred = [r \in Req |-> {}]
    /\ waitOn = [r \in Req |-> {}]
    /\ left = sc.left

Sequence(r) == Acquire(r) \/ ScanAndEnqueue(r) \/ Scan(r)
Wait(r) == NewState(r) \/ FindNext(r) \/ TimerFires(r) \/ PushRequestTxn(r)
           \/ PushLockTxn(r) \/ ResolvePushed(r) \/ ResolveDeferred(r) \/ WaitOnLock(r)
Run(r) == DiscoverIntents(r) \/ Evaluate(r) \/ Redirect(r) \/ NoticeAbort(r)
          \/ DequeueOne(r) \/ FinishReq(r)
Step(r) == Sequence(r) \/ Wait(r) \/ Run(r)

Next ==
  \/ \E r \in Req : Step(r) \/ Cancel(r) \/ PushTimestamp(r)
  \/ \E t \in Txn : EndTxn(t) \/ PushAborts(t) \/ \E k \in Key : ResolveAsync(t, k)
  \/ \E disable \in BOOLEAN : OnRangeCleared(disable)
  \/ OnLeaseAcquired

Spec == Init /\ [][Next]_vars

\* Can the request take a step?  (ENABLED Step(r), written out: TLC would
\* evaluate the whole of Step to find out.)
CanStep(r) ==
  CASE pc[r] = "latching" -> before[r] = {}
    [] pc[r] = "wait" -> lt.g[r].signal \/ ws[r] # NoState
    [] pc[r] = "pushLock" -> Unblocked(r) \/ OwnTxnAborted(r)
    [] pc[r] = "pushRequest" -> lt.g[r].signal \/ Finalized(ws[r].txn)
                                  \/ OwnTxnAborted(r)
    [] pc[r] = "resolve" -> LatchFree(up[r].key)
    [] pc[r] = "resolveDeferred" -> \E d \in deferred[r] : LatchFree(d.key)
    [] OTHER -> ~Done(r)

\* A request that again and again can go on does go on: its goroutine runs, its
\* timers fire, and the latch manager serves latches in order of arrival, so
\* nobody is overtaken for ever (the one condition of CanStep that is not
\* stable).  A live coordinator ends its transaction when its requests have
\* returned; the wait queue (module TxnWaitQueue) aborts pushed transactions
\* that were abandoned or are deadlocked.  Nothing makes the asynchronous
\* resolution of locks happen.
FairSpec ==
  /\ Spec
  /\ \A r \in Req : <>[]~CanStep(r) \/ []<><<Step(r)>>_vars
  /\ \A t \in Txn : WF_vars(EndTxn(t)) /\ WF_vars(PushAborts(t))

(***************************************************************************)
(* Properties.                                                             *)
(***************************************************************************)

\* However requests, pushes, resolutions and clears interleave, no method of
\* the lock table reaches a panic ("lockTable bug", "called lockIsFree on lock
\* with holder") or the error "caller violated contract", which the manager
\* turns into log.Fatalf.
NeverFatal == ~lt.fatal

\* The "Invariant summary" of lockState (lock_table.go:534-540) together with
\* what its fields promise: a queue only behind a holder or a reservation, and
\* "if there is a non-empty set of active waiters that are not waitSelf, then
\* at least one must be distinguished".  The distinguished waiter is the one
\* that finds out that the holder was abandoned.
LockStateInvariant ==
  \A l \in LockID :
    LET L == lt.obj[l]
        acts == ToSet(ActiveWaiters(L))
        self == {g \in acts : ~Held(L) /\ isSameTxn(lt, g, TxnOf(lt, L.res))} IN
    /\ Held(L) => L.res = NoReq
    /\ Held(L) <=> (L.repl # 0 \/ L.unrepl # 0)
    /\ L.readers # <<>> => Held(L)
    /\ L.writers # <<>> => Held(L) \/ L.res # NoReq
    /\ L.res \notin WriterGuards(L)
    /\ IF acts = self THEN L.dist = NoReq ELSE L.dist \in acts \ self

\* The locks map of a guard, which several methods of other requests maintain,
\* names exactly the locks at which the guard is queued or has a reservation:
\* Dequeue finds every queue the request is in, and leaves none behind.
GuardsMatchLocks ==
  \A l \in LockID : LET L == lt.obj[l] IN
    {r \in Req : l \in lt.g[r].locks} = (WriterGuards(L) \cup ToSet(L.readers) \cup {L.res}) \ {NoReq}

\* Queues are in the order of the sequence numbers and a reservation precedes
\* its queue, so that a request waits only for requests that came before it
\* and "request-only dependency cycles are never constructed by the lockTable"
\* (lock_table_waiter.go:538-539), also when reservations are broken and re-queued.
WaitsForEarlier ==
  \A l \in LockID : LET L == lt.obj[l] IN
    /\ \A i, j \in DOMAIN L.writers : i < j => lt.g[L.writers[i].g].seq < lt.g[L.writers[j].g].seq
    /\ L.res # NoReq => \A q \in ToSet(L.writers) : lt.g[L.res].seq < lt.g[q.g].seq

\* A request evaluates under no unreplicated lock of another transaction that
\* the table has, although it dropped its latches to wait and acquired them
\* again: nothing but the table knows of such a lock.
UnreplicatedRespected ==
  \A r \in Req : pc[r] = "evaluate" =>
    \A p \in DOMAIN lt.req[r].spans :
      LET k == KeyAt(lt, r, p)
          L == lt.obj[ObjOf(lt, k)] IN
      InTree(lt, k) /\ L.unrepl # 0 /\ L.txn # TxnOf(lt, r) =>
        AccessAt(lt, r, p) = "read" /\ lt.req[r].ts < L.unrepl

\* The waiting state of an active waiter names the transaction that holds or
\* reserved the lock now, whether it is held, and whether the waiter is the
\* distinguished one: pushes are sent to whoever is in the way.
WaitersKnowWhom ==
  \A l \in LockID : LET L == lt.obj[l] IN
    \A g \in ToSet(ActiveWaiters(L)) :
      pc[g] \in {"wait", "pushLock", "pushRequest"} /\ ~lt.g[g].mustFind =>
        LET st == lt.g[g].state IN
        IF ~Held(L) /\ isSameTxn(lt, g, TxnOf(lt, L.res)) THEN st = WaitSelf
        ELSE /\ st.txn = IF Held(L) THEN L.txn ELSE TxnOf(lt, L.res)
             /\ st.held = Held(L)
             /\ st.key = l[1]
             /\ st.kind = IF L.dist = g THEN "waitForDistinguished" ELSE "waitFor"

\* A request waits at a lock that a full table dropped while it was held.
WaitsAtDropped ==
  \E l \in LockID : /\ Held(lt.obj[l]) /\ lt.tree[l[1]] # l[2]
                    /\ ActiveWaiters(lt.obj[l]) # <<>>

\* Every request is answered, behind abandoned transactions, deadlocks, other
\* requests and cleared tables: no notification of the table is lost.  Two
\* things are excluded: a request that waits at a dropped lock, see
\* PushUpdatesWaiter, and one that never comes to resolve the intents it has
\* deferred.  The latter is meant for a waiter that releases a lock in the table,
\* which another request discovers again before the waiter's turn comes, for
\* ever; it takes in a request that is stuck with deferred intents as well.
Served ==
  (\A r \in Req : []<>(deferred[r] = {})) /\ []~WaitsAtDropped => \A r \in Req : <>Done(r)

\* What the comment on pushLockTxn says (lock_table_waiter.go:408-409): "If the
\* method returns successfully then the caller can expect to have an updated
\* waitingState", that is, the caller goes back to its loop with a notification.
PushUpdatesWaiter ==
  [][\A r \in Req : ResolvePushed(r) /\ pc'[r] = "wait" => lt'.g[r].signal]_vars
=============================================================================
