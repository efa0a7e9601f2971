----------------------------- MODULE Rangefeed -----------------------------
(***************************************************************************)
(* The rangefeed of one replica: the processor goroutine with its event    *)
(* channel, the initialization scan and the push attempts that run beside  *)
(* it, and the registrations with their catch-up scans and buffers.        *)
(*   rangefeed/processor.go, registry.go, task.go, replica_rangefeed.go    *)
(* The resolved timestamp is module ResolvedTimestamp.                     *)
(*                                                                         *)
(* Environment: the range (store: its state at the end of the Raft log;    *)
(* pipe: the commands this replica, rep, has yet to apply), the            *)
(* transactions that write to it, and its closed timestamp, below which    *)
(* nothing new is proposed and which a replica learns of once it applied   *)
(* every command it covers (modules FollowerReads, ClosedTSStream).        *)
(***************************************************************************)
EXTENDS ResolvedTimestamp, FiniteSets, SequencesExt

CONSTANTS
  Key,
  Reg,         \* registrations
  EventChanCap, BufCap, PipeCap,   \* capacities
  MaxClosed,   \* closed timestamps are at most this
  Now,         \* the clock of a push, above all of them
  Scenarios    \* see Init

VARIABLES
  store,   \* the range: [intent, vals]
  pipe,    \* commands to apply: [ops, ct]
  rep,     \* the replica: [intent, vals, closed]
  txn,     \* per transaction: record, coordinator and what it is to write
  proc,    \* the processor
  reg,     \* the registrations
  raftMu,  \* the registration that holds raftMu, 0: none
  left     \* what the environment may still do

vars == <<store, pipe, rep, txn, proc, reg, raftMu, left>>

NoIntent == [txn |-> 0, ts |-> 0]
Op(op, t, k, ts) == [op |-> op, txn |-> t, key |-> k, ts |-> ts]
Ops(ops) == [kind |-> "ops", ops |-> ops]
Intents(st, t) == {k \in Key : st.intent[k].txn = t}

\* The write batch of a command.
ApplyOp(st, o) ==
  CASE o.op = "writeValue" -> [st EXCEPT !.vals = @ \cup {[key |-> o.key, ts |-> o.ts]}]
    [] o.op \in {"writeIntent", "updateIntent"} ->
         [st EXCEPT !.intent[o.key] = [txn |-> o.txn, ts |-> o.ts]]
    [] o.op = "commitIntent" -> [st EXCEPT !.intent[o.key] = NoIntent,
                                           !.vals = @ \cup {[key |-> o.key, ts |-> o.ts]}]
    [] o.op = "abortIntent" -> [st EXCEPT !.intent[o.key] = NoIntent]

Propose(ops) ==
  /\ Len(pipe) < PipeCap
  /\ store' = FoldLeft(ApplyOp, store, ops)
  /\ pipe' = Append(pipe, [ops |-> ops, ct |-> 0])

(***************************************************************************)
(* The range.                                                              *)
(***************************************************************************)
\* The lowest timestamp a new write to the key can have.
WriteTS(k, ts) ==
  LET newer == {v.ts + 1 : v \in {x \in store.vals : x.key = k}} \cup {store.closed + 1, ts}
  IN CHOOSE m \in newer : \A n \in newer : n <= m

\* Also an aborted transaction writes until its coordinator learns of it.
Put(t) ==
  LET k == Head(txn[t].plan)
      ts == WriteTS(k, txn[t].cts) IN
  /\ txn[t].plan # <<>>
  /\ store.intent[k].txn \in {0, t}
  /\ Propose(<<Op(IF store.intent[k].txn = t THEN "updateIntent" ELSE "writeIntent", t, k, ts)>>)
  /\ txn' = [txn EXCEPT ![t].plan = Tail(@), ![t].cts = ts]
  /\ UNCHANGED <<rep, proc, reg, raftMu, left>>

WriteValue(k) ==
  /\ left.values > 0
  /\ store.intent[k] = NoIntent
  /\ Propose(<<Op("writeValue", 0, k, WriteTS(k, 1))>>)
  /\ left' = [left EXCEPT !.values = @ - 1]
  /\ UNCHANGED <<rep, txn, proc, reg, raftMu>>

\* EndTxn: the intents on the record's own range are resolved and the record
\* removed in the same command (local), or the record stays on its range.
Commit(t) ==
  LET ts == Later(txn[t].cts, txn[t].ts) IN
  /\ txn[t].status = "PENDING" /\ txn[t].plan = <<>> /\ t \notin left.abandoned
  /\ txn' = [txn EXCEPT ![t].status = "COMMITTED", ![t].ts = ts, ![t].gone = left.local]
  /\ IF left.local
     THEN Propose(SetToSeq({Op("commitIntent", t, k, ts) : k \in Intents(store, t)}))
     ELSE UNCHANGED <<store, pipe>>
  /\ UNCHANGED <<rep, proc, reg, raftMu, left>>

\* Another transaction's push aborts it; the coordinator learns of it later.
Abort(t) ==
  /\ txn[t].status = "PENDING" /\ t \in left.abort
  /\ txn' = [txn EXCEPT ![t].status = "ABORTED"]
  /\ UNCHANGED <<store, pipe, rep, proc, reg, raftMu, left>>

ResolveIntent(t, k) ==
  /\ txn[t].status # "PENDING"
  /\ store.intent[k].txn = t
  /\ Propose(<<IF txn[t].status = "COMMITTED" THEN Op("commitIntent", t, k, txn[t].ts)
               ELSE Op("abortIntent", t, k, 0)>>)
  /\ UNCHANGED <<rep, txn, proc, reg, raftMu, left>>

\* A reader moves the intent of a transaction that was pushed.
ResolvePushed(t, k) ==
  /\ txn[t].status = "PENDING"
  /\ store.intent[k].txn = t /\ store.intent[k].ts < txn[t].ts
  /\ Propose(<<Op("updateIntent", t, k, txn[t].ts)>>)
  /\ UNCHANGED <<rep, txn, proc, reg, raftMu, left>>

\* The record of a committed transaction goes when its intents are resolved.
GCRecord(t) ==
  /\ txn[t].status = "COMMITTED" /\ ~txn[t].gone /\ left.gc
  /\ Intents(store, t) = {}
  /\ txn' = [txn EXCEPT ![t].gone = TRUE]
  /\ UNCHANGED <<store, pipe, rep, proc, reg, raftMu, left>>

Close ==
  /\ store.closed < MaxClosed /\ Len(pipe) < PipeCap
  /\ store' = [store EXCEPT !.closed = @ + 1]
  /\ pipe' = Append(pipe, [ops |-> <<>>, ct |-> store.closed + 1])
  /\ UNCHANGED <<rep, txn, proc, reg, raftMu, left>>

(***************************************************************************)
(* Registrations.                                                          *)
(***************************************************************************)
Value(k, ts) == [kind |-> "value", key |-> k, ts |-> ts]
Checkpoint(ts) == [kind |-> "checkpoint", key |-> 0, ts |-> ts]

\* A mutant: an event that does not fit is dropped and nobody knows.
publishDropping(g, e) == IF Len(g.buf) < BufCap THEN [g EXCEPT !.buf = Append(@, e)] ELSE g

\* registration.publish.
publish(g, e) ==
  IF g.overflowed THEN g
  ELSE IF Len(g.buf) < BufCap THEN [g EXCEPT !.buf = Append(@, e)]
  ELSE [g EXCEPT !.overflowed = TRUE]

PublishToOverlapping(gs, registry, e) ==
  [r \in Reg |-> IF r \in registry /\ (e.kind = "checkpoint" \/ gs[r].start < e.ts)
                 THEN publish(gs[r], e) ELSE gs[r]]

\* registration.disconnect: the stream gets an error and nothing after it.
Disconnected(g) ==
  IF g.state \in {"catchup", "live"} THEN [g EXCEPT !.state = "ended", !.buf = <<>>] ELSE g

(***************************************************************************)
(* The event channel.                                                      *)
(***************************************************************************)
Running == proc.state = "running"
Room == Len(proc.eventC) < EventChanCap

\* sendEvent with a timeout, from the Raft goroutine to processor p: when the
\* channel stays full the processor is told to stop, and unset.
SendEvent(p, e) ==
  \/ /\ Len(p.eventC) < EventChanCap
     /\ proc' = [p EXCEPT !.eventC = Append(@, e)]
     /\ UNCHANGED left
  \/ /\ Len(p.eventC) = EventChanCap
     /\ left.timeouts > 0
     /\ proc' = [p EXCEPT !.stopC = TRUE, !.attached = FALSE]
     /\ left' = [left EXCEPT !.timeouts = @ - 1]

\* A command is applied, and handleLogicalOpLogRaftMuLocked passes on its log.
Apply ==
  LET c == Head(pipe) IN
  /\ pipe # <<>> /\ raftMu = 0
  /\ rep' = [FoldLeft(ApplyOp, rep, c.ops) EXCEPT !.closed = Later(@, c.ct)]
  /\ pipe' = Tail(pipe)
  /\ IF proc.attached /\ c.ops # <<>> THEN SendEvent(proc, Ops(c.ops)) ELSE UNCHANGED <<proc, left>>
  /\ UNCHANGED <<store, txn, reg, raftMu>>

\* handleClosedTimestampUpdate, when there is news.
HandleClosedTimestampUpdate ==
  /\ proc.attached /\ raftMu = 0
  /\ proc.sentCT < rep.closed
  /\ SendEvent([proc EXCEPT !.sentCT = rep.closed], [kind |-> "ct", ct |-> rep.closed])
  /\ UNCHANGED <<store, pipe, rep, txn, reg, raftMu>>

(***************************************************************************)
(* The processor goroutine.                                                *)
(***************************************************************************)
\* Publish a checkpoint if the resolved timestamp moved.
Published(st, res) ==
  [rts |-> res.rts,
   reg |-> IF res.adv THEN PublishToOverlapping(st.reg, proc.registry, Checkpoint(res.rts.resolved))
           ELSE st.reg]

consumeOp(st, o) ==
  LET out == IF o.op \in {"writeValue", "commitIntent"}
             THEN PublishToOverlapping(st.reg, proc.registry, Value(o.key, o.ts))
             ELSE st.reg
  IN Published([st EXCEPT !.reg = out], ConsumeLogicalOp(st.rts, o))

\* A mutant: before the initialization scan is done only operations count.
consumeEventUninitialized(e) ==
  LET st == [rts |-> proc.rts, reg |-> reg] IN
  CASE e.kind = "ops"  -> FoldLeft(consumeOp, st, e.ops)
    [] e.kind = "init" -> Published(st, Initialize(st.rts))
    [] ~st.rts.init /\ e.kind \in {"ct", "sync"} -> st
    [] st.rts.init /\ e.kind = "ct"   -> Published(st, ForwardClosedTS(st.rts, e.ct))
    [] st.rts.init /\ e.kind = "sync" -> [st EXCEPT !.reg[e.reg].state = "registering"]

consumeEvent(e) ==
  LET st == [rts |-> proc.rts, reg |-> reg] IN
  CASE e.kind = "ops"  -> FoldLeft(consumeOp, st, e.ops)
    [] e.kind = "ct"   -> Published(st, ForwardClosedTS(st.rts, e.ct))
    [] e.kind = "init" -> Published(st, Initialize(st.rts))
    [] e.kind = "sync" -> [st EXCEPT !.reg[e.reg].state = "registering"]

\* case e := <-p.eventC.
ConsumeEvent ==
  LET to == consumeEvent(Head(proc.eventC)) IN
  /\ Running /\ proc.eventC # <<>>
  /\ proc' = [proc EXCEPT !.eventC = Tail(@), !.rts = to.rts]
  /\ reg' = to.reg
  /\ UNCHANGED <<store, pipe, rep, txn, raftMu, left>>

\* RangeFeed takes raftMu and opens the catch-up iterator; a new processor is
\* started with the iterator of its initialization scan.  A new processor waits
\* for the end of the one before.
RangeFeed(r) ==
  LET intents == {Op("writeIntent", rep.intent[k].txn, k, rep.intent[k].ts) :
                    k \in {x \in Key : rep.intent[x] # NoIntent}} IN
  /\ raftMu = 0 /\ reg[r].state = "none"
  /\ raftMu' = r
  /\ reg' = [reg EXCEPT ![r].state = "flushing", ![r].iter = rep.vals]
  /\ \/ proc.attached /\ UNCHANGED proc
     \/ /\ ~proc.attached /\ ~Running
        /\ proc' = [proc EXCEPT !.state = "running", !.rts = makeResolvedTimestamp,
                                !.eventC = <<>>, !.stopC = FALSE, !.registry = {},
                                !.sentCT = 0, !.scan = SetToSeq(intents), !.scanning = TRUE]
  /\ UNCHANGED <<store, pipe, rep, txn, left>>

\* syncEventC, by Register: the caller waits, with raftMu, for room in the event
\* channel.  The processor does not stop meanwhile: whoever stops one that is
\* attached needs raftMu or rangefeedMu, and the caller has both.  (A scan that
\* fails, on an error of the storage engine, is left out.)
SyncEventC(r) ==
  /\ Running /\ reg[r].state = "flushing" /\ Room
  /\ proc' = [proc EXCEPT !.eventC = Append(@, [kind |-> "sync", reg |-> r])]
  /\ reg' = [reg EXCEPT ![r].state = "syncing"]
  /\ UNCHANGED <<store, pipe, rep, txn, raftMu, left>>

\* case r := <-p.regC, and the end of registerWithRangefeedRaftMuLocked: a new
\* processor is attached and hears of the current closed timestamp.
Register(r) ==
  LET p == [proc EXCEPT !.registry = @ \cup {r}, !.attached = TRUE] IN
  /\ Running /\ reg[r].state = "registering"
  /\ raftMu' = 0
  /\ reg' = [reg EXCEPT ![r] = publish([@ EXCEPT !.state = "catchup"], Checkpoint(proc.rts.resolved))]
  /\ IF proc.attached \/ rep.closed = 0 THEN proc' = p /\ UNCHANGED left
     ELSE SendEvent([p EXCEPT !.sentCT = rep.closed], [kind |-> "ct", ct |-> rep.closed])
  /\ UNCHANGED <<store, pipe, rep, txn>>

\* case pErr := <-p.stopC.
Stop ==
  /\ Running /\ proc.stopC
  /\ proc' = [proc EXCEPT !.state = "stopped", !.registry = {}, !.eventC = <<>>, !.scan = <<>>,
                          !.scanning = FALSE, !.pushing = FALSE, !.toPush = {}, !.pushed = {},
                          !.rts = makeResolvedTimestamp]
  /\ reg' = [r \in Reg |-> IF r \in proc.registry THEN Disconnected(reg[r]) ELSE reg[r]]
  /\ UNCHANGED <<store, pipe, rep, txn, raftMu, left>>

\* case r := <-p.unregC.
Unregister(r) ==
  /\ Running /\ r \in proc.registry /\ reg[r].state \in {"ended", "done"}
  /\ proc' = [proc EXCEPT !.registry = @ \ {r}]
  /\ UNCHANGED <<store, pipe, rep, txn, reg, raftMu, left>>

(***************************************************************************)
(* Tasks beside the processor: initResolvedTSScan and txnPushAttempt.      *)
(***************************************************************************)
InitScan ==
  /\ Running /\ proc.scanning /\ Room
  /\ IF proc.scan = <<>>
     THEN proc' = [proc EXCEPT !.eventC = Append(@, [kind |-> "init"]), !.scanning = FALSE]
     ELSE proc' = [proc EXCEPT !.eventC = Append(@, Ops(<<Head(proc.scan)>>)), !.scan = Tail(@)]
  /\ UNCHANGED <<store, pipe, rep, txn, reg, raftMu, left>>

\* case <-txnPushTickerC.  The transactions below Now are old enough.
PushTick ==
  /\ Running /\ proc.rts.init /\ ~proc.pushing
  /\ Before(proc.rts, Now) # {}
  /\ proc' = [proc EXCEPT !.pushing = TRUE, !.toPush = Before(proc.rts, Now)]
  /\ UNCHANGED <<store, pipe, rep, txn, reg, raftMu, left>>

\* On the leaseholder the push waits for the latches of the command that
\* commits the transaction or resolves its last intent: it is applied.
Waits(t) ==
  left.leaseholder /\ \E i \in DOMAIN pipe : \E j \in DOMAIN pipe[i].ops :
    pipe[i].ops[j].op = "commitIntent" /\ pipe[i].ops[j].txn = t

\* A high-priority PUSH_TIMESTAMP to Now.Next().  A pending transaction is
\* moved there or, when its record expired, aborted; a record that is gone
\* counts as aborted (SynthesizeTxnFromMeta).
PushTxn(t) ==
  LET status == IF txn[t].gone \/ (txn[t].status = "PENDING" /\ t \in left.abandoned)
                THEN "ABORTED" ELSE txn[t].status
      ts == IF txn[t].status = "PENDING" THEN Later(txn[t].ts, Now + 1) ELSE txn[t].ts IN
  /\ Running /\ t \in proc.toPush
  /\ ~Waits(t)
  /\ txn' = IF txn[t].status # "PENDING" THEN txn
            ELSE [txn EXCEPT ![t].status = status, ![t].ts = ts]
  /\ proc' = [proc EXCEPT !.toPush = @ \ {t},
                          !.pushed = @ \cup {IF status = "ABORTED" THEN Op("abortTxn", t, 0, 0)
                                             ELSE Op("updateIntent", t, 0, ts)}]
  /\ UNCHANGED <<store, pipe, rep, reg, raftMu, left>>

\* pushOldTxns sends what the pushes returned and closes doneC.
PushDone ==
  /\ Running /\ proc.pushing /\ proc.toPush = {} /\ Room
  /\ proc' = [proc EXCEPT !.eventC = Append(@, Ops(SetToSeq(proc.pushed))),
                          !.pushing = FALSE, !.pushed = {}]
  /\ UNCHANGED <<store, pipe, rep, txn, reg, raftMu, left>>

\* A push fails, and with it the attempt.
PushFails ==
  /\ Running /\ proc.pushing /\ proc.toPush # {} /\ left.failures > 0
  /\ proc' = [proc EXCEPT !.pushing = FALSE, !.toPush = {}, !.pushed = {}]
  /\ left' = [left EXCEPT !.failures = @ - 1]
  /\ UNCHANGED <<store, pipe, rep, txn, reg, raftMu>>

(***************************************************************************)
(* The output loop of a registration, and its end.                         *)
(***************************************************************************)
\* runCatchupScan: every version in the iterator above the start timestamp.
CatchupScan(r) ==
  /\ reg[r].state = "catchup"
  /\ reg' = [reg EXCEPT ![r].state = "live", ![r].iter = {},
                        ![r].sent = @ \cup {v \in reg[r].iter : v.ts > reg[r].start}]
  /\ UNCHANGED <<store, pipe, rep, txn, proc, raftMu, left>>

Output(r) ==
  LET e == Head(reg[r].buf) IN
  /\ reg[r].state = "live" /\ reg[r].buf # <<>>
  /\ reg' = [reg EXCEPT ![r].buf = Tail(@),
                        ![r].ckpt = IF e.kind = "checkpoint" THEN e.ts ELSE @,
                        ![r].sent = IF e.kind = "value" THEN @ \cup {[key |-> e.key, ts |-> e.ts]} ELSE @]
  /\ UNCHANGED <<store, pipe, rep, txn, proc, raftMu, left>>

\* The buffer overflowed and is empty now, or the client goes away.
OutputLoopEnds(r) ==
  /\ \/ reg[r].state = "live" /\ reg[r].buf = <<>> /\ reg[r].overflowed /\ UNCHANGED left
     \/ /\ reg[r].state \in {"catchup", "live"} /\ r \in left.cancel
        /\ left' = [left EXCEPT !.cancel = @ \ {r}]
  /\ reg' = [reg EXCEPT ![r] = Disconnected(@)]
  /\ UNCHANGED <<store, pipe, rep, txn, proc, raftMu>>

\* RangeFeed returns.  rangefeedMu is taken while somebody registers with the
\* attached processor.
MaybeDisconnectEmptyRangefeed(r) ==
  /\ reg[r].state = "ended"
  /\ ~(proc.attached /\ raftMu # 0)
  /\ reg' = [reg EXCEPT ![r].state = "done"]
  /\ proc' = IF proc.attached /\ proc.registry = {}
             THEN [proc EXCEPT !.stopC = TRUE, !.attached = FALSE] ELSE proc
  /\ UNCHANGED <<store, pipe, rep, txn, raftMu, left>>

\* disconnectRangefeedWithReason (a split, a merge, a snapshot, a command
\* without a logical log): the events before it are flushed.
Disconnect ==
  /\ proc.attached /\ raftMu = 0 /\ proc.eventC = <<>>
  /\ left.disconnects > 0
  /\ left' = [left EXCEPT !.disconnects = @ - 1]
  /\ proc' = [proc EXCEPT !.stopC = TRUE, !.attached = FALSE]
  /\ UNCHANGED <<store, pipe, rep, txn, reg, raftMu>>

(***************************************************************************)
(* Specification.                                                          *)
(***************************************************************************)
\* A scenario: what the transactions write from which timestamp on, the
\* start timestamps of the registrations, and what else may happen.
Init ==
  \E sc \in Scenarios :
    /\ store = [intent |-> [k \in Key |-> NoIntent], vals |-> {}, closed |-> 0]
    /\ rep = store
    /\ pipe = <<>>
    /\ txn = [t \in Txn |-> [status |-> "PENDING", ts |-> sc.ts[t], cts |-> sc.ts[t],
                             gone |-> FALSE, plan |-> sc.plan[t]]]
    /\ proc = [state |-> "none", attached |-> FALSE, rts |-> makeResolvedTimestamp,
               eventC |-> <<>>, stopC |-> FALSE, registry |-> {}, sentCT |-> 0, scan |-> <<>>,
               scanning |-> FALSE, pushing |-> FALSE, toPush |-> {}, pushed |-> {}]
    /\ reg = [r \in Reg |-> [state |-> IF r \in DOMAIN sc.start THEN "none" ELSE "done",
                             start |-> IF r \in DOMAIN sc.start THEN sc.start[r] ELSE 0,
                             iter |-> {}, buf |-> <<>>, overflowed |-> FALSE, sent |-> {},
                             ckpt |-> 0]]
    /\ raftMu = 0
    /\ left = sc.left

Writes ==
  \/ \E t \in Txn : Put(t) \/ Commit(t) \/ Abort(t) \/ GCRecord(t)
                      \/ \E k \in Key : ResolveIntent(t, k) \/ ResolvePushed(t, k)
  \/ \E k \in Key : WriteValue(k)
  \/ Close
Replica ==
  Apply \/ HandleClosedTimestampUpdate \/ Disconnect
    \/ \E r \in Reg : RangeFeed(r) \/ SyncEventC(r) \/ MaybeDisconnectEmptyRangefeed(r)
Processor ==
  ConsumeEvent \/ Stop \/ PushTick \/ \E r \in Reg : Register(r) \/ Unregister(r)
Tasks == InitScan \/ PushDone \/ PushFails \/ \E t \in Txn : PushTxn(t)
Streams == \E r \in Reg : CatchupScan(r) \/ Output(r) \/ OutputLoopEnds(r)

Next == Writes \/ Replica \/ Processor \/ Tasks \/ Streams

Spec == Init /\ [][Next]_vars

\* Goroutines run: something that the processor, its tasks and the streams can
\* do is done, and the processor's select does not pass over a registration for
\* ever (it chooses at random among the ready cases).  A full channel takes the
\* events of those who wait in the order of their arrival.  Since pushes go on for as long as a committed transaction has
\* intents, the Raft goroutine and the cleanup of pushed committed transactions
\* (CleanupTxnIntentsAsync) are not starved by them.  Nothing makes
\* transactions write or end, clients come or go, or the intents of aborted
\* transactions go away.
Cleanup == \E t \in Txn, k \in Key : txn[t].status = "COMMITTED" /\ ResolveIntent(t, k)

\* When they can do something (ENABLED, written out for TLC).
CanRun ==
  \/ Running /\ \/ proc.eventC # <<>> \/ proc.stopC
                \/ \E r \in Reg : reg[r].state = "registering"
                \/ proc.rts.init /\ ~proc.pushing /\ Before(proc.rts, Now) # {}
                \/ Room /\ (proc.scanning \/ (proc.pushing /\ proc.toPush = {}))
                \/ \E t \in proc.toPush : ~Waits(t)
  \/ \E r \in Reg : \/ reg[r].state = "catchup"
                    \/ reg[r].state = "live" /\ (reg[r].buf # <<>> \/ reg[r].overflowed)
CanSync == Running /\ Room /\ \E r \in Reg : reg[r].state = "flushing"
CanRegister ==
  /\ Running /\ \E r \in Reg : reg[r].state = "registering"
  /\ proc.attached \/ rep.closed = 0 \/ Room \/ left.timeouts > 0
CanApply ==
  /\ raftMu = 0
  /\ \/ pipe # <<>> /\ (proc.attached /\ Head(pipe).ops # <<>> => Room \/ left.timeouts > 0)
     \/ proc.attached /\ proc.sentCT < rep.closed /\ (Room \/ left.timeouts > 0)
CanCleanup == Len(pipe) < PipeCap /\ \E t \in Txn : txn[t].status = "COMMITTED" /\ Intents(store, t) # {}

FairSpec ==
  /\ Spec
  /\ []<>~CanRun \/ []<><<Processor \/ Tasks \/ Streams>>_vars
  /\ <>[]~CanSync \/ []<><<\E r \in Reg : SyncEventC(r)>>_vars
  /\ <>[]~CanRegister \/ []<><<\E r \in Reg : Register(r)>>_vars
  /\ <>[]~CanApply \/ []<><<Apply \/ HandleClosedTimestampUpdate>>_vars
  /\ <>[]~CanCleanup \/ []<><<Cleanup>>_vars

(***************************************************************************)
(* Properties.                                                             *)
(***************************************************************************)

\* No assertion of the resolved timestamp fails: it does not regress, no
\* operation at or below it arrives, it changes exactly when the queue says it
\* may, and at the end of the initialization scan no reference count is left
\* at or below zero, although operations on an intent may come before the scan
\* has reported it.
NeverPanics == ~proc.rts.panic

\* "A rangefeed's "resolved timestamp" is defined as the timestamp at which no
\* future updates will be emitted to the feed at or before"
\* (resolved_timestamp.go:24-25): a stream that got a checkpoint got, by the
\* catch-up scan or live, every committed value at or below it and above its
\* start, also those that this replica has yet to apply.
CheckpointCovers ==
  \A r \in Reg : \A v \in store.vals :
    reg[r].start < v.ts /\ v.ts <= reg[r].ckpt => v \in reg[r].sent

\* When the processor has caught up with the replica, the reference count of a
\* transaction that is not aborted is the number of its intents, whatever the
\* order in which scan and operations reported them.
RefCountsExact ==
  proc.attached /\ proc.rts.init /\ proc.eventC = <<>> =>
    \A t \in Txn : txn[t].status # "ABORTED" =>
      (IF t \in Tracked(proc.rts) THEN proc.rts.txns[t].ref ELSE 0) = Cardinality(Intents(rep, t))

\* A registration that waits, with raftMu held, for a place in the event channel,
\* for which the scan and pushes compete, and then for the processor to consume
\* the events before it, always gets an answer: the Raft goroutine is never stuck
\* behind a rangefeed.
RaftMuReleased == raftMu # 0 ~> raftMu = 0

\* A rangefeed that stays in place resolves everything that is closed: no
\* transaction holds it back for ever, be it pending, abandoned, or aborted with
\* intents that nobody cleans up.
ResolvedCatchesUp ==
  <>[]proc.attached => <>[](proc.rts.resolved = rep.closed)
============================================================================
