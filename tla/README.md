# Formal models of CockroachDB's KV layer

TLA+ models of the parts of CockroachDB whose correctness rests on interleavings, restarts and lost
messages, the TLC runs that check them on small instances, and TLAPS proofs for every instance where
we have them. Six groups of components are covered:

* **closed timestamps and follower reads**: why a replica that is not the leaseholder may serve a
  read at an old enough timestamp;
* **transaction records, parallel commits and their recovery**: why a transaction whose coordinator
  acknowledged it stays committed, all of it, whoever finds its intents;
* **the transaction wait queue**: why pushers that wait for each other, across ranges, all get on;
* **the concurrency manager**, with its lock table and latches: why every request of a range is
  served, and none evaluates under a lock of another transaction;
* **the rangefeed** of a replica: why a checkpoint is never followed by an older value;
* **the hybrid logical clock** and its persisted bound: why timestamps ascend, over restarts too.

The source is under `pkg/`; every definition that models code is listed in `PROJECT.json` ("map")
with the lines it stands for.

## 1. Inventory

What the system consists of, as far as concurrency protocols go. `PROJECT.json` ("components") has
the complete list, the parts that are not modelled included.

| Part | State | Operations | Here |
|---|---|---|---|
| Closed timestamp tracker (`closedts/minprop`) | closed, next, two sides with reference counts, epochs and MLAI maps | Track, release, Close | MinPropTracker, proved |
| Closed timestamp storage, provider, transport | buckets per origin, subscribers' queues, streams | Add, Notify, Subscribe, MaxClosed, (re)connect | ClosedTSStream, safety proved |
| Follower reads, epoch leases, liveness, command application | lease, minLeaseProposedTS, liveness record, lease indexes, Raft log | admission, transfers, lease requests, heartbeats, proposals, reproposals, apply, restart | FollowerReads, safety proved |
| Transaction record and intents (`batcheval`, `replica_tscache.go`, `txnrecovery`, `intentresolver`) | record, timestamp cache markers, intents, committed versions | EndTxn, PushTxn, HeartbeatTxn, QueryTxn, QueryIntent, RecoverTxn, ResolveIntent, GC | TxnRecord |
| Transaction coordinator and DistSender (`kvcoord`) | txn proto, in-flight writes, lock footprint | pipelined writes, parallel commit, refresh, restart, rollback, resend | TxnCommit, implements AtomicCommit; proved for requests sent once |
| Transaction wait queue (`txnwait`) | queue per record, waiting pushes and queries, dependents | enqueue, wait, query, update, force push, Clear | TxnWaitQueue, safety proved |
| Lock table (`concurrency/lock_table.go`) | lockStates, reservations, queues, guards with tree snapshots | scan, acquire, discover, update, dequeue, clear | LockTable |
| Concurrency manager, waiter, latches (`concurrency`, `spanlatch`, `replica_send.go`) | where each request is, latches, finalized transactions | sequence, wait, push, resolve, evaluate, finish, range and lease events | ConcurrencyManager |
| Rangefeed (`rangefeed`, `replica_rangefeed.go`) | processor, event channel, resolved timestamp, registrations and buffers | logical operations, closed timestamps, scans, pushes, registration, overflow, stop | ResolvedTimestamp (proved), Rangefeed |
| HLC (`util/hlc`, `server.go`, `store.go`) | clock, upper bound in memory and on each store | Now, Update, persist, reset, restart | HLC, proved |
| Jobs, descriptor leases, gossip, protected timestamps | | | planned |

Interactions. A request takes latches and passes the lock table; when it finds a lock it drops its
latches, waits, and pushes the holder, on whose record's range it waits in the transaction wait
queue. A write is then tracked, gets a timestamp above the closed one and above the timestamp
cache, a lease applied index (LAI) and a place in the log, and is untracked. The closer passes the
tracker's answers, with one minimum LAI (MLAI) per range, through the storage and the streams to
other nodes. A replica uses a closed timestamp if its lease has the same epoch and it has applied
the MLAI; its rangefeed then resolves what is closed and below every open intent. A transaction
writes intents next to values; who meets one pushes the transaction's record, or the markers that
stand in for it; a push that meets a STAGING record starts a recovery, which queries the in-flight
writes. All timestamps come from the nodes' HLCs.

The hard behaviours, each with its line, are the "hazards" of `PROJECT.json`: proposals that straddle
a Close; replays that join live streams; transfers whose start is fixed long before they apply;
commands that outlive the process that proposed them; pushes before a record exists; writes that
arrive after a recovery has declared them missing; waiters that learn of a deadlock each at its own
time; locks that are dropped, discovered or updated while others wait at them; push results that are
ahead of the replica that uses them; crashes between two stores' copies of a bound.

## 2. Modules

```
MinPropTracker ── FollowerReads ── TrackerLeaseProofs ── FollowerReadsProofs
      └── MCMinPropTracker   └── MCFollowerReads
TxnRecord ── TxnCommit ── TxnCommitProofs ─┬─ TxnRequestProofs ─┬─ ParallelCommitProofs
                 └── MCTxnCommit           └─ TxnCoordProofs ───┘
AtomicCommit (instantiated by TxnCommit)
ClosedTSStream ── MCClosedTSStream              TxnWaitQueue ── MCTxnWaitQueue
HLC ── MCHLC                                          └── TxnWaitQueueProofs
ResolvedTimestamp ── Rangefeed ── MCRangefeed   LockTable ── ConcurrencyManager ── MCConcurrencyManager
TimestampProofs (of ClosedTSStream, ResolvedTimestamp and HLC)
```

Some operators are variants, with a plausible mistake, of the definition after them; `PROJECT.json`
("mutants") lists them and says which property notices which. No specification uses them.

### MinPropTracker (`closedts/minprop/tracker.go`)

The fields of `Tracker` are variables. `Track`, `Release` and `ReleaseFailed` (the closure that Track
returns) and `Close` hold `t.mu` throughout and are one action each. `prop` is what each proposal's
goroutine holds; `emitted` is a history of what Close has returned, merged by epoch, as followers
merge it. A release carries any epoch, range and LAI and any timestamp at or above the proposal's
minimum; the closer's epochs do not go back.

### ClosedTSStream (`closedts/storage`, `provider`, `transport`)

One origin and one follower. `Add` is `memStorage.Add` with its cascade through the buckets, `merge`
its merge by epoch. Goroutine boundaries are action boundaries: storing an entry (`CloseAndAdd`) and
queueing it for subscribers (`Notify`) are two steps, a subscription registers (`Subscribe`) before it
takes its `Snapshot`, and the goroutine that stores what the client received (`FollowerAdd`) outlives
its stream. Streams break, either process restarts and loses its storage, timers send empty entries.
A timestamp is wall * Ticks + logical, because the storage compares wall times.

### FollowerReads (`replica_write.go`, `replica_range_lease.go`, `node_liveness.go`, application)

Extends the tracker with the rest of node n1 and one range: epoch leases, liveness, latches, lease
indexes, the log, reproposals, restarts. Each log entry carries the replicated state it leads to
(`checkForcedErr` decides when it is appended), so a follower is any prefix of the log and needs no
variables; `maxClosed(s)` is the set of timestamps that a replica in state s may take for closed. A
transfer makes its lease first and is sent by a goroutine of its own, at any later time (`SendTimes`):
the timestamp of the request, and with it what the tracker is told, may be later than the start of the lease. Node
n2 is seen from outside only: it writes above the start of its lease, transfers and requests leases.
Raft (external) appends commands in any order or never.

### TxnRecord (`batcheval/cmd_*txn*.go`, `replica_tscache.go`, `txnrecovery`, `storage/mvcc.go`)

One transaction seen from the servers. `record` is its record; `tombstone` and `pushMark` are the two
markers of the timestamp cache. `intent`, `version` and `tscache` describe each key, `mine` is a
history of what the transaction committed. `seen` holds the intents a pusher may have met and
`outcomes` the protos handed out by pushes and EndTxn: pushers and resolvers act on any of them, at
any later time. `recovery` is the attempt of each store's recovery manager. Operators that evaluate
a request (`EvalPut`, `EndTxn`, `PushTxn`, `RecoverTxn`, `ResolveIntent`, ...) are whole handlers,
with the update of the timestamp cache that follows them.

| Variable or action | Code |
|---|---|
| `record.writes`, `record.locks` | InFlightWrites, LockSpans of the record |
| `PutTS`, `PutReply` | where mvccPutInternal puts the intent; what the response says |
| `Pushee`, `PusherKnowsBetter` | PushTxn, "The pusher might be aware of a newer version of the pushee" |
| `PushIndeterminate`, `StartRecovery` | IndeterminateCommitError and what it leads to |
| `ProbeTxn`, `ProbeIntent`, `RecoverTxn` | the probing batch, request by request, and the recovery phase |
| `GCTxnRecord` | gcTxnRecord after all locks were resolved |

### TxnCommit (`kvcoord`)

The coordinator `co`, the copies of requests nobody waits for (`net`) and a budget of disturbances
(`left`). Before the commit it writes (`Write`), perhaps without noticing that replication failed
(`WriteFailed`) or with a broken RPC (`WriteLost`). `StartCommit` sends the batch: last writes, a
QueryIntent per pipelined write, and EndTxn. A parallel commit of the first epoch sends all of them
at once (DistSender detaches the queries only then), otherwise EndTxn waits. `Finished` and
`BatchErr` are what the batch comes to: errors merged by priority, queries ignored when the rest
failed, needTxnRetryAfterStaging. `DetectMissing`, the read of the record when an intent is missing,
is a step of its own. `Acknowledge`, `Refresh`, `Restart` and `Fail` end the attempt. `Fail` sends a
rollback whatever the error was, an ambiguous one included, as CommitOrCleanup does (`kv/txn.go:644-657`,
`kv/db.go:709-711`).

What is abstracted: each key is on a range of its own, other than the record's, so no lock is
resolved locally; one write per key and epoch, so sequence numbers reduce to "already written";
heartbeats only create the record; pushes that lose on priority change nothing and are left out, and
which pushes win is left open; pipelined writes are proved at the commit only; the abort span, which
makes zombies fail earlier, is left out, so that they live as long as they can; deadlines, commit
triggers, savepoints and one-phase commits are left out.

### AtomicCommit

What TxnCommit promises, without records or intents: one decision, values
that become visible after a commit only, all of one epoch and at one timestamp, and a client that is
told the truth. The decision is never taken back, except by `Retract`: EndTxn(commit=false) aborts a
STAGING record without looking at its in-flight writes (`cmd_end_transaction.go:315`), so the rollback
that follows an ambiguous error may undo an implicit commit. It can do so only as long as nothing of
the transaction is visible, and if the client was told nothing certain. `TxnCommit!Abstract` instantiates it: the decision is read off the record, the
intents it names, the committed values and what pushes and EndTxn have answered (`Decision`); a
parallel commit is decided by the step that puts its last write or its STAGING record in place.

### TxnWaitQueue (`txnwait/queue.go`)

`queue[t]` is the pendingTxn on the range of t's record, `push[p]` the PushTxn of p from
MaybeWaitForPush through its select loop, `query[p]` the goroutine that queries p's own record
meanwhile. A failed push, EnqueueTxn and the wait are three steps; a change of a record and the
UpdateTxn that follows are two. Cycles are found as in the code: a waiter learns its dependents from
the queue on its own record, and one that finds its pushee among them, and has the higher priority,
forces the push. All pushes are PUSH_ABORTs of transactions with ordinary priorities; a transaction
has one request in flight; each record is on a range of its own. Dependents may be out of date, so
that a transaction is aborted for a cycle that is no more; this costs a retry and is allowed.

### LockTable (`concurrency/lock_table.go`) and ConcurrencyManager

LockTable is a library of operators on a lock table value, one per method and under its name. It
keeps what makes the code delicate: requests scan a snapshot of the tree and so meet lockStates that
are no longer in it (`obj` has all of them, `tree` the current ones), sequence numbers survive
re-sequencing, reservations are broken, a distinguished waiter is handed on, the table overflows.
ConcurrencyManager adds, for each request, the loops of SequenceReq, WaitOn and
executeBatchWithConcurrencyRetries, the latch manager, the cache of finalized transactions and
deferred resolution, and the listeners for split, merge and lease changes. Each critical section is
an action: a request that is finished leaves one queue per step (`DequeueOne`), in any order, and
drops the locks it found empty and its latches at the end (`FinishReq`). The
transaction records and the wait queue on them are environment, with the guarantees
checked for TxnWaitQueue. Left out: sequence numbers within a transaction, epochs, local keys, the
uncertainty interval; spans are single keys; ResolveIntent is one step, when its latch is free.

### ResolvedTimestamp and Rangefeed (`rangefeed`, `replica_rangefeed.go`)

ResolvedTimestamp has the methods of `resolvedTimestamp` and `unresolvedIntentQueue` as operators,
their assertions as a field `panic`. Rangefeed is the goroutines around them: the processor's select
loop, the event channel, the initialization scan, the push attempts, the Raft goroutine that sends
logical operations and closed timestamps (with a timeout), registrations with their catch-up scans,
buffers and output loops, and `raftMu`. A stream that joins a running processor takes raftMu
(`RangeFeed`), waits with it for room in the event channel (`SyncEventC`) and for the processor to get
that far, and only then registers; whoever needs raftMu waits. `store` is the range at the end of its log and `pipe` what
this replica has not applied, because the answers of pushes are about the former and the queue of
unresolved intents about the latter. One processor at a time; filters, diffs and scan errors (and with
them processors that stop while a stream registers) are left out; a push attempt's results are one event.

### HLC (`util/hlc/hlc.go`, `server/server.go`, `kvserver/store.go`)

Threads read the physical clock before they take the clock's mutex. A bound is computed, written to
one store after the other, and put in memory, in separate steps between which the process may crash.
`EnsureClockMonotonicity` is the wait at startup. `high` is the last timestamp of the incarnation
before. The checks for clock jumps, which warn or stop the process, are left out: it may stop at any
time anyway.

## 3. Runs

All bounds are constants of the cfg. Timestamps, epochs, LAIs and the length of the log are capped in
the guards; disturbances by a budget (`left`, `used`). Where a module has `Scenarios`, a run explores
each of a set of initial situations that its MC module lists; the runs of one module share them only
if they say so.

### Closed timestamps

| Run | Question | Instance |
|---|---|---|
| `tracker` | Is every proposal at or below a closed timestamp over and covered? Are the Fatalf branches unreachable, and does each side hold the LAIs of one epoch only? | 3 proposals, 4 timestamps, 2 epochs |
| `stream` | Does every bucket on either node carry all MLAIs up to its timestamp (`Gapless`)? Is what MaxClosed answers applied (`MaxClosedSound`)? Does the follower catch up once streams stop breaking? | 3 entries, 2 streams, 2 buckets, 2 epochs, FairSpec |
| `follower_reads_transfer` | Do transfers back and forth keep reads on followers consistent, and leases apart? Are reproposed commands kept above what was closed? | 2 commands, 3 leases, log of 3 |
| `follower_reads_restart` | May commands of a dead process still apply? Is a takeover by another node after n1's liveness expired safe? | 2 commands, 2 epochs, 2 leases, lifetime 3 |

Two commands and two epochs are what each of the known problems needs: one command that writes, and
one that closes, transfers or is the reproposal of the first. Three proposals put one on each side of
the tracker and one across a Close.

`PromptLatches` and `PromptHeartbeat` are assumptions of these runs: a transfer is sent as soon as its
lease is made and waits for its latches for less than the target duration, and a process closes no timestamp before its first
heartbeat. Without either, `FollowerReadsConsistent` fails (see Known disagreements for the first;
the second needs MaxTS 5, MaxLAI 3, one lease): the closer (`server/node.go:400`) is started ahead of
the heartbeat loop (`server/server.go:1509`), so a process restarted within the lifetime of its old
record closes timestamps under its old epoch.

### Transactions

| Run | Question | Instance |
|---|---|---|
| `txn_commit` | Does a parallel commit implement AtomicCommit, and an acknowledged one survive? Is it all or nothing across epochs? Is only what did not commit retried? | 2 keys; a failed write with a read or with a refresh; a refresh and a new lease; a second epoch |
| `txn_conflict` | Are pushes respected, and does an implicit commit stay one, when others write and read the same key? | 1 key, a foreign value and a refresh; with a read, with a second epoch, or without reads of its own; and a lost RPC with a read and a refresh |
| `txn_resend` | Does it implement AtomicCommit with broken RPCs, late copies and the rollback of ambiguous commits? What may a recovery find, and does every intent go away wherever the coordinator stopped? | 2 keys, a lost RPC, a failed write, ResendLost, FairSpec |

The comments in TxnCommit state the properties. Two keys allow one write to be found and the other
missing, which is what all of them turn on; each disturbance happens once, in combination with one or
two others, since two of a kind add states but no new case to a transaction that has one commit
attempt per epoch. `txn_conflict` gives up the second key for a third timestamp: a push, a foreign
value and a refresh need one each. A transaction ends, so deadlock is not checked. Keys are
symmetric, except in `txn_resend`, which checks liveness.

`ResendLost`: DistSender resends an RPC that broke; otherwise it gives up, and the outcome may be
ambiguous. `txn_conflict` and `txn_resend` reach the rollback of an ambiguous commit, before and after
the commit has become implicit. The properties say what it may do: `ImplicitCommitStable` has it as the
one exception, `ImplementsAtomicCommit` lets it retract what nobody has seen, and `RecoveryNotConfused`
lets a recovery that found all writes meet an ABORTED record after it. The repository's stricter
statements are `ImplicitCommitFinal` and `RecoveredNotPending`, see Known disagreements.

What the runs leave out because the modelled code does not have the property there:

* a resent RPC and a retryable error, and a resent RPC and a foreign value: Known disagreements;
* a transaction without reads and a second epoch: EndTxn stages it at the timestamp its record was
  pushed to (`cmd_end_transaction.go:287`), and the QueryIntent of the same batch, at the header's
  timestamp, takes the pushed intent for a lost write. Its coordinator then restarts a transaction
  that is implicitly committed: `AllOrNothing`, `ImplicitCommitStable` and `ImplementsAtomicCommit`
  fail. For the same reason `RetryNotCommitted` itself excepts transactions without reads, whatever
  the run.

### Wait queue, concurrency manager, rangefeed, clock

| Run | Question | Instance |
|---|---|---|
| `txn_wait_queue` | Does every push end, in chains and cycles (`PushEnds`)? Is a waiter on a finished transaction told (`NoLostWakeup`), and told the truth? Does a cycle leave a survivor? | 3 transactions, cycles of 3 and of 2 with a third waiting; queues cleared twice, a crash or a client that gives up, priorities that change; FairSpec |
| `concurrency` | Is every request served? Are queues, reservations, guards and waiting states consistent, and unreplicated locks respected, whatever happens between latches? | 3 requests, 2 keys, 3 transactions, 8 scenarios: rivals of one transaction, broken reservations, pushed timestamps, deadlock, a table of one lock, asynchronous resolution, clearing, cancellation; FairSpec |
| `rangefeed` | Does every stream get what its checkpoints cover? Do assertions and reference counts hold whatever the order of scan and operations? Is raftMu always released, and does the resolved timestamp catch up with the closed one? | 2 keys, 2 transactions, 2 registrations, channels of 2, one unapplied command, 8 scenarios; FairSpec |
| `rangefeed_follower` | The same on a lagging follower with garbage-collected records: violated, see below | one transaction |
| `hlc` | Does Now always increase? Does the persisted bound cover the clock, and a restart come up above all earlier timestamps? | 2 threads, 2 stores, time up to 4, a jump back, 2 intervals |

A cycle of three is the shortest in which dependents are transitive; two stores are needed for a
bound that is on one and not on the other. Three requests are a holder or a reservation, a waiter
and one that comes in between; two keys let a request wait at one lock while it is queued at another.
In the rangefeed a channel of two is full with one operation and one closed timestamp. All of these
systems come to rest, so deadlock is not checked, except in `hlc`, where the clock can always be
restarted.

`Served` has two hypotheses. A waiter that knows the holder to be finalized removes its lock from the
table and defers the resolution of the intent to the end of its scan; meanwhile another request may
discover the intent and put the lock back ("any other requests that slip ahead will simply
re-discover the intent(s) during evaluation and resolve them themselves", lock_table_waiter.go). With
fairness of the goroutines alone two such requests may do that to each other for ever; so
`[]<>(deferred[r] = {})` is assumed. This excludes more than that livelock, namely any request that
is stuck with deferred intents. The other hypothesis, `WaitsAtDropped`, is under Known
disagreements.

The scenarios of `rangefeed` let records be collected on the leaseholder, and without timeouts of the
event channel: see below for the other combinations. `Prompt`, in `hlc`, says that a bound is on disk
before the clock reaches it. In the window between the computation of a bound and the end of its
persistence, startup included (`server.go:1414-1428`), nothing in the code enforces this: it rests on
the bound being three intervals ahead. Without it `BoundCovers` fails.

### Fairness

* `stream`: the goroutines keep running (weak fairness of Notify, Snapshot, FollowerAdd), a client is
  asked for again by the next follower read (Subscribe), and the server's loop sends (strong fairness
  of Recv, because the empty entries of its timer disable it from time to time). Streams break a
  bounded number of times.
* `txn_resend`: whoever is blocked by an intent keeps pushing it (the wait queue pushes again on
  every update and timeout, and a transaction without heartbeats expires and loses every push), takes
  up recovery, whose probes are requests that are answered, and resolves what it may. Nothing is
  assumed of the coordinator, of its late requests, or of garbage collection.
* `txn_wait_queue`: goroutines that can run do, ready cases of a select are taken, timers fire, and a
  client whose transaction waits for nobody finishes it. Crashed clients' records expire.
* `concurrency`: a request that can go on again and again does, latches being served in order of
  arrival; a live coordinator ends its transaction; the wait queue aborts abandoned and deadlocked
  transactions. Nothing makes asynchronous resolution happen.
* `rangefeed`: the processor, its tasks and the streams run, its select (a random choice) does not
  pass over a registration for ever, a registration blocked at the event channel is served among the
  other senders (Go serves them in order), the replica applies its log, and the intents of committed
  transactions that were pushed are cleaned up. Nothing makes transactions or clients go on.

### Known disagreements with the repository's own statements

`rangefeed_follower` is a regular run and a "finding" of `PROJECT.json`. On a follower, a push of a
transaction that committed and whose record was collected answers ABORTED; the processor forgets its
intents although this replica has not applied their resolution, and a checkpoint passes a value that
is emitted afterwards (`rangefeed/task.go:211`, against `rangefeed/resolved_timestamp.go:24-25`). The
same happens on the leaseholder if an event was dropped for a full channel: the processor was told to
stop, but its select may consume other events and push first (`processor.go:460`).

The following configurations are kept beside the regular runs. Each ends with a counterexample.

| Configuration | What it shows | Against |
|---|---|---|
| `MCClosedTSStreamTicks.cfg`, MCClosedTSStream | Two closed timestamps with one wall time: memStorage.Add drops the second entry with its MLAIs (`storage_mem.go:112`), the third makes them necessary. | `closedts/storage/storage.go:62` "The entry is added to the most recent bucket" |
| `MCFollowerReadsLatches.cfg`, MCFollowerReads | The start of a transferred lease is fixed (`replica_range_lease.go:651`) before the wait for latches; the outgoing leaseholder closes above it. | `replica_follower_read.go:104-107` |
| `MCTxnCommitResentWrite.cfg`, MCTxnCommit | A resent write of a transaction that was committed and resolved meanwhile asks for a retry (`dist_sender.go:1757`). | `dist_sender.go:1744-1745` "due to idempotency we managed to swallow a communication error" |
| `MCTxnCommitReplayedTimestamp.cfg`, MCTxnCommit | A resent write that was moved forward the first time is answered with the old timestamp (`mvcc.go:1534`); the commit loses it. | `dist_sender.go:1638-1640` |
| `MCTxnCommitRollback.cfg`, MCTxnCommit | The RPC of a commit breaks, its error is ambiguous and the client rolls back (`kv/txn.go:652-654`): EndTxn aborts the STAGING record of an implicit commit (`ImplicitCommitFinal`). | `cmd_recover_txn.go:107-108` "Once implicitly committed, the transaction should never move back to the PENDING status and it should never be ABORTED"; `kv/txn_external_test.go:70` tests the rollback and calls it undesired (#48301) |
| `MCTxnCommitPending.cfg`, MCTxnCommit | A recovery prevents a write; before its RecoverTxn, a pusher that knows of an intent at a later timestamp takes the STAGING record of the same epoch back to PENDING (`cmd_push_txn.go:214`) (`RecoveredNotPending`). | `cmd_recover_txn.go:177-179` "We should never hit this. [...] it is not possible for a transaction to move back to the PENDING status in the same epoch" |
| `MCConcurrencyManagerFull.cfg`, MCConcurrencyManager | tryClearLock of a full table keeps the replicated holder in the lockState it drops (`lock_table.go:1402`). A request that still scans an old snapshot queues there; its push succeeds, the resolution does not find the lock in the tree, and nobody notifies it. | `lock_table_waiter.go:408-409` "If the method returns successfully then the caller can expect to have an updated waitingState" |
| `MCHLCNoBound.cfg`, MCHLC | Without a persisted bound a restart does not wait, and a clock that was ahead of its physical clock repeats timestamps (`server.go:1392`). | `server.go:1411` "Now that we have a monotonic HLC wrt previous incarnations of the process" |

## 4. Proofs

All proofs are for every value of the constants, under the named assumptions of the modules
(`TrackerConstants`, `FollowerReadsConstants`, `StreamConstants`, `MaxTSAssumption`, `ScenariosAssumption`, `HLCAssumption`,
`TxnAssumption`, `TxnIDs`). Each module has one lemma per action or
method. The modules of proofs send their leaves to the first-order prover; a leaf that needs arithmetic,
records or sequences says so by citing `SMT`
(and `Z3`, or a longer `SMTT`, to be tried when the first attempt takes too long).

**TrackerLeaseProofs, the tracker**: the tracker keeps its types (`TypeCorrect`), never reaches its Fatalf
branches (`NeverFatal`), keeps the promise of Close (`ClosedIsCovered`) and never mixes epochs on one
side (`OneEpochPerSide`). None of these is inductive. `IInv(b)` adds to the types the following, of the
epochs from b on (all epochs, for a tracker alone; in FollowerReads, those of the current process):

* `RefCounts`: each count is the number of proposals still evaluating on that side;
* `OnASide`: whoever still evaluates is on one of the sides, so a Close that finds the left side
  empty cannot leave anybody behind;
* `EpochOrder`: closed, left and right epochs ascend, and nothing above `closed` was ever returned;
* `AllAccounted`: where the LAI of each released proposal is. It was returned; or it waits on a side
  whose timestamp is not closed yet; or its epoch is past, so nothing at or above its timestamp will
  ever be returned under that epoch. The last case is what makes it safe to drop LAIs at an epoch
  change.

**TrackerLeaseProofs, the leases**: n1 never uses its lease at a time that belongs to a later lease of n2
(`LeasesAreDisjoint`), for any number of commands, epochs, leases and log entries, through restarts,
cancelled and joined transfers and lease requests that overtake each other, and without the
assumptions on timing that the runs make. `LeaseInv` adds to the types:

* `LogInv`: sequence numbers, and with them the starts of leases, ascend along the log, and one
  sequence number means one lease;
* `Replaced`: when a lease of n1 is followed by another, the former is `Gone` at the start of the latter:
  it is proscribed (minLeaseProposedTS), n1 knows of a later epoch, or its epoch was incremented and had
  expired by then;
* `RaftInv`: the same already for any command that is proposed and not yet in the log (`Replaces`),
  whoever proposed it and whether or not it will ever apply;
* `CmdInv`: what n1 lets in is under a lease that it has applied, and a transfer proscribes the lease it
  gives away before it is proposed.

**FollowerReadsProofs**: a timestamp that a follower takes for closed stays closed. No write that applies
later, of n1 or of n2, under this lease or a later one, is at or below it (`FollowerReadsAreConsistent`),
for any number of commands, epochs, leases, transfers, restarts, reproposals and log entries. The
hypotheses are `PromptLatches` and `PromptHeartbeat`, which section 3 shows to be needed. The inductive
invariant is that `ReadInv(b)` holds for some b. It joins `LeaseInv` and the tracker's `IInv(b)` and adds:

* `CommandInv`: the heart. For each command that is proposed, in the log or not, `Cov`: whatever was
  closed under the epoch of its lease is below all that it writes, or comes with an MLAI that makes
  followers wait for it; and nothing under an earlier epoch reaches what it writes. A transfer counts as
  a write just above the start of the lease it grants. Commands of processes that have ended are included:
  their epochs are before b;
* `TrackerInv`: why Close keeps `Cov`. The tracker answers for the epochs from b on, those of the process
  that runs now; everything closed before was closed when the process started (`booted`), and it writes
  above that. `Bumped`: who releases under a new epoch has left no side at an older epoch that would
  later be closed at or above its timestamp. A process that has not yet written a heartbeat has no
  epoch: b is MaxEpoch + 1, and `PromptHeartbeat` keeps it from closing;
* `PropInv`: what a caller's command and its state in the tracker have to do with each other, in each
  phase. A transfer's start is fixed before it is tracked; by `PromptLatches` it is still at or above what can
  have been closed by then;
* `StepInv`: along the log lease indexes ascend, and from a lease of n1 on, n1 keeps the lease at growing
  epochs up to an entry that gives it to n2. That entry is then the command that `Cov` is applied to;
* `ClockInv`, `EntryInv`: nothing is closed under an epoch at or after its expiration, which is where another
  node's lease may start; `CacheInv`: the timestamp cache is above the leases applied.

**TimestampProofs, the stream**: for any number of buckets, streams, breaks and restarts, buckets are gapless
(`BucketsAreGapless`) and what MaxClosed says is sound (`FollowerReadsAreSound`). The hypothesis
`DistinctWallTimes` says that no two timestamps of the history share a wall time. The closer sleeps
between two entries, so they do not; `MCClosedTSStreamTicks.cfg` shows that the hypothesis cannot be
dropped. It holds by itself where `Ticks` is 1, as in the run `stream` (`SoundByWallTime`). `IInv` adds
to the types:

* `HistoryOrder`: what the closer produced, in the order of epochs and timestamps;
* `OriginComplete`: the origin's first bucket has reached whatever is being queued or was queued
  for a subscriber that has not taken its snapshot, so the snapshot fills any gap;
* `StreamGapless`: an entry in a stream covers all that was closed up to it, except what the
  follower has reached, was handed, or will receive first (`OnItsWay`); and nothing queued under the
  current epoch is missing;
* `HandedGapless`, `OneHanded`: the same for the entry that a client has received and not yet stored,
  which may be stored long after its stream broke.

The cascade through the buckets is a recursive function. That each bucket ends up covering what it
should is shown without induction over data: the least bucket that does not would follow one that
does (`WFMin` on the natural numbers).

**TxnCommitProofs**: nothing commits below a timestamp that PushTxn promised (`PushesAreRespected`), with
any losses, resent and late requests, and rollbacks. `PushInv` says where the promise is kept: in the
record while there is one, in the push marker before, and not at all once the tombstone excludes a
commit; and that all answers "committed" agree on one timestamp.

**TxnCommitProofs, TxnRequestProofs, TxnCoordProofs, ParallelCommitProofs**: the central result. For any number of keys, recovery managers, epochs,
timestamps and disturbances, a parallel commit implements AtomicCommit (`ParallelCommitRefines`). On
the way: atomicity (`CommitIsAtomic`), acknowledged commits last (`AcknowledgedIsKept`), recovery meets
none but the states that `RecoveryNotConfused` allows (`RecoveryIsNeverConfused`), what is retried was not committed
(`RetriedIsNotCommitted`), aborts are final (`AbortIsRespected`), and so are implicit commits unless
the client rolls back after an ambiguous error (`ImplicitCommitIsStable`). That rollback is part of the
specification in all of these theorems. The hypothesis `SentOnce` excludes what section 3 shows to break them:
DistSender sends a broken RPC once (lost and late requests remain), and the transaction has reads to
refresh. The run `txn_commit` satisfies it; `txn_conflict` and `txn_resend` go beyond it on small
instances. The argument:

* Each write that a commit needs is `Alive` (the intent is there, or its put is on its way and the
  timestamp cache lets it in) or it is not, and no step makes a dead one alive again: that is what a
  QueryIntent that misses a write buys with its entry in the timestamp cache.
* A STAGING record, and every recovery, is about a commit that is `Current`, or `Superseded` by a
  later batch of the coordinator, and then dead (`StagingInv`). A recovery knows that some write is dead,
  or that those it has probed are there, or it comes too late (`RecoveryInv`).
* The coordinator moves on only after it has noticed (`NoticeInv`) that its batch is dead or its
  record is no longer staged. So nobody commits what it retries, and whoever commits has all of its
  writes (`CommittedInv`).
* Once the record is aborted, or cannot be created, without a commit (`NeverCommits`), what the batch
  and the recoveries believed is void: a rollback may have taken an implicit commit away. Nothing
  becomes visible any more, which is what `Retract` asks for.
* The remaining conjuncts say what may be on its way (`NetInv`, `Landed`), that nothing is ahead of the
  coordinator (`EpochInv`), and what it may believe of its EndTxn (`CoInv`, `AckInv`, `FinalInv`).

`IInv` and the steps of the servers are in TxnCommitProofs, the requests of the commit batch in
TxnRequestProofs, the coordinator's own steps in TxnCoordProofs; ParallelCommitProofs puts them together.
For the recoveries `ProbeInv` adds what becomes of the record that one began to probe (`Followed`): it
is not forgotten without a tombstone, and while it is open it only moves forward, back to PENDING
only past the probed epoch or timestamp. The refinement adds `AbortInv` (an ABORTED record is told before it is collected) and `Steady`, what no
step takes back: a commit, an abort, an implicit commit (but for that rollback), what the client was told.

**TxnWaitQueueProofs**: a waiter whose pushee is finalized has been told, will query, or is among
those a coming update wakes (`WaitersAreTold`), and a push returns only when its pushee, or the
pusher itself, is finalized (`PushesAnsweredTruly`). `IInv` adds to the types:

* `HasPushee`: a push under way has a pushee;
* `Truth`: whatever says that a transaction is finalized (a queue entry, an update still to be
  made, a note in a channel, a query's answer) says so of one that is. Records are final, so old news stays true;
* `Joined`: a waiter without news is among the pushes of its pushee's entry, where UpdateTxn finds it;
* `Told`: if a waiter without news has made its first query of the pushee, and the pushee is finalized
  now, an UpdateTxn is still to come.

**TimestampProofs, the clock**: the clock of a live process never goes back and Now never repeats (`ClockMonotone`,
without assumptions on scheduling), and under `Prompt` the persisted bound covers the clock
(`PersistedBoundCovers`) and a restart comes up above the previous incarnation
(`PersistedBoundSafe`). `ClockInv` adds to the types:

* `StoresInStep`: before its turn in a write a store has the bound in force, after it the new one;
* `ClockBelow`: the clock is below the bound in force and below the one being written;
* `DiskRemembers`: for a node that is down, some store has a bound at or above its last timestamp.

**TimestampProofs, the resolved timestamp**: once the initialization scan is done (`InitializeSettles`), every logical
operation (`OperationsSettle`) and every closed timestamp (`ClosedTimestampsSettle`) leaves the
resolved timestamp at the highest value that is not above the closed timestamp and below every
unresolved transaction (`Highest`), fails none of the assertions of resolved_timestamp.go, and reports
exactly whether it moved. The assumptions are the contract of the caller: values and intents are
written above the resolved timestamp, and the scan leaves no reference count at or below zero;
`rangefeed` checks both (`NeverPanics`). The heart of the argument is `KeepsHolder`: when the queue says
that its oldest transaction did not change, whoever held the resolved timestamp back still does, or
another transaction with the same timestamp. That there is an oldest transaction follows from
the well-foundedness of the natural numbers.

What is model-checked only, and why:

* liveness (`FollowerCatchesUp`, `IntentsResolved`, `PushEnds`, `Served`, ...): fairness and ENABLED are out of the
  prover's reach;
* the transaction properties with ResendLost: `txn_resend` finds them true for one lost RPC, and the
  kept configurations show that they do not hold in general, so that an inductive invariant would
  have to say which combinations are harmless;
* the concurrency manager and the goroutines of the rangefeed: their operators fold over sequences of
  keys and operations, and what a fold computes needs induction over data;
* `SomeoneSurvives`: a cycle of waiters is a statement about paths, with the same difficulty.

## 5. Plan

1. **Resent requests.** An invariant for ResendLost with one copy of each request, to extend
   `ParallelCommitRefines` to what `txn_resend` checks.
2. **Compositions.** ConcurrencyManager with TxnWaitQueue in place of its environment; Rangefeed on a
   replica of FollowerReads.
3. **Rest of the coordinator.** Heartbeat loop, sequence numbers and savepoints, chained pipelined
   writes; with them the sequence numbers of the lock table.
4. **Proposal buffer, jobs registry, descriptor leases, protected timestamps, gossip, migration
   leases.** Protocols on top of transactions and liveness.

## 6. Not modelled

The consensus algorithm (a library), the storage engines, SQL, range splits, merges and replica
changes, snapshots, queues, and start-up code other than the clock's. Expiration-based leases;
draining and decommissioning of liveness records; the ranges a follower asks an origin about, beyond
EmitMLAI. Apart from HLC, the modules take clocks as one clock: they rely on HLC causality and not on
synchronisation.

## 7. Running

```
tlc -config MCTxnCommit.cfg MCTxnCommit     # any run: the cfg and module of PROJECT.json
tlapm TxnWaitQueueProofs.tla                # any module of proofs; the larger ones take ten to twenty minutes
```
