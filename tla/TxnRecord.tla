------------------------------ MODULE TxnRecord ------------------------------
(***************************************************************************)
(* The server side of one distributed transaction: its record with the     *)
(* markers that stand in for it in the timestamp cache, its intents, and   *)
(* everyone else who changes them (conflicting transactions that push it,  *)
(* the recovery manager, intent resolution, garbage collection).           *)
(*                                                                         *)
(* The record lives on a range of its own, next to the anchor key; Key is  *)
(* the set of keys the transaction may write on other ranges.  A timestamp *)
(* is a natural number and t + 1 is t.Next().  The coordinator, which      *)
(* sends Put, QueryIntent, HeartbeatTxn and EndTxn, is module TxnCommit.   *)
(***************************************************************************)
EXTENDS Integers, FiniteSets

CONSTANTS
  Key,        \* keys the transaction may write, each on a range of its own
  Recoverer,  \* stores whose recovery managers may take up the transaction
  MaxTS       \* bound on timestamps

ASSUME MaxTSAssumption == MaxTS \in Nat \ {0}

VARIABLES
  record,     \* the transaction record, st = "none" when there is none
  tombstone,  \* the timestamp cache forbids creating the record
  pushMark,   \* timestamp of the push marker in the timestamp cache
  intent,     \* the transaction's intent on each key
  version,    \* timestamp of the newest committed value of each key
  tscache,    \* timestamp cache of each key: newest read not by the transaction
  mine,       \* the transaction's committed value on each key (history)
  seen,       \* intents that pushers may have met
  outcomes,   \* pushee protos handed to whoever resolves intents
  cleaned,    \* keys resolved since the record was finalized
  recovery    \* the recovery attempt of each store

server == <<record, tombstone, pushMark, intent, version, tscache, mine, seen,
            outcomes, cleaned, recovery>>

TS == 0..MaxTS

Max2(a, b) == IF a < b THEN b ELSE a

NoIntent == [epoch |-> -1, ts |-> 0]

NoRecord == [st |-> "none", epoch |-> 0, ts |-> 0, writes |-> {}, locks |-> {}]

Idle == [pc |-> "idle", epoch |-> 0, ts |-> 0, todo |-> {}, missed |-> FALSE,
         queried |-> FALSE, changed |-> FALSE]

Finalized(st) == st \in {"COMMITTED", "ABORTED"}

ServerInit ==
  /\ record = NoRecord
  /\ tombstone = FALSE
  /\ pushMark = 0
  /\ intent = [k \in Key |-> NoIntent]
  /\ version = [k \in Key |-> 0]
  /\ tscache = [k \in Key |-> 0]
  /\ mine = [k \in Key |-> NoIntent]
  /\ seen = {}
  /\ outcomes = {}
  /\ cleaned = {}
  /\ recovery = [r \in Recoverer |-> Idle]

-----------------------------------------------------------------------------
(***************************************************************************)
(* Writes.  A request q carries the sender's epoch, read and write         *)
(* timestamps, and whether the server may forward the read timestamp.      *)
(***************************************************************************)

\* The write timestamp after the timestamp cache was consulted.
BumpedTS(q) == Max2(q.wts, tscache[q.key] + 1)

\* A put of an older epoch than the intent's is refused.
PutRefused(q) == q.epoch < intent[q.key].epoch

\* A committed value at or above the read timestamp (and no intent in the way).
TooOld(q) == intent[q.key] = NoIntent /\ version[q.key] > 0 /\ q.rts <= version[q.key]

\* The timestamp the intent ends up at.  A put that the same epoch has already
\* executed is a replay: it leaves the intent alone.
PutTS(q) ==
  LET i == intent[q.key]
  IN CASE i = NoIntent       -> IF TooOld(q) THEN Max2(BumpedTS(q), version[q.key] + 1)
                                             ELSE BumpedTS(q)
       [] i.epoch = q.epoch  -> i.ts
       [] OTHER              -> Max2(BumpedTS(q), i.ts)

\* The write timestamp in the response: a replay, or a put over an intent of an
\* earlier epoch, answers with the timestamp of its own header.
PutReply(q) == IF intent[q.key] = NoIntent THEN PutTS(q) ELSE BumpedTS(q)

EvalPut(q) ==
  /\ IF PutRefused(q)
       THEN UNCHANGED <<intent, seen>>
       ELSE LET i == [epoch |-> q.epoch, ts |-> PutTS(q)]
            IN /\ intent' = [intent EXCEPT ![q.key] = i]
               /\ seen' = seen \cup {i}
  /\ UNCHANGED <<record, tombstone, pushMark, version, tscache, mine, outcomes,
                 cleaned, recovery>>

\* QueryIntent finds the intent of this epoch, at or below the timestamp.
Found(k, epoch, ts) == intent[k].epoch = epoch /\ intent[k].ts <= ts

QueriedCacheUnbumped(k, epoch, ts) == tscache

\* A query that misses prevents the write from landing at its timestamp.
QueriedCache(k, epoch, ts) ==
  IF Found(k, epoch, ts) THEN tscache
  ELSE [tscache EXCEPT ![k] = Max2(@, ts)]

\* Another transaction reads the key, or its range gets a new lease holder.
BumpTSCache(k, ts) ==
  /\ ts > tscache[k]
  /\ tscache' = [tscache EXCEPT ![k] = ts]
  /\ UNCHANGED <<record, tombstone, pushMark, intent, version, mine, seen, outcomes,
                 cleaned, recovery>>

\* Another transaction commits a value on a key that holds no intent.
ForeignCommit(k, ts) ==
  /\ intent[k] = NoIntent
  /\ ts > version[k] /\ ts > tscache[k]
  /\ version' = [version EXCEPT ![k] = ts]
  /\ UNCHANGED <<record, tombstone, pushMark, intent, tscache, mine, seen, outcomes,
                 cleaned, recovery>>

-----------------------------------------------------------------------------
(***************************************************************************)
(* The transaction record.                                                 *)
(***************************************************************************)

\* A new lease holder of the record's range knows no markers: its low water
\* mark stands for every tombstone.
RecordLeaseChange ==
  /\ ~tombstone
  /\ tombstone' = TRUE
  /\ UNCHANGED <<record, pushMark, intent, version, tscache, mine, seen, outcomes,
                 cleaned, recovery>>

\* What an operation on the record starts from: the record, or the one that
\* could be (or could no longer be) created from the intent's metadata.
SynthesizeTxnFromMeta(m) ==
  IF record.st # "none" THEN record
  ELSE IF tombstone THEN [NoRecord EXCEPT !.st = "ABORTED", !.epoch = m.epoch, !.ts = m.ts]
  ELSE [NoRecord EXCEPT !.st = "PENDING", !.epoch = m.epoch, !.ts = Max2(m.ts, pushMark)]

\* An ABORTED proto removes intents of every epoch and timestamp alike.
Outcome(p) ==
  IF p.st = "ABORTED" THEN [st |-> "ABORTED", epoch |-> 0, ts |-> 0]
  ELSE [st |-> p.st, epoch |-> p.epoch, ts |-> p.ts]

HeartbeatTxnUnpushed(epoch, ts) ==
  /\ record.st = "none" /\ ~tombstone
  /\ record' = [NoRecord EXCEPT !.st = "PENDING", !.epoch = epoch, !.ts = ts]
  /\ UNCHANGED <<tombstone, pushMark, intent, version, tscache, mine, seen, outcomes,
                 cleaned, recovery>>

\* HeartbeatTxn creates the record; on an existing one it only refreshes the
\* heartbeat timestamp, which is left out.
HeartbeatTxn(epoch, ts) ==
  /\ record.st = "none" /\ ~tombstone
  /\ record' = [NoRecord EXCEPT !.st = "PENDING", !.epoch = epoch, !.ts = Max2(ts, pushMark)]
  /\ UNCHANGED <<tombstone, pushMark, intent, version, tscache, mine, seen, outcomes,
                 cleaned, recovery>>

\* The record once EndTxn's header is merged into it (an ABORTED one stays).
MergedEpoch(q) ==
  CASE record.st = "none"    -> q.epoch
    [] record.st = "ABORTED" -> record.epoch
    [] OTHER                 -> Max2(q.epoch, record.epoch)

MergedTS(q) ==
  CASE record.st = "none"    -> IF q.commit THEN Max2(q.wts, pushMark) ELSE q.wts
    [] record.st = "ABORTED" -> record.ts
    [] OTHER                 -> Max2(q.wts, record.ts)

\* IsEndTxnTriggeringRetryError, unless the server may forward the read
\* timestamp and evaluate again.
EndTxnPushed(q) == q.commit /\ ~q.fwd /\ MergedTS(q) # q.rts

EndTxnReply(q) ==
  CASE record.st = "none" /\ q.commit /\ tombstone -> "aborted"
    [] record.st = "COMMITTED"                     -> "committed"
    [] record.st = "ABORTED"                       -> IF q.commit THEN "aborted" ELSE "ok"
    [] record.st \in {"PENDING", "STAGING"} /\ q.epoch < record.epoch -> "error"
    [] OTHER -> IF EndTxnPushed(q) THEN "retry"
                ELSE IF q.commit /\ q.writes # {} THEN "staged" ELSE "ok"

TombstonedIfAborted(st) == tombstone \/ st = "ABORTED"

\* updateTimestampCache after an EndTxn or RecoverTxn that answers with status st.
Tombstoned(st) == tombstone \/ Finalized(st)

\* updateFinalizedTxn keeps no record when there are no external locks.
updateFinalizedTxn(p) == IF p.locks = {} THEN NoRecord ELSE p

EndTxn(q) ==
  LET reply == EndTxnReply(q)
      merged == [st |-> IF reply = "staged" THEN "STAGING"
                        ELSE IF q.commit THEN "COMMITTED" ELSE "ABORTED",
                 epoch |-> MergedEpoch(q), ts |-> MergedTS(q),
                 writes |-> q.writes, locks |-> q.locks]
  IN /\ CASE reply = "staged" ->
               /\ record' = merged
               /\ UNCHANGED <<tombstone, outcomes>>
          [] reply = "ok" ->
               /\ record' = updateFinalizedTxn(merged)
               /\ tombstone' = Tombstoned(merged.st)
               /\ outcomes' = outcomes \cup {Outcome(merged)}
          [] reply = "aborted" /\ record.st = "ABORTED" ->
               /\ outcomes' = outcomes \cup {Outcome(record)}
               /\ UNCHANGED <<record, tombstone>>
          [] OTHER -> UNCHANGED <<record, tombstone, outcomes>>
     /\ UNCHANGED <<pushMark, intent, version, tscache, mine, seen, cleaned, recovery>>

-----------------------------------------------------------------------------
(***************************************************************************)
(* Pushes.  The pusher met intent m, of whatever age.  The pushes that     *)
(* lose on priority change nothing and are left out.                       *)
(***************************************************************************)

PusherKnowsAsMuch(p, m) == m.ts >= p.ts \/ m.epoch > p.epoch

\* The pusher may know of a later epoch or timestamp than the record: then the
\* parallel commit the record stands for has failed.
PusherKnowsBetter(p, m) == m.ts > p.ts \/ m.epoch > p.epoch

Pushee(p, m) ==
  [p EXCEPT !.epoch = Max2(@, m.epoch), !.ts = Max2(@, m.ts),
            !.st = IF PusherKnowsBetter(p, m) /\ @ = "STAGING" THEN "PENDING" ELSE @,
            !.writes = IF PusherKnowsBetter(p, m) THEN {} ELSE @]

PushRepliedNoTombstone(p) ==
  /\ outcomes' = outcomes \cup {Outcome(p)}
  /\ pushMark' = IF p.st = "PENDING" THEN Max2(pushMark, p.ts) ELSE pushMark
  /\ UNCHANGED tombstone

\* updateTimestampCache after a push that answers with p.
PushReplied(p) ==
  /\ outcomes' = outcomes \cup {Outcome(p)}
  /\ tombstone' = (tombstone \/ p.st = "ABORTED")
  /\ pushMark' = IF p.st = "PENDING" THEN Max2(pushMark, p.ts) ELSE pushMark

\* Nothing to do: the record is finalized, or far enough forward already.
PushNoop(m, type, to) ==
  LET p == SynthesizeTxnFromMeta(m)
  IN Finalized(p.st) \/ (type = "timestamp" /\ to <= p.ts)

\* The record cannot be changed before its parallel commit is decided.
PushIndeterminate(m, type, to) ==
  /\ ~PushNoop(m, type, to)
  /\ Pushee(SynthesizeTxnFromMeta(m), m).st = "STAGING"

PushTxn(m, type, to) ==
  LET p == SynthesizeTxnFromMeta(m)
      q == Pushee(p, m)
      pushed == IF type = "abort" THEN [q EXCEPT !.st = "ABORTED"]
                ELSE [q EXCEPT !.ts = Max2(@, to)]
  IN /\ ~PushIndeterminate(m, type, to)
     /\ IF PushNoop(m, type, to)
          THEN PushReplied(p) /\ UNCHANGED record
          ELSE /\ PushReplied(pushed)
               /\ record' = IF record.st = "none" THEN record ELSE pushed
     /\ UNCHANGED <<intent, version, tscache, mine, seen, cleaned, recovery>>

\* A push that meets a STAGING record hands it to the recovery manager, which
\* probes the record and every in-flight write, in any order.
StartRecovery(r, m, type, to) ==
  /\ PushIndeterminate(m, type, to)
  /\ recovery[r].pc = "idle"
  /\ recovery' = [recovery EXCEPT ![r] =
       [Idle EXCEPT !.pc = "probe", !.epoch = record.epoch, !.ts = record.ts,
                    !.todo = record.writes]]
  /\ UNCHANGED <<record, tombstone, pushMark, intent, version, tscache, mine, seen,
                 outcomes, cleaned>>

-----------------------------------------------------------------------------
(***************************************************************************)
(* Recovery of an indeterminate commit.                                    *)
(***************************************************************************)

\* QueryTxn at the head of the probing batch: has the record moved on?
ProbeTxn(r) ==
  LET v == recovery[r]
      p == SynthesizeTxnFromMeta([epoch |-> v.epoch, ts |-> v.ts])
  IN /\ v.pc = "probe" /\ ~v.queried
     /\ recovery' = [recovery EXCEPT ![r] =
          [v EXCEPT !.queried = TRUE,
                    !.changed = Finalized(p.st) \/ v.epoch < p.epoch \/ v.ts < p.ts]]
     /\ UNCHANGED <<record, tombstone, pushMark, intent, version, tscache, mine, seen,
                    outcomes, cleaned>>

\* QueryIntent on one in-flight write.
ProbeIntent(r, k) ==
  LET v == recovery[r]
  IN /\ v.pc = "probe" /\ k \in v.todo
     /\ tscache' = QueriedCache(k, v.epoch, v.ts)
     /\ recovery' = [recovery EXCEPT ![r] =
          [v EXCEPT !.todo = @ \ {k}, !.missed = @ \/ ~Found(k, v.epoch, v.ts)]]
     /\ UNCHANGED <<record, tombstone, pushMark, intent, version, mine, seen, outcomes,
                    cleaned>>

Probed(v) == v.pc = "probe" /\ v.queried /\ v.todo = {}

CanRecoverFound(v) ==
  record.st = "STAGING" /\ ~v.missed /\ v.epoch = record.epoch /\ v.ts = record.ts

\* RecoverTxn goes ahead only on the STAGING record that was probed (when a
\* write was prevented: on one of no higher epoch or timestamp).
CanRecover(v) ==
  /\ record.st = "STAGING"
  /\ IF v.missed THEN v.epoch >= record.epoch /\ v.ts >= record.ts
     ELSE v.epoch = record.epoch /\ v.ts = record.ts

\* The end of the attempt: nothing if the probe saw the record change, otherwise
\* RecoverTxn, which commits or aborts the record.
RecoverTxn(r) ==
  LET v == recovery[r]
      recovered == [record EXCEPT !.st = IF v.missed THEN "ABORTED" ELSE "COMMITTED",
                                  !.locks = @ \cup record.writes, !.writes = {}]
  IN /\ Probed(v)
     /\ recovery' = [recovery EXCEPT ![r] = Idle]
     /\ IF ~v.changed /\ CanRecover(v)
          THEN record' = recovered /\ tombstone' = Tombstoned(recovered.st)
          ELSE UNCHANGED <<record, tombstone>>
     /\ UNCHANGED <<pushMark, intent, version, tscache, mine, seen, outcomes, cleaned>>

-----------------------------------------------------------------------------
(***************************************************************************)
(* Intent resolution and garbage collection.                               *)
(***************************************************************************)

ResolveIntentAnyEpoch(k, o) ==
  LET i == intent[k]
      commit == o.st = "COMMITTED"
  IN /\ Finalized(o.st) /\ i # NoIntent
     /\ intent' = [intent EXCEPT ![k] = NoIntent]
     /\ IF commit
          THEN /\ mine' = [mine EXCEPT ![k] = [epoch |-> i.epoch, ts |-> o.ts]]
               /\ version' = [version EXCEPT ![k] = o.ts]
          ELSE UNCHANGED <<mine, version>>
     /\ cleaned' = cleaned \cup {k}
     /\ UNCHANGED <<record, tombstone, pushMark, tscache, seen, outcomes, recovery>>

ResolveIntent(k, o) ==
  LET i == intent[k]
      commit == o.st = "COMMITTED" /\ i.epoch = o.epoch /\ i.ts <= o.ts
      inProgress == ~Finalized(o.st) /\ i.epoch >= o.epoch
      after == IF i = NoIntent \/ commit \/ ~inProgress THEN NoIntent
               ELSE [i EXCEPT !.ts = Max2(@, o.ts)]
  IN /\ intent' = [intent EXCEPT ![k] = after]
     /\ IF i # NoIntent /\ commit
          THEN /\ mine' = [mine EXCEPT ![k] = [epoch |-> o.epoch, ts |-> o.ts]]
               /\ version' = [version EXCEPT ![k] = o.ts]
          ELSE UNCHANGED <<mine, version>>
     /\ seen' = IF after = NoIntent THEN seen ELSE seen \cup {after}
     /\ cleaned' = IF Finalized(record.st) /\ o = Outcome(record) THEN cleaned \cup {k}
                   ELSE cleaned
     /\ UNCHANGED <<record, tombstone, pushMark, tscache, outcomes, recovery>>

GCTxnRecordEarly ==
  /\ Finalized(record.st)
  /\ record' = NoRecord
  /\ cleaned' = {}
  /\ UNCHANGED <<tombstone, pushMark, intent, version, tscache, mine, seen, outcomes,
                 recovery>>

\* gcTxnRecord, once every lock of the finalized record has been resolved.
GCTxnRecord ==
  /\ Finalized(record.st)
  /\ record.locks \subseteq cleaned
  /\ record' = NoRecord
  /\ cleaned' = {}
  /\ UNCHANGED <<tombstone, pushMark, intent, version, tscache, mine, seen, outcomes,
                 recovery>>

=============================================================================
