------------------------------ MODULE TxnCommit ------------------------------
(***************************************************************************)
(* The coordinator of one transaction (TxnCoordSender with its pipeliner,  *)
(* span refresher and committer interceptors, over DistSender) composed    *)
(* with the server side of module TxnRecord: pipelined writes, parallel    *)
(* commits, refreshes and restarts, rollbacks, lost RPCs that are sent     *)
(* again or given up, and copies of them that are evaluated later.         *)
(***************************************************************************)
EXTENDS TxnRecord

CONSTANTS
  MaxEpoch,          \* bound on the transaction's epoch
  Scenarios,         \* has the transaction no reads to refresh (fwd), and how often
                     \* may each disturbance happen (budget)?
  ResendLost         \* does DistSender resend an RPC that broke?

ASSUME ScenariosAssumption ==
  \A s \in Scenarios : s.fwd \in BOOLEAN /\ s.budget.restart <= MaxEpoch

VARIABLES
  co,    \* the coordinator
  net,   \* requests whose sender no longer waits for this copy
  left   \* what is left of the budget

vars == <<record, tombstone, pushMark, intent, version, tscache, mine, seen, outcomes,
          cleaned, recovery, co, net, left>>

Epoch == 0..MaxEpoch

Init ==
  /\ ServerInit
  /\ \E s \in Scenarios :
       /\ co = [pc |-> "run", epoch |-> 0, rts |-> 1, wts |-> 1, fwd |-> s.fwd,
                keys |-> {}, old |-> {}, piped |-> {}, batch |-> {}, par |-> FALSE,
                ended |-> FALSE, hrts |-> 0, hwts |-> 0, pend |-> {}, amb |-> {},
                err |-> "none", qerr |-> "none", staged |-> 0, told |-> "none"]
       /\ left = s.budget
  /\ net = {}

-----------------------------------------------------------------------------
(***************************************************************************)
(* Requests.                                                               *)
(***************************************************************************)

PutRequest(k, rts, wts) ==
  [type |-> "put", key |-> k, epoch |-> co.epoch, rts |-> rts, wts |-> wts]

InFlightPiped == IF co.par THEN co.piped ELSE {}

\* attachLocksToEndTxn: the in-flight writes go with a parallel commit, all
\* other keys the transaction ever wrote are its locks.
InFlight == IF co.par THEN co.piped \cup co.batch ELSE {}

CommitRequest ==
  [type |-> "end", commit |-> TRUE, epoch |-> co.epoch, rts |-> co.hrts,
   wts |-> co.hwts, fwd |-> co.fwd, writes |-> InFlight,
   locks |-> (co.keys \ InFlight) \cup co.old]

\* makeTxnCommitExplicitAsync
ExplicitCommit ==
  [type |-> "end", commit |-> TRUE, epoch |-> co.epoch, rts |-> co.staged,
   wts |-> co.staged, fwd |-> co.fwd, writes |-> {}, locks |-> co.keys \cup co.old]

Rollback ==
  [type |-> "end", commit |-> FALSE, epoch |-> co.epoch, rts |-> co.rts,
   wts |-> co.wts, fwd |-> FALSE, writes |-> {}, locks |-> co.keys \cup co.old]

\* A put that the server had to move above a committed value: with no reads to
\* refresh it moves the read timestamp too, otherwise the response is flagged.
PutReplyRTS(q) == IF TooOld(q) /\ co.fwd THEN Max2(co.rts, PutReply(q)) ELSE co.rts

\* The bound on timestamps.
InBounds(q) == PutTS(q) <= MaxTS /\ PutReply(q) <= MaxTS

Spend(what) == left[what] > 0 /\ left' = [left EXCEPT ![what] = @ - 1]

-----------------------------------------------------------------------------
(***************************************************************************)
(* Before the commit: pipelined writes, restarts and rollbacks.            *)
(***************************************************************************)

\* PrepareTransactionForRetry and epochBumpedLocked: the next attempt starts from
\* nothing, at the timestamp the last one was pushed to.
NextEpoch(c) ==
  [c EXCEPT !.pc = "run", !.epoch = @ + 1, !.rts = c.wts, !.old = @ \cup c.keys,
            !.keys = {}, !.piped = {}, !.batch = {}, !.par = FALSE, !.ended = FALSE,
            !.hrts = 0, !.hwts = 0, !.pend = {}, !.amb = {}, !.err = "none",
            !.qerr = "none", !.staged = 0]

Done(c, told) == [c EXCEPT !.pc = "done", !.told = told, !.pend = {}, !.amb = {}]

\* A write of the client, answered once it is evaluated; the refresher handles
\* the write-too-old flag at once, by a refresh or by a restart.
Write(k) ==
  LET q == PutRequest(k, co.rts, co.wts)
      wts == Max2(co.wts, PutReply(q))
      c == [co EXCEPT !.pc = "run", !.keys = @ \cup {k}, !.piped = @ \cup {k},
                      !.batch = {}, !.wts = wts, !.rts = PutReplyRTS(q)]
  IN /\ k \notin co.keys
     /\ co.pc = "run" \/ (co.pc = "resend" /\ k \in co.batch)
     /\ InBounds(q)
     /\ EvalPut(q)
     /\ \/ co' = (IF TooOld(q) THEN [c EXCEPT !.rts = wts] ELSE c) /\ UNCHANGED left
        \/ TooOld(q) /\ ~co.fwd /\ Spend("restart") /\ co' = NextEpoch(c)
     /\ UNCHANGED net

\* The response of a pipelined write does not wait for replication, which fails.
WriteFailed(k) ==
  LET q == PutRequest(k, co.rts, co.wts)
  IN /\ co.pc = "run" /\ k \notin co.keys
     /\ Spend("failed")
     /\ InBounds(q) /\ ~TooOld(q)
     /\ co' = [co EXCEPT !.keys = @ \cup {k}, !.piped = @ \cup {k},
                         !.wts = Max2(@, PutReply(q))]
     /\ UNCHANGED <<server, net>>

\* The RPC of a write breaks: it is sent again, or the client gives up.
WriteLost(k) ==
  /\ co.pc = "run" /\ k \notin co.keys
  /\ Spend("lost")
  /\ \/ /\ ResendLost
        /\ net' = net \cup {PutRequest(k, co.rts, co.wts)}
        /\ co' = [co EXCEPT !.pc = "resend", !.batch = {k}]
     \/ /\ co' = Done([co EXCEPT !.keys = @ \cup {k}], "error")
        /\ net' = net \cup {PutRequest(k, co.rts, co.wts),
                            [Rollback EXCEPT !.locks = @ \cup {k}]}
  /\ UNCHANGED server

ClientRollback ==
  /\ co.pc = "run" /\ co.keys \cup co.old # {}
  /\ co' = Done(co, "rolledback")
  /\ net' = net \cup {Rollback}
  /\ UNCHANGED <<server, left>>

Heartbeat ==
  /\ co.keys \cup co.old # {}
  /\ HeartbeatTxn(co.epoch, co.wts)
  /\ UNCHANGED <<co, net, left>>

-----------------------------------------------------------------------------
(***************************************************************************)
(* The commit batch: the last writes, a QueryIntent for each pipelined     *)
(* write, and EndTxn.  A parallel commit of the first epoch sends all of   *)
(* them at once; otherwise EndTxn waits for the rest.                      *)
(***************************************************************************)

Puts(ks) == {<<"put", k>> : k \in ks}
Queries(ks) == {<<"query", k>> : k \in ks}
End == <<"end">>

Concurrent == co.par /\ co.epoch = 0

Prepare(c) ==
  LET both == c.par /\ c.epoch = 0
  IN [c EXCEPT !.pc = "commit", !.hrts = c.rts, !.hwts = c.wts, !.staged = 0,
               !.err = "none", !.qerr = "none", !.amb = {}, !.ended = both,
               !.pend = Puts(c.batch) \cup Queries(c.piped) \cup (IF both THEN {End} ELSE {})]

StartCommit(b, par) ==
  LET ks == co.keys \cup b
  IN /\ co.pc = "run"
     /\ b \subseteq Key \ co.keys
     /\ ks \cup co.old # {}
     /\ par => co.piped \cup b # {}
     /\ co' = Prepare([co EXCEPT !.keys = ks, !.batch = b, !.par = par])
     /\ UNCHANGED <<server, net, left>>

\* EndTxn of a batch that was split, with what the other requests answered.
SendEndTxn ==
  /\ co.pc = "commit" /\ co.pend = {} /\ ~co.ended
  /\ co.err = "none" /\ co.qerr = "none"
  /\ co' = [co EXCEPT !.ended = TRUE, !.pend = {End}, !.hrts = co.rts, !.hwts = co.wts]
  /\ UNCHANGED <<server, net, left>>

\* Errors that meet are merged by priority; an error of a request that may
\* have been evaluated before, next to a commit, is ambiguous.
Priority(e) ==
  CASE e = "none"    -> 0
    [] e = "retry"   -> 1
    [] e = "aborted" -> 3
    [] OTHER         -> 2

MergeErr(old, new) == IF Priority(new) > Priority(old) THEN new ELSE old

ErrOf(x, e) == IF e # "none" /\ x \in co.amb THEN "ambiguous" ELSE e

SendPut(k) ==
  LET x == <<"put", k>>
      q == PutRequest(k, co.hrts, co.hwts)
      e == IF PutRefused(q) THEN "error" ELSE "none"
  IN /\ co.pc = "commit" /\ x \in co.pend
     /\ InBounds(q)
     /\ EvalPut(q)
     /\ co' = [co EXCEPT !.pend = @ \ {x}, !.wts = Max2(@, PutReply(q)),
                         !.rts = PutReplyRTS(q), !.err = MergeErr(@, ErrOf(x, e))]
     /\ UNCHANGED <<net, left>>

\* A query of the transaction's own intent: found, pushed to a later timestamp
\* (a retry error that says where to) or missing.
SendQuery(k) ==
  LET x == <<"query", k>>
      i == intent[k]
      pushed == i.epoch = co.epoch /\ i.ts > co.hwts
      e == IF Found(k, co.epoch, co.hwts) THEN "none"
           ELSE IF pushed THEN "retry" ELSE "missing"
  IN /\ co.pc = "commit" /\ x \in co.pend
     /\ tscache' = QueriedCache(k, co.epoch, co.hwts)
     /\ co' = [co EXCEPT !.pend = @ \ {x},
                         !.wts = IF pushed THEN Max2(@, i.ts) ELSE @,
                         !.qerr = MergeErr(@, ErrOf(x, e))]
     /\ UNCHANGED <<record, tombstone, pushMark, intent, version, mine, seen, outcomes,
                    cleaned, recovery, net, left>>

SendEnd ==
  LET q == CommitRequest
      reply == EndTxnReply(q)
      ok == reply \in {"ok", "staged"}
      ts == MergedTS(q)
  IN /\ co.pc = "commit" /\ End \in co.pend
     /\ EndTxn(q)
     /\ co' = [co EXCEPT !.pend = @ \ {End},
                         !.staged = IF ok THEN ts ELSE @,
                         !.wts = IF ok \/ reply = "retry" THEN Max2(@, ts) ELSE @,
                         !.rts = IF ok /\ co.fwd THEN Max2(@, ts) ELSE @,
                         !.err = MergeErr(@, ErrOf(End, IF ok THEN "none" ELSE reply))]
     /\ UNCHANGED <<net, left>>

\* sendToReplicas: the RPC breaks and its copy may still be evaluated.  It is
\* sent again, or the context is done.
Lose(x) ==
  LET withCommit == Concurrent \/ x = End
      copy == CASE x = End -> {CommitRequest}
                [] x[1] = "put" -> {PutRequest(x[2], co.hrts, co.hwts)}
                [] OTHER -> {}
      gaveUp == IF withCommit THEN "ambiguous" ELSE "error"
  IN /\ co.pc = "commit" /\ x \in co.pend
     /\ Spend("lost")
     /\ net' = net \cup copy
     /\ \/ /\ ResendLost
           /\ co' = [co EXCEPT !.amb = IF withCommit THEN @ \cup {x} ELSE @]
        \/ co' = [co EXCEPT !.pend = @ \ {x}, !.err = MergeErr(@, gaveUp)]
     /\ UNCHANGED server

\* A copy whose sender moved on is evaluated; nobody reads the response.
Deliver(q) ==
  /\ q \in net
  /\ IF q.type = "put" THEN InBounds(q) /\ EvalPut(q) ELSE EndTxn(q)
  /\ net' = net \ {q}
  /\ UNCHANGED <<co, left>>

-----------------------------------------------------------------------------
(***************************************************************************)
(* The end of a commit attempt.                                            *)
(***************************************************************************)

MissingIntentUnchecked == "absent"

\* detectIntentMissingDueToIntentResolution asks the record when all that went
\* wrong next to a concurrent EndTxn is a missing intent.
MissingIntent ==
  CASE record.st = "COMMITTED" -> "none"
    [] record.st = "ABORTED" \/ (record.st = "none" /\ tombstone) -> "ambiguous"
    [] OTHER -> "absent"

Undetected == Concurrent /\ co.err = "none" /\ co.qerr = "missing"

DetectMissing ==
  /\ co.pc = "commit" /\ co.pend = {} /\ Undetected
  /\ co' = [co EXCEPT !.qerr = MissingIntent]
  /\ UNCHANGED <<server, net, left>>

\* What the whole batch comes to, needTxnRetryAfterStaging included.  Next to a
\* concurrent EndTxn the queries count only when the rest has no error.
BatchErr ==
  LET e == IF Concurrent /\ co.err # "none" THEN co.err ELSE MergeErr(co.err, co.qerr)
  IN IF e = "none" /\ co.ended /\ co.par /\ co.staged < co.wts THEN "retry" ELSE e

Finished ==
  /\ co.pc = "commit" /\ co.pend = {} /\ ~Undetected
  /\ co.ended \/ co.err # "none" \/ co.qerr # "none"

Acknowledge ==
  /\ Finished /\ BatchErr = "none"
  /\ co' = Done(co, "committed")
  /\ net' = IF co.par THEN net \cup {ExplicitCommit} ELSE net
  /\ UNCHANGED <<server, left>>

\* A successful refresh sends the batch again, never as a parallel commit.
Refresh ==
  /\ Finished /\ BatchErr = "retry"
  /\ Spend("refresh")
  /\ co' = Prepare([co EXCEPT !.rts = co.wts, !.par = FALSE])
  /\ UNCHANGED <<server, net>>

Restart ==
  /\ Finished /\ BatchErr \in {"retry", "missing", "absent"}
  /\ Spend("restart")
  /\ co' = NextEpoch(co)
  /\ UNCHANGED <<server, net>>

\* The client is told, and CleanupOnError sends a rollback, even when the outcome
\* is unknown.  Only a commit found by surprise is not followed by one: that is
\* fatal in sanityCheckCommittedErr.
Fail ==
  LET e == BatchErr
  IN /\ Finished /\ e \in {"aborted", "ambiguous", "error", "committed"}
     /\ co' = Done(co, IF e = "committed" THEN "unexpected" ELSE e)
     /\ net' = IF e = "committed" THEN net ELSE net \cup {Rollback}
     /\ UNCHANGED <<server, left>>

-----------------------------------------------------------------------------
Coordinator ==
  \/ \E k \in Key : Write(k) \/ WriteFailed(k) \/ WriteLost(k)
  \/ ClientRollback
  \/ Heartbeat
  \/ \E b \in SUBSET Key, par \in BOOLEAN : StartCommit(b, par)
  \/ SendEndTxn
  \/ \E k \in Key : SendPut(k) \/ SendQuery(k)
  \/ SendEnd
  \/ \E x \in co.pend : Lose(x)
  \/ \E q \in net : Deliver(q)
  \/ DetectMissing
  \/ Acknowledge \/ Refresh \/ Restart \/ Fail

Others ==
  \/ /\ \/ \E m \in seen :
             \/ PushTxn(m, "abort", 0)
             \/ \E to \in TS \ {0} : PushTxn(m, "timestamp", to)
             \/ \E r \in Recoverer :
                  \/ StartRecovery(r, m, "abort", 0)
                  \/ \E to \in TS : StartRecovery(r, m, "timestamp", to)
        \/ \E r \in Recoverer : ProbeTxn(r) \/ RecoverTxn(r)
        \/ \E r \in Recoverer, k \in Key : ProbeIntent(r, k)
        \/ \E k \in Key, o \in outcomes : ResolveIntent(k, o)
        \/ GCTxnRecord
     /\ UNCHANGED <<co, net, left>>
  \/ /\ \/ \E k \in Key, ts \in TS : BumpTSCache(k, ts) /\ Spend("bump")
        \/ \E k \in Key, ts \in TS : ForeignCommit(k, ts) /\ Spend("foreign")
        \/ RecordLeaseChange /\ Spend("lease")
     /\ UNCHANGED <<co, net>>

Next == Coordinator \/ Others

Spec == Init /\ [][Next]_vars

\* A transaction that finds an intent in its way keeps pushing (the wait queue
\* pushes again and again, and a transaction without heartbeats always loses),
\* takes up recovery when the push is indeterminate, and resolves the intent.
\* The coordinator may stop at any point.
Blocked(k, A) == intent[k] # NoIntent /\ A /\ UNCHANGED <<co, net, left>>

Fairness ==
  /\ \A k \in Key :
       /\ WF_vars(Blocked(k, PushTxn(intent[k], "abort", 0)))
       /\ WF_vars(Blocked(k, \E o \in outcomes : Finalized(o.st) /\ ResolveIntent(k, o)))
       /\ \A r \in Recoverer : WF_vars(Blocked(k, StartRecovery(r, intent[k], "abort", 0)))
  /\ \A r \in Recoverer :
       /\ WF_vars((ProbeTxn(r) \/ RecoverTxn(r)) /\ UNCHANGED <<co, net, left>>)
       /\ \A k \in Key : WF_vars(ProbeIntent(r, k) /\ UNCHANGED <<co, net, left>>)

FairSpec == Spec /\ Fairness

-----------------------------------------------------------------------------
(***************************************************************************)
(* Properties.                                                             *)
(***************************************************************************)

\* The value written to k in epoch e is committed at ts, or will be whoever
\* resolves the intent.
Kept(k, e, ts) ==
  \/ mine[k] = [epoch |-> e, ts |-> ts]
  \/ intent[k].epoch = e /\ intent[k].ts <= ts

ImplicitlyCommitted ==
  /\ record.st = "STAGING"
  /\ \A k \in record.writes : Found(k, record.epoch, record.ts)

\* What has been decided.  A push that meets an old intent of a committed
\* transaction, whose record is gone, is told that it aborted; that changes nothing.
Decision ==
  IF \/ ImplicitlyCommitted \/ record.st = "COMMITTED"
     \/ \E k \in Key : mine[k] # NoIntent
     \/ \E o \in outcomes : o.st = "COMMITTED"
  THEN "committed"
  ELSE IF record.st = "ABORTED" \/ \E o \in outcomes : o.st = "ABORTED" THEN "aborted" ELSE "open"

Abstract == INSTANCE AtomicCommit
  WITH decision <- Decision, visible <- mine, told <- co.told, Nothing <- NoIntent

\* The coordinator, EndTxn, PushTxn, RecoverTxn and ResolveIntent together
\* implement AtomicCommit: a parallel commit is decided by the step that makes
\* it implicit, whichever request that is, and no later step of anybody decides
\* again, shows a value too early or tells the client otherwise.  Only the rollback
\* that a client sends after an ambiguous error undoes an implicit commit (#48301).
ImplementsAtomicCommit == Abstract!Spec

\* Once txnCommitter.SendLocked told the client that its transaction committed,
\* no push, recovery, resolution, lost or late request takes that back: the
\* record is STAGING or COMMITTED at the staging timestamp and holds every write
\* of the last epoch, until each is a committed value at that timestamp.
AckedSurvives ==
  co.told = "committed" =>
    \/ /\ record.st \in {"STAGING", "COMMITTED"}
       /\ record.epoch = co.epoch /\ record.ts = co.staged
       /\ \A k \in co.keys : Kept(k, co.epoch, co.staged)
    \/ /\ record.st = "none" /\ tombstone
       /\ \A k \in co.keys : mine[k] = [epoch |-> co.epoch, ts |-> co.staged]

\* Atomicity of EndTxn, RecoverTxn and ResolveIntent together: a transaction with
\* a committed value on some key, or with a COMMITTED record, loses none of the
\* writes of the coordinator's epoch, and commits all of them at one timestamp.
AllOrNothing ==
  \A e \in Epoch, ts \in TS :
    \/ \E k \in Key : mine[k] = [epoch |-> e, ts |-> ts]
    \/ record.st = "COMMITTED" /\ record.epoch = e /\ record.ts = ts
    => e = co.epoch /\ \A k \in co.keys : Kept(k, e, ts)

\* No value commits below a timestamp that PushTxn promised to a pusher, not even
\* when the record did not exist yet and only a timestamp cache marker knew.
PushRespected ==
  \A o \in outcomes, k \in Key :
    o.st # "ABORTED" /\ mine[k] # NoIntent => mine[k].ts >= o.ts

\* Once PushTxn or EndTxn told anybody that the transaction is aborted (so that
\* its intents may be removed), none of its writes becomes a committed value any
\* more: CanCreateTxnRecord never lets the record come back.
AbortRespected ==
  [][(\E o \in outcomes : o.st = "ABORTED") => mine' = mine]_vars

\* A rollback reaches the record of a client that was told nothing certain.
RolledBack ==
  /\ co.told = "ambiguous" /\ record'.st = "ABORTED"
  /\ \E q \in net \ net' : q.type = "end" /\ ~q.commit

\* An implicit commit is a commit: once a STAGING record has all its in-flight
\* writes, PushTxn, RecoverTxn and EndTxn leave it STAGING with all its writes or
\* make it COMMITTED, at the same epoch and timestamp.  EndTxn(commit=false) alone
\* does not look at the writes: the rollback after an ambiguous commit aborts it.
ImplicitCommitStable ==
  [][ImplicitlyCommitted =>
       \/ /\ ImplicitlyCommitted' \/ record'.st = "COMMITTED"
          /\ record'.epoch = record.epoch /\ record'.ts = record.ts
       \/ RolledBack]_vars

\* What RecoverTxn says of every implicit commit: that it is never ABORTED, nor
\* PENDING again.  The rollback after an ambiguous commit refutes it.
ImplicitCommitFinal ==
  [][ImplicitlyCommitted => record'.st \in {"STAGING", "COMMITTED"}]_vars

\* The record has moved past the epoch or the timestamp that a recovery probed.
MovedPast(v) == v.epoch < record.epoch \/ v.ts < record.ts

\* What RecoverTxn may find when its probe has not seen the record change.  A recovery
\* that found every in-flight write finds its commit staged, committed, or collected;
\* one that prevented a write finds a PENDING record only if a push moved it on, and
\* the very commit it prevented only if the write was there and has been resolved.
\* So no "programming error" return is reached but two: "found ABORTED record" after
\* an ambiguous commit was rolled back, and "cannot recover PENDING transaction".
RecoveryNotConfused ==
  \A r \in Recoverer :
    LET v == recovery[r]
        same == record.epoch = v.epoch /\ record.ts = v.ts
    IN Probed(v) /\ ~v.changed =>
         \/ record.st = "none" /\ tombstone
         \/ record.st = "STAGING" /\ (same \/ v.missed)
         \/ record.st = "COMMITTED" /\ same /\ (v.missed => \E k \in Key : mine[k] # NoIntent)
         \/ record.st \in {"PENDING", "COMMITTED"} /\ v.missed /\ MovedPast(v)
         \/ record.st = "ABORTED" /\ (v.missed \/ co.told = "ambiguous")

\* What RecoverTxn says of a PENDING record: that it is of a later epoch than the
\* one probed.  A push by somebody who saw a later intent refutes it.
RecoveredNotPending ==
  \A r \in Recoverer :
    Probed(recovery[r]) /\ ~recovery[r].changed /\ record.st = "PENDING" =>
      recovery[r].epoch < record.epoch

\* A coordinator that holds a retryable error of its commit batch, and will send
\* the batch again or restart, runs a transaction that nobody has committed or
\* can commit: what txnCommitter.SendLocked relies on when it turns STAGING back
\* into PENDING, and sanityCheckCommittedErr when it calls the contrary fatal.
\* A transaction without reads is excepted: EndTxn may stage it above its header's
\* timestamp, where the QueryIntent next to it does not look.
RetryNotCommitted ==
  Finished /\ BatchErr \in {"retry", "missing", "absent"} /\ ~co.fwd =>
    ~ImplicitlyCommitted /\ record.st # "COMMITTED"

\* An intent never blocks others for ever, wherever its coordinator stopped:
\* pushes, the recovery manager and intent resolution get rid of it.
IntentsResolved == \A k \in Key : intent[k] # NoIntent ~> intent[k] = NoIntent

=============================================================================
