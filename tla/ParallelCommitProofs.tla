------------------------- MODULE ParallelCommitProofs -------------------------
(***************************************************************************)
(* Proofs that the protocol of module TxnCommit, with its parallel commits *)
(* and recoveries, is atomic: for any number of keys, recovery managers,   *)
(* epochs, timestamps and disturbances, of a transaction that has reads to *)
(* refresh, as long as DistSender does not send an RPC that broke again.   *)
(* The client may roll back after an ambiguous commit: what that undoes is *)
(* part of the statements.                                                 *)
(***************************************************************************)
EXTENDS TxnRequestProofs, TxnCoordProofs

\* Leaves are first-order unless they cite SMT.
USE ZenonT(60)

-----------------------------------------------------------------------------
(***************************************************************************)
(* The invariant is inductive.                                             *)
(***************************************************************************)

LEMMA InitIInv ==
  ASSUME SentOnce, Init
  PROVE  IInv
<1>1. TypeOK /\ PushInv
  BY InitKeeps
<1>2. PICK s \in Scenarios :
        co = [pc |-> "run", epoch |-> 0, rts |-> 1, wts |-> 1, fwd |-> s.fwd,
              keys |-> {}, old |-> {}, piped |-> {}, batch |-> {}, par |-> FALSE,
              ended |-> FALSE, hrts |-> 0, hwts |-> 0, pend |-> {}, amb |-> {},
              err |-> "none", qerr |-> "none", staged |-> 0, told |-> "none"]
  BY DEF Init
<1>3. /\ co.pc = "run" /\ co.epoch = 0 /\ co.rts = 1 /\ co.wts = 1 /\ ~co.fwd /\ co.keys = {}
      /\ co.piped = {} /\ ~co.par /\ ~co.ended /\ co.hrts = 0 /\ co.hwts = 0 /\ co.pend = {}
      /\ co.amb = {} /\ co.err = "none" /\ co.qerr = "none" /\ co.staged = 0 /\ co.told = "none"
      /\ net = {}
  BY <1>2 DEF SentOnce, Init
<1>4. /\ record = NoRecord /\ intent = [k \in Key |-> NoIntent] /\ seen = {} /\ outcomes = {}
      /\ mine = [k \in Key |-> NoIntent] /\ cleaned = {} /\ ~tombstone
      /\ \A r \in Recoverer : recovery[r].pc # "probe"
  BY DEF Init, ServerInit, Idle
<1>5. CoInv /\ NetInv
  BY <1>3, SMT, Z3 DEF CoInv, NetInv, Concurrent
<1>6. EpochInv
  BY <1>3, <1>4, NoIntentFacts, NoRecordFacts, SMT, Z3 DEF EpochInv
<1>7. ~Committed /\ record.st = "none"
  BY <1>4, NoRecordFacts DEF Committed
<1>8. Landed /\ NoticeInv /\ StagingInv /\ RecoveryInv /\ FinalInv /\ CommittedInv /\ AckInv
  BY <1>3, <1>4, <1>7 DEF Landed, NoticeInv, StagingInv, RecoveryInv, FinalInv, CommittedInv, AckInv
<1> QED
  BY <1>1, <1>5, <1>6, <1>8 DEF IInv

LEMMA UnchangedKeepsIInv ==
  ASSUME IInv, TypeOK', PushInv', UNCHANGED vars
  PROVE  IInv'
<1>1. UNCHANGED <<record, tombstone, intent, tscache, mine, seen, outcomes, cleaned, recovery,
                  co, net>>
  BY DEF vars
<1>2. OnWay' = OnWay /\ Concurrent' = Concurrent /\ Unevaluated' = Unevaluated /\ Doomed' = Doomed
  BY <1>1 DEF OnWay, PutRequest, Concurrent, Unevaluated, Doomed
<1>3. /\ Committed' = Committed /\ NotFinal' = NotFinal /\ (DeadBatch' = DeadBatch)
      /\ (Dead' = Dead)
  BY <1>1, <1>2 DEF Committed, NotFinal, DeadBatch, Dead, Alive
<1>4. CoInv' /\ EpochInv' /\ Landed' /\ NoticeInv'
  BY <1>1, <1>2, <1>3, SMTT(30), Z3 DEF IInv, CoInv, EpochInv, Landed, NoticeInv
<1>5. NetInv'
  BY <1>1, <1>2, SMTT(30), Z3 DEF IInv, NetInv, CommitRequest, InFlight, ExplicitCommit
<1>6. StagingInv' /\ FinalInv'
  BY <1>1, <1>2, <1>3 DEF IInv, StagingInv, FinalInv
<1>7. RecoveryInv'
  BY <1>1, <1>2, <1>3 DEF IInv, RecoveryInv, Probing, Informed, NeverCommits, Alive, Found
<1>8. CommittedInv' /\ AckInv'
  BY <1>1, <1>2, <1>3 DEF IInv, CommittedInv, AckInv, Alive, Found
<1> QED
  BY <1>4, <1>5, <1>6, <1>7, <1>8 DEF IInv

LEMMA NextKeepsIInv ==
  ASSUME SentOnce, IInv, [Next]_vars
  PROVE  IInv'
<1>1. TypeOK' /\ PushInv'
  BY NextKeeps DEF IInv
<1>2. ~ResendLost /\ TypeOK
  BY DEF SentOnce, IInv
<1>3. CASE UNCHANGED vars
  BY <1>1, <1>3, UnchangedKeepsIInv
<1>4. CASE CoordOnly
  BY <1>1, <1>2, <1>4, WriteFailedKeepsIInv, WriteLostKeepsIInv, ClientRollbackKeepsIInv,
     StartCommitKeepsIInv, SendEndTxnKeepsIInv, LoseKeepsIInv, DetectMissingKeepsIInv,
     AcknowledgeKeepsIInv, RefreshKeepsIInv, RestartKeepsIInv, FailKeepsIInv DEF CoordOnly
<1>5. CASE \/ \E k \in Key : Write(k) \/ SendPut(k) \/ SendQuery(k)
           \/ SendEnd
           \/ \E q \in net : Deliver(q)
  BY <1>1, <1>5, WriteKeepsIInv, SendPutKeepsIInv, SendQueryKeepsIInv, SendEndKeepsIInv,
     DeliverKeepsIInv
<1>6. CASE /\ UNCHANGED <<co, net>>
           /\ \/ HeartbeatTxn(co.epoch, co.wts)
              \/ \E m \in seen, type \in {"abort", "timestamp"}, to \in TS : PushTxn(m, type, to)
              \/ \E r \in Recoverer : RecoverTxn(r)
              \/ \E k \in Key, o \in outcomes : ResolveIntent(k, o)
              \/ GCTxnRecord
              \/ RecordLeaseChange
  BY <1>1, <1>6, HeartbeatKeepsIInv, PushKeepsIInv, RecoverKeepsIInv, ResolveKeepsIInv, GCKeepsIInv,
     LeaseChangeKeeps
<1>7. CASE /\ UNCHANGED <<co, net>>
           /\ \/ \E k \in Key, ts \in TS : BumpTSCache(k, ts) \/ ForeignCommit(k, ts)
              \/ \E r \in Recoverer : ProbeTxn(r)
              \/ \E r \in Recoverer, k \in Key : ProbeIntent(r, k)
              \/ \E r \in Recoverer, m \in seen, type \in {"abort", "timestamp"}, to \in TS :
                   StartRecovery(r, m, type, to)
  BY <1>1, <1>7, AsideKeepsIInv
<1> QED
  BY <1>2, <1>3, <1>4, <1>5, <1>6, <1>7, NextCases

LEMMA Invariance ==
  ASSUME SentOnce
  PROVE  Spec => []IInv
<1>1. Init => IInv
  BY InitIInv
<1>2. IInv /\ [Next]_vars => IInv'
  BY NextKeepsIInv
<1> QED
  BY <1>1, <1>2, PTL DEF Spec

-----------------------------------------------------------------------------
(***************************************************************************)
(* The invariants of TxnCommit.                                            *)
(***************************************************************************)

\* An implicit commit is the coordinator's, and every write of its batch is there.
LEMMA ImplicitCommit ==
  ASSUME IInv, ImplicitlyCommitted
  PROVE  /\ Current(co, record.epoch, record.ts) /\ ~Unevaluated /\ record.writes = co.keys
         /\ record.epoch = co.epoch /\ record.ts = co.hwts /\ co.wts = co.hwts /\ co.par
         /\ \A k \in co.keys : Found(k, co.epoch, co.hwts)
         /\ ~Dead /\ ~DeadBatch /\ OnWay = {} /\ NotFinal /\ ~Committed
<1>1. record.st = "STAGING" /\ \A k \in record.writes : Found(k, record.epoch, record.ts)
  BY DEF ImplicitlyCommitted
<1>2. ~Dead
  BY <1>1 DEF Dead, Alive, Possible, Found
<1>3. Current(co, record.epoch, record.ts) /\ ~Unevaluated /\ record.writes = co.keys
  BY <1>1, <1>2 DEF IInv, StagingInv
<1>4. record.epoch = co.epoch /\ record.ts = co.hwts /\ co.par
  BY <1>3 DEF Current
<1>5. (\A k \in co.keys : Found(k, co.epoch, co.hwts)) /\ ~DeadBatch
  BY <1>1, <1>2, <1>3, <1>4 DEF Dead, DeadBatch
<1>6. co.wts = co.hwts
  <2>1. ~(co.wts > co.hwts)
    BY <1>1, <1>4, <1>5 DEF IInv, NoticeInv
  <2>2. co.hwts <= co.wts
    BY DEF IInv, CoInv
  <2>3. co.wts \in Nat /\ co.hwts \in Nat
    BY Clocks DEF IInv
  <2> QED
    BY <2>1, <2>2, <2>3, SMT, Z3
<1>7. OnWay = {}
  <2> SUFFICES ASSUME NEW q \in OnWay PROVE FALSE
    OBVIOUS
  <2>1. q.key \in co.keys /\ intent[q.key].epoch < co.epoch
    BY <1>4, OnWayKeys DEF IInv, Landed
  <2> QED
    BY <1>5, <2>1, Clocks, SMT, Z3 DEF IInv, Found
<1>8. NotFinal /\ ~Committed
  BY <1>1 DEF NotFinal, IInv, FinalInv
<1> QED
  BY <1>2, <1>3, <1>4, <1>5, <1>6, <1>7, <1>8

LEMMA StagedIsAtomic ==
  ASSUME IInv
  PROVE  AllOrNothing
<1> SUFFICES ASSUME NEW e \in Epoch, NEW ts \in TS,
                    \/ \E k \in Key : mine[k] = [epoch |-> e, ts |-> ts]
                    \/ record.st = "COMMITTED" /\ record.epoch = e /\ record.ts = ts
             PROVE  e = co.epoch /\ \A k \in co.keys : Kept(k, e, ts)
  BY DEF AllOrNothing
<1>1. [epoch |-> e, ts |-> ts] # NoIntent
  BY NoIntentFacts, SMT, Z3 DEF Epoch
<1>2. Committed
  BY <1>1 DEF Committed
<1>3. /\ \A k \in Key : mine[k] # NoIntent => mine[k] = [epoch |-> co.epoch, ts |-> co.hwts]
      /\ \/ /\ record.st = "COMMITTED" /\ record.epoch = co.epoch /\ record.ts = co.hwts
            /\ \A k \in co.keys : mine[k] # NoIntent \/ Found(k, co.epoch, co.hwts)
         \/ record.st # "COMMITTED" /\ \A k \in co.keys : mine[k] # NoIntent
  BY <1>2 DEF IInv, CommittedInv
<1>4. e = co.epoch /\ ts = co.hwts
  BY <1>1, <1>3, SMT, Z3
<1> QED
  BY <1>3, <1>4, Clocks DEF IInv, Kept, Found

LEMMA StagedIsKept ==
  ASSUME IInv
  PROVE  AckedSurvives
<1> SUFFICES ASSUME co.told = "committed"
             PROVE  \/ /\ record.st \in {"STAGING", "COMMITTED"}
                       /\ record.epoch = co.epoch /\ record.ts = co.hwts
                       /\ \A k \in co.keys : Kept(k, co.epoch, co.hwts)
                    \/ /\ record.st = "none" /\ tombstone
                       /\ \A k \in co.keys : mine[k] = [epoch |-> co.epoch, ts |-> co.hwts]
  <2>1. co.told = "committed" => co.staged = co.hwts
    BY DEF IInv, CoInv
  <2> QED
    BY <2>1 DEF AckedSurvives
<1>1. CASE Committed
  <2>1. /\ \A k \in Key : mine[k] # NoIntent => mine[k] = [epoch |-> co.epoch, ts |-> co.hwts]
        /\ \/ /\ record.st = "COMMITTED" /\ record.epoch = co.epoch /\ record.ts = co.hwts
              /\ \A k \in co.keys : mine[k] # NoIntent \/ Found(k, co.epoch, co.hwts)
           \/ record.st = "none" /\ tombstone /\ \A k \in co.keys : mine[k] # NoIntent
    BY <1>1 DEF IInv, CommittedInv
  <2> QED
    BY <2>1, Clocks DEF IInv, Kept, Found
<1>2. CASE ~Committed
  <2>1. /\ co.par /\ record.st = "STAGING" /\ record.epoch = co.epoch
        /\ \A k \in co.keys : Found(k, co.epoch, co.hwts)
    BY <1>2 DEF IInv, AckInv
  <2>2. record.ts = co.hwts
    BY <2>1, Clocks, SMTT(30), Z3 DEF IInv, StagingInv, Superseded, Current
  <2> QED
    BY <2>1, <2>2 DEF Kept, Found
<1> QED
  BY <1>1, <1>2

\* Atomicity: whatever EndTxn, RecoverTxn and ResolveIntent do, in any order and with
\* any number of keys, recoveries, restarts and lost requests, a transaction that has
\* a COMMITTED record or a committed value loses none of its writes.
THEOREM CommitIsAtomic ==
  ASSUME SentOnce
  PROVE  Spec => []AllOrNothing
BY Invariance, StagedIsAtomic, PTL

\* A commit that txnCommitter.SendLocked acknowledged, when its record was only
\* STAGING, is never taken back by a push, a recovery or a late request.
THEOREM AcknowledgedIsKept ==
  ASSUME SentOnce
  PROVE  Spec => []AckedSurvives
BY Invariance, StagedIsKept, PTL

\* A batch that the coordinator tries again after a retryable error was not committed
\* behind its back: the assumption of txnCommitter.SendLocked, and of the fatal error
\* in sanityCheckCommittedErr.
THEOREM RetriedIsNotCommitted ==
  ASSUME SentOnce
  PROVE  Spec => []RetryNotCommitted
<1>1. ASSUME IInv PROVE RetryNotCommitted
  <2> SUFFICES ASSUME Finished, BatchErr \in {"retry", "missing", "absent"}
               PROVE  ~ImplicitlyCommitted /\ record.st # "COMMITTED"
    BY DEF RetryNotCommitted
  <2>1. ~Committed /\ (record.st = "STAGING" => Dead)
    BY <1>1, RetriedIsOff
  <2>2. ~ImplicitlyCommitted
    BY <2>1 DEF ImplicitlyCommitted, Dead, Alive, Possible, Found
  <2> QED
    BY <2>1, <2>2 DEF Committed
<1> QED
  BY <1>1, Invariance, PTL

-----------------------------------------------------------------------------
(***************************************************************************)
(* What a recovery finds of the record that it probed.                     *)
(***************************************************************************)

\* The record that v began to probe was not simply forgotten, and as long as it is
\* open it only moves forward: back to PENDING by a push that goes past v.
Followed(v) ==
  /\ record.st = "none" => tombstone
  /\ record.st \in {"PENDING", "STAGING"} => v.epoch <= record.epoch /\ v.ts <= record.ts
  /\ record.st = "PENDING" => MovedPast(v)

ProbeInv == \A r \in Recoverer : recovery[r].pc = "probe" => Followed(recovery[r])

\* A step of anybody, as far as a recovery that is probing can tell.
Forward ==
  /\ tombstone => tombstone'
  /\ \/ UNCHANGED record
     \/ record'.st \in {"ABORTED", "COMMITTED"} \/ (record'.st = "none" /\ tombstone')
     \/ record.st = "none" /\ ~tombstone
     \/ /\ record.st \in {"PENDING", "STAGING"} /\ record'.st \in {"PENDING", "STAGING"}
        /\ record.epoch <= record'.epoch /\ record.ts <= record'.ts
        /\ record.st = "STAGING" /\ record'.st = "PENDING" =>
             record.epoch < record'.epoch \/ record.ts < record'.ts

Attempts ==
  \A r \in Recoverer : recovery'[r].pc = "probe" =>
    \/ /\ recovery[r].pc = "probe"
       /\ recovery'[r].epoch = recovery[r].epoch /\ recovery'[r].ts = recovery[r].ts
    \/ /\ record.st = "STAGING" /\ UNCHANGED record
       /\ recovery'[r].epoch = record.epoch /\ recovery'[r].ts = record.ts

LEMMA FollowedNext ==
  ASSUME IInv, IInv', ProbeInv, Forward, Attempts
  PROVE  ProbeInv'
<1> SUFFICES ASSUME NEW r \in Recoverer, recovery'[r].pc = "probe"
             PROVE  Followed(recovery[r])'
  BY DEF ProbeInv
<1>1. PICK v, w : v = recovery[r] /\ w = recovery'[r]
  OBVIOUS
<1>2. /\ v.epoch \in Nat /\ v.ts \in Nat /\ w.epoch \in Nat /\ w.ts \in Nat
      /\ record.epoch \in Nat /\ record.ts \in Nat /\ record'.epoch \in Nat /\ record'.ts \in Nat
  BY <1>1 DEF IInv, TypeOK, ServerTypeOK, Recovery, Record
<1>3. CASE record.st = "STAGING" /\ UNCHANGED record /\ w.epoch = record.epoch /\ w.ts = record.ts
  BY <1>1, <1>2, <1>3, SMT, Z3 DEF Followed, MovedPast
<1>4. CASE v.pc = "probe" /\ w.epoch = v.epoch /\ w.ts = v.ts
  <2>1. /\ record.st = "none" => tombstone
        /\ record.st \in {"PENDING", "STAGING"} => v.epoch <= record.epoch /\ v.ts <= record.ts
        /\ record.st = "PENDING" => v.epoch < record.epoch \/ v.ts < record.ts
    BY <1>1, <1>4 DEF ProbeInv, Followed, MovedPast
  <2>2. /\ record'.st = "none" => tombstone'
        /\ record'.st \in {"PENDING", "STAGING"} => v.epoch <= record'.epoch /\ v.ts <= record'.ts
        /\ record'.st = "PENDING" => v.epoch < record'.epoch \/ v.ts < record'.ts
    BY <1>2, <2>1, SMT, Z3 DEF Forward
  <2> QED
    BY <1>1, <1>4, <2>2 DEF Followed, MovedPast
<1> QED
  BY <1>1, <1>3, <1>4 DEF Attempts

LEMMA EndForward ==
  ASSUME TypeOK, NEW q \in EndReq, EndTxn(q)
  PROVE  Forward /\ UNCHANGED recovery
<1>1. ServerTypeOK /\ record.epoch \in Nat /\ q.epoch \in Nat
  BY DEF TypeOK, ServerTypeOK, Record, EndReq
<1>2. /\ UNCHANGED recovery
      /\ Stages(q) \/ Commits(q) \/ Aborts(q) \/ Refuses(q)
  BY <1>1, EndTxnFacts
<1>3. CASE Stages(q)
  <2>1. /\ NotFinal /\ record.epoch <= q.epoch /\ record'.st = "STAGING" /\ UNCHANGED tombstone
        /\ record'.epoch = MergedEpoch(q) /\ record'.ts = MergedTS(q)
    BY <1>3 DEF Stages, MayCommit
  <2>2. \/ record.st = "none" /\ ~tombstone
        \/ /\ record.st \in {"PENDING", "STAGING"}
           /\ record.epoch <= record'.epoch /\ record.ts <= record'.ts
    BY <1>1, <2>1, MergedFacts DEF NotFinal
  <2> QED
    BY <1>2, <2>1, <2>2 DEF Forward
<1>4. CASE Commits(q) \/ Aborts(q)
  <2>1. record'.st \in {"none", "COMMITTED", "ABORTED"} /\ tombstone'
    BY <1>4, NoRecordFacts, SMT, Z3 DEF Commits, Aborts, updateFinalizedTxn
  <2> QED
    BY <1>2, <2>1 DEF Forward
<1>5. CASE Refuses(q)
  BY <1>2, <1>5 DEF Refuses, Forward
<1> QED
  BY <1>2, <1>3, <1>4, <1>5

LEMMA PushForward ==
  ASSUME IInv, NEW m \in seen, NEW type \in {"abort", "timestamp"}, NEW to \in TS,
         PushTxn(m, type, to)
  PROVE  Forward /\ UNCHANGED recovery
<1>1. /\ m \in Written /\ to \in Nat /\ ServerTypeOK /\ (Finalized(record.st) => tombstone)
      /\ record.epoch \in Nat /\ record.ts \in Nat /\ m.epoch \in Nat /\ m.ts \in Nat
      /\ record'.epoch \in Nat /\ record'.ts \in Nat
  <2>1. /\ m \in Written /\ to \in Nat /\ ServerTypeOK /\ (Finalized(record.st) => tombstone)
    BY MaxTSAssumption, SMTT(30), Z3 DEF IInv, TypeOK, ServerTypeOK, PushInv, TS
  <2>2. record' \in Record
    BY <2>1, PushTxnFacts
  <2> QED
    BY <2>1, <2>2 DEF ServerTypeOK, Record, Written
<1>2. UNCHANGED recovery /\ (PushAnswers(m) \/ PushAborts(m) \/ PushMoves(m))
  BY <1>1, PushTxnFacts
<1>3. CASE PushAnswers(m)
  BY <1>2, <1>3 DEF PushAnswers, Forward
<1>4. CASE PushAborts(m)
  BY <1>2, <1>4 DEF PushAborts, Forward
<1>5. CASE PushMoves(m)
  <2>1. /\ record.st \in {"PENDING", "STAGING"} /\ record'.st = "PENDING" /\ UNCHANGED tombstone
        /\ record.epoch <= record'.epoch /\ record.ts <= record'.ts
        /\ m.epoch <= record'.epoch /\ m.ts <= record'.ts
        /\ record.st = "STAGING" => m.ts > record.ts \/ m.epoch > record.epoch
    BY <1>5 DEF PushMoves, MayPush, PusherKnowsBetter
  <2>2. record.st = "STAGING" => record.epoch < record'.epoch \/ record.ts < record'.ts
    BY <1>1, <2>1, SMT, Z3
  <2> QED
    BY <1>2, <2>1, <2>2 DEF Forward
<1> QED
  BY <1>2, <1>3, <1>4, <1>5

\* Only the recovery manager's own steps touch the attempts.
LEMMA AttemptsNext ==
  ASSUME IInv, NEW r \in Recoverer,
         \/ ProbeTxn(r) \/ RecoverTxn(r)
         \/ \E k \in Key : ProbeIntent(r, k)
         \/ \E m \in seen, type \in {"abort", "timestamp"}, to \in TS : StartRecovery(r, m, type, to)
  PROVE  Attempts
<1>1. recovery \in [Recoverer -> Recovery]
  BY DEF IInv, TypeOK, ServerTypeOK
<1>2. \A s \in Recoverer \ {r} : recovery'[s] = recovery[s]
  <2>1. PICK w : recovery' = [recovery EXCEPT ![r] = w]
    BY DEF ProbeTxn, RecoverTxn, ProbeIntent, StartRecovery
  <2> QED
    BY <1>1, <2>1, SMT, Z3
<1>3. CASE ProbeTxn(r) \/ \E k \in Key : ProbeIntent(r, k)
  <2>1. /\ recovery[r].pc = "probe" /\ recovery'[r].pc = "probe"
        /\ recovery'[r].epoch = recovery[r].epoch /\ recovery'[r].ts = recovery[r].ts
    <3>1. CASE ProbeTxn(r)
      BY <1>1, <3>1, SMT, Z3 DEF ProbeTxn, Recovery
    <3>2. ASSUME NEW k \in Key, ProbeIntent(r, k)
          PROVE  /\ recovery[r].pc = "probe" /\ recovery'[r].pc = "probe"
                 /\ recovery'[r].epoch = recovery[r].epoch /\ recovery'[r].ts = recovery[r].ts
      <4>1. PICK todo, missed :
              recovery' = [recovery EXCEPT ![r] = [recovery[r] EXCEPT !.todo = todo, !.missed = missed]]
        BY <3>2 DEF ProbeIntent
      <4>2. recovery[r].pc = "probe" /\ recovery[r] \in Recovery
        BY <1>1, <3>2 DEF ProbeIntent
      <4> QED
        BY <1>1, <4>1, <4>2, SMT, Z3 DEF Recovery
    <3> QED
      BY <1>3, <3>1, <3>2
  <2> QED
    BY <1>2, <2>1 DEF Attempts
<1>4. CASE RecoverTxn(r)
  <2>1. recovery'[r].pc # "probe"
    BY <1>1, <1>4, SMT, Z3 DEF RecoverTxn, Idle
  <2> QED
    BY <1>2, <2>1 DEF Attempts
<1>5. ASSUME NEW m \in seen, NEW type \in {"abort", "timestamp"}, NEW to \in TS,
             StartRecovery(r, m, type, to)
      PROVE  Attempts
  <2>1. UNCHANGED record /\ recovery'[r].epoch = record.epoch /\ recovery'[r].ts = record.ts
    BY <1>1, <1>5, SMT, Z3 DEF StartRecovery, Idle
  <2>2. record.st = "STAGING"
    <3>1. SynthesizeTxnFromMeta(m).st = "STAGING"
      BY <1>5, SMT, Z3 DEF StartRecovery, PushIndeterminate, Pushee
    <3> QED
      BY <3>1, SMT, Z3 DEF SynthesizeTxnFromMeta, IInv, TypeOK, ServerTypeOK, NoRecord
  <2> QED
    BY <1>2, <2>1, <2>2 DEF Attempts
<1> QED
  BY <1>3, <1>4, <1>5

LEMMA NextForward ==
  ASSUME IInv, [Next]_vars
  PROVE  Forward /\ Attempts
<1>1. TypeOK /\ ServerTypeOK /\ PushInv
  BY DEF IInv, TypeOK
<1>2. UNCHANGED <<record, tombstone>> => Forward
  BY SMT, Z3 DEF Forward
<1>3. UNCHANGED recovery => Attempts
  BY DEF Attempts
<1>4. CASE UNCHANGED vars \/ CoordOnly
  <2>1. UNCHANGED <<record, tombstone, recovery>>
    BY <1>1, <1>4, CoordOnlyKeeps DEF vars, server
  <2> QED
    BY <1>2, <1>3, <2>1
<1>5. CASE \E k \in Key : Write(k) \/ SendPut(k) \/ SendQuery(k)
  <2>1. UNCHANGED <<record, tombstone, recovery>>
    BY <1>5 DEF Write, SendPut, SendQuery, EvalPut
  <2> QED
    BY <1>2, <1>3, <2>1
<1>6. CASE SendEnd \/ \E q \in net : Deliver(q)
  <2>1. CASE \E q \in net : q.type = "put" /\ EvalPut(q)
    <3>1. UNCHANGED <<record, tombstone, recovery>>
      BY <2>1 DEF EvalPut
    <3> QED
      BY <1>2, <1>3, <3>1
  <2>2. CASE \E q \in EndReq : EndTxn(q)
    BY <1>1, <1>3, <2>2, EndForward
  <2> QED
    BY <1>6, <2>1, <2>2, RequestTypes DEF SendEnd, Deliver, IInv, TypeOK, PutReq
<1>7. CASE \E m \in seen, type \in {"abort", "timestamp"}, to \in TS : PushTxn(m, type, to)
  BY <1>3, <1>7, PushForward
<1>8. CASE HeartbeatTxn(co.epoch, co.wts)
  <2>1. record.st = "none" /\ ~tombstone /\ UNCHANGED <<tombstone, recovery>>
    BY <1>8 DEF HeartbeatTxn
  <2> QED
    BY <1>3, <2>1 DEF Forward
<1>9. CASE \E r \in Recoverer : RecoverTxn(r)
  <2>1. Attempts
    BY <1>9, AttemptsNext
  <2>2. UNCHANGED <<record, tombstone>> \/ (record'.st \in {"ABORTED", "COMMITTED"} /\ tombstone')
    BY <1>1, <1>9, RecoverTxnKeeps
  <2> QED
    BY <1>2, <2>1, <2>2 DEF Forward
<1>10. CASE GCTxnRecord \/ RecordLeaseChange \/ \E k \in Key, o \in outcomes : ResolveIntent(k, o)
  <2>1. /\ UNCHANGED recovery /\ (tombstone => tombstone')
        /\ UNCHANGED record \/ (record'.st = "none" /\ tombstone')
    BY <1>1, <1>10, NoRecordFacts DEF GCTxnRecord, RecordLeaseChange, ResolveIntent, PushInv
  <2> QED
    BY <1>3, <2>1 DEF Forward
<1>11. CASE \/ \E k \in Key, ts \in TS : BumpTSCache(k, ts) \/ ForeignCommit(k, ts)
            \/ \E r \in Recoverer : ProbeTxn(r)
            \/ \E r \in Recoverer, k \in Key : ProbeIntent(r, k)
            \/ \E r \in Recoverer, m \in seen, type \in {"abort", "timestamp"}, to \in TS :
                 StartRecovery(r, m, type, to)
  <2>1. Forward
    BY <1>1, <1>2, <1>11, AsideKeeps DEF Aside
  <2>2. Attempts
    BY <1>3, <1>11, AttemptsNext DEF BumpTSCache, ForeignCommit
  <2> QED
    BY <2>1, <2>2
<1> QED
  BY <1>1, <1>4, <1>5, <1>6, <1>7, <1>8, <1>9, <1>10, <1>11, NextCases

LEMMA ProbesAreFollowed ==
  ASSUME SentOnce
  PROVE  Spec => []ProbeInv
<1>1. Init => ProbeInv
  <2>1. ASSUME Init PROVE \A r \in Recoverer : recovery[r].pc # "probe"
    BY <2>1, SMT, Z3 DEF Init, ServerInit, Idle
  <2> QED
    BY <2>1 DEF ProbeInv
<1>2. IInv /\ IInv' /\ ProbeInv /\ [Next]_vars => ProbeInv'
  BY NextForward, FollowedNext
<1> QED
  BY <1>1, <1>2, Invariance, PTL DEF Spec

\* What RecoverTxn finds, once its probe has seen nothing change, is never one of the
\* states that it calls programming errors, but for the two that the property names.
THEOREM RecoveryIsNeverConfused ==
  ASSUME SentOnce
  PROVE  Spec => []RecoveryNotConfused
<1>1. ASSUME IInv, ProbeInv PROVE RecoveryNotConfused
  <2> SUFFICES ASSUME NEW r \in Recoverer, NEW v, v = recovery[r], Probed(v)
               PROVE  \/ record.st = "none" /\ tombstone
                      \/ /\ record.st = "STAGING"
                         /\ (record.epoch = v.epoch /\ record.ts = v.ts) \/ v.missed
                      \/ /\ record.st = "COMMITTED" /\ record.epoch = v.epoch /\ record.ts = v.ts
                         /\ v.missed => \E k \in Key : mine[k] # NoIntent
                      \/ record.st \in {"PENDING", "COMMITTED"} /\ v.missed /\ MovedPast(v)
                      \/ record.st = "ABORTED" /\ (v.missed \/ co.told = "ambiguous")
    BY DEF RecoveryNotConfused
  <2>1. Probing(v) /\ Followed(v) /\ v.todo = {} /\ record.st \in Status
    BY <1>1 DEF IInv, RecoveryInv, ProbeInv, Probed, TypeOK, ServerTypeOK, Record
  <2>2. CASE ~v.missed
    <3>1. CASE Committed /\ Current(co, v.epoch, v.ts)
      BY <1>1, <2>2, <3>1 DEF IInv, CommittedInv, Current
    <3>2. CASE co.told = "ambiguous" /\ NeverCommits
      BY <2>1, <3>2 DEF NeverCommits, NotFinal, Committed, Status
    <3> QED
      BY <2>1, <2>2, <3>1, <3>2 DEF Probing, Informed
  <2>3. CASE v.missed /\ record.st = "COMMITTED"
    <3>1. /\ record.epoch = co.epoch /\ record.ts = co.hwts /\ co.keys \subseteq Key
          /\ \A k \in co.keys : mine[k] # NoIntent \/ Found(k, co.epoch, co.hwts)
      BY <1>1, <2>3, Clocks DEF IInv, CommittedInv, Committed
    <3>2. CASE Superseded(co, v.epoch, v.ts)
      BY <2>3, <3>1, <3>2 DEF Superseded, MovedPast
    <3>3. CASE Current(co, v.epoch, v.ts) /\ DeadBatch
      <4>1. \E k \in co.keys : mine[k] # NoIntent
        BY <3>1, <3>3 DEF DeadBatch, Alive, Possible, Found
      <4> QED
        BY <2>3, <3>1, <3>3, <4>1 DEF Current
    <3> QED
      BY <2>1, <2>3, <3>2, <3>3 DEF Probing
  <2> QED
    BY <2>1, <2>2, <2>3 DEF Followed, Status
<1> QED
  BY <1>1, Invariance, ProbesAreFollowed, PTL

-----------------------------------------------------------------------------
(***************************************************************************)
(* What no step takes back.                                                *)
(***************************************************************************)

Aborted == record.st = "ABORTED" \/ \E o \in outcomes : o.st = "ABORTED"

\* An ABORTED record is told, or has locks to resolve before it may be collected.
AbortInv ==
  record.st = "ABORTED" =>
    (\E o \in outcomes : o.st = "ABORTED") \/ (cleaned = {} /\ record.locks # {})

ImplicitStays ==
  \/ ImplicitlyCommitted' /\ record'.epoch = record.epoch /\ record'.ts = record.ts
  \/ record'.st = "COMMITTED" /\ record'.epoch = record.epoch /\ record'.ts = record.ts
  \/ RolledBack /\ ~Committed'

Steady ==
  /\ ImplicitlyCommitted => ImplicitStays
  /\ Committed => Committed'
  /\ ~NotFinal => ~NotFinal' /\ (Committed' => Committed)
  /\ AbortInv => AbortInv' /\ (Aborted => Aborted')
  /\ mine' = mine \/ \E k \in Key, o \in outcomes : Installed(k, o)
  /\ \/ co'.told = co.told
     \/ co.told = "none" /\ UNCHANGED <<record, intent, mine, outcomes>>

LEMMA QuietSteady ==
  ASSUME UNCHANGED <<record, intent, mine, outcomes, cleaned>>, tombstone => tombstone',
         co'.told = co.told \/ co.told = "none"
  PROVE  Steady
<1>1. ImplicitlyCommitted => ImplicitStays
  BY DEF ImplicitlyCommitted, ImplicitStays, Found
<1>2. Committed' = Committed /\ (~NotFinal => ~NotFinal')
  BY DEF Committed, NotFinal
<1>3. AbortInv => AbortInv' /\ (Aborted => Aborted')
  BY DEF AbortInv, Aborted
<1> QED
  BY <1>1, <1>2, <1>3 DEF Steady

LEMMA PutSteady ==
  ASSUME UNCHANGED <<record, tombstone, mine, outcomes, cleaned>>, ~ImplicitlyCommitted,
         co'.told = co.told
  PROVE  Steady
<1>1. Committed' = Committed /\ NotFinal' = NotFinal
  BY DEF Committed, NotFinal
<1>2. AbortInv => AbortInv' /\ (Aborted => Aborted')
  BY DEF AbortInv, Aborted
<1> QED
  BY <1>1, <1>2 DEF Steady

LEMMA EndSteady ==
  ASSUME IInv, NEW q \in EndReq, EndTxn(q), co'.told = co.told,
         q.writes = {} \/ ~q.commit => q.locks # {},
         ImplicitlyCommitted =>
           \/ q.commit /\ q.writes = {} /\ q.epoch = co.epoch /\ q.wts = co.hwts
           \/ ~q.commit /\ co.told = "ambiguous" /\ q \in net \ net'
  PROVE  Steady
<1>1. /\ ServerTypeOK /\ q.epoch \in Nat /\ q.wts \in Nat
      /\ co.epoch \in Nat /\ co.hwts \in Nat
  BY Clocks DEF IInv, TypeOK, EndReq
<1>2. /\ UNCHANGED <<intent, mine, cleaned>>
      /\ Stages(q) \/ Commits(q) \/ Aborts(q) \/ Refuses(q)
  BY <1>1, EndTxnFacts
<1>3. CASE Stages(q)
  <2>1. NotFinal /\ record'.st = "STAGING" /\ outcomes' = outcomes /\ record.st # "COMMITTED"
        /\ q.writes # {} /\ q.commit
    BY <1>3 DEF Stages, MayCommit, NotFinal
  <2>2. ~ImplicitlyCommitted /\ ~Committed
    BY <2>1 DEF IInv, FinalInv
  <2>3. ~Aborted /\ AbortInv'
    BY <2>1 DEF Aborted, NotFinal, IInv, FinalInv, AbortInv
  <2> QED
    BY <1>2, <2>1, <2>2, <2>3 DEF Steady
<1>4. CASE Commits(q)
  <2>1. NotFinal /\ record.epoch <= q.epoch /\ record'.st = "COMMITTED" /\ q.commit
        /\ record'.epoch = MergedEpoch(q) /\ record'.ts = MergedTS(q)
    <3>1. NotFinal /\ record.epoch <= q.epoch /\ q.commit
      BY <1>4 DEF Commits, MayCommit
    <3>2. PICK e, ts : e = MergedEpoch(q) /\ ts = MergedTS(q)
      OBVIOUS
    <3>3. record' = [st |-> "COMMITTED", epoch |-> e, ts |-> ts, writes |-> {}, locks |-> q.locks]
      BY <1>4, <3>2 DEF Commits, updateFinalizedTxn
    <3> QED
      BY <3>1, <3>2, <3>3
  <2>2. Committed'
    BY <2>1 DEF Committed
  <2>3. ~Aborted /\ AbortInv'
    BY <2>1 DEF Aborted, NotFinal, IInv, FinalInv, AbortInv
  <2>4. ImplicitlyCommitted => ImplicitStays
    <3> SUFFICES ASSUME ImplicitlyCommitted PROVE ImplicitStays
      OBVIOUS
    <3>1. record.st = "STAGING" /\ record.epoch = co.epoch /\ record.ts = co.hwts
      BY ImplicitCommit DEF ImplicitlyCommitted
    <3>2. MergedEpoch(q) = record.epoch /\ MergedTS(q) = record.ts
      BY <1>1, <2>1, <3>1, MergedFacts
    <3> QED
      BY <2>1, <3>2 DEF ImplicitStays
  <2> QED
    BY <1>2, <2>1, <2>2, <2>3, <2>4 DEF Steady
<1>5. CASE Aborts(q)
  <2>1. /\ ~q.commit /\ record.st # "COMMITTED" /\ record'.st = "ABORTED" /\ outcomes \subseteq outcomes'
        /\ \A o \in outcomes' : o \in outcomes \/ o.st = "ABORTED"
        /\ AbortedReply \in outcomes'
    <3>1. AbortedReply.st = "ABORTED"
      BY DEF AbortedReply
    <3>2. record'.st = "ABORTED"
      BY <1>5 DEF Aborts, updateFinalizedTxn
    <3> QED
      BY <1>5, <3>1, <3>2 DEF Aborts
  <2>2. Committed' = Committed /\ ~NotFinal'
    BY <1>2, <2>1 DEF Committed, NotFinal
  <2>3. AbortInv' /\ Aborted'
    BY <2>1 DEF AbortInv, Aborted, AbortedReply
  <2>4. ImplicitlyCommitted => ImplicitStays
    <3> SUFFICES ASSUME ImplicitlyCommitted PROVE RolledBack /\ ~Committed'
      BY DEF ImplicitStays
    <3>1. q.type = "end"
      BY DEF EndReq
    <3> QED
      BY <2>1, <2>2, <3>1, ImplicitCommit DEF RolledBack
  <2> QED
    BY <1>2, <2>1, <2>2, <2>3, <2>4 DEF Steady
<1>6. CASE Refuses(q)
  <2>1. /\ UNCHANGED <<record, tombstone>> /\ outcomes \subseteq outcomes'
        /\ \A o \in outcomes' : o \in outcomes \/ o.st = "ABORTED"
    BY <1>6, SMT, Z3 DEF Refuses, AbortedReply
  <2>2. Committed' = Committed /\ NotFinal' = NotFinal
    BY <1>2, <2>1 DEF Committed, NotFinal
  <2>3. AbortInv => AbortInv' /\ (Aborted => Aborted')
    BY <1>2, <2>1 DEF AbortInv, Aborted
  <2>4. ImplicitlyCommitted => ImplicitStays
    BY <1>2, <2>1 DEF ImplicitlyCommitted, ImplicitStays, Found
  <2> QED
    BY <1>2, <2>2, <2>3, <2>4 DEF Steady
<1> QED
  BY <1>2, <1>3, <1>4, <1>5, <1>6

LEMMA PushSteady ==
  ASSUME IInv, UNCHANGED co, NEW m \in seen, NEW type \in {"abort", "timestamp"}, NEW to \in TS,
         PushTxn(m, type, to)
  PROVE  Steady
<1>1. m \in Written /\ to \in Nat /\ ServerTypeOK /\ (Finalized(record.st) => tombstone)
  BY MaxTSAssumption, SMTT(30), Z3 DEF IInv, TypeOK, ServerTypeOK, PushInv, TS
<1>2. /\ UNCHANGED <<intent, mine, cleaned>>
      /\ PushAnswers(m) \/ PushAborts(m) \/ PushMoves(m)
  BY <1>1, PushTxnFacts
<1>3. CASE PushAnswers(m)
  <2>1. PICK o \in Reply :
          /\ outcomes' = outcomes \cup {o}
          /\ \/ o.st = record.st \/ o.st = "PENDING"
             \/ (record.st = "ABORTED" \/ (record.st = "none" /\ tombstone)) /\ o.st = "ABORTED"
    BY <1>3, SMT, Z3 DEF PushAnswers, AbortedReply
  <2>2. UNCHANGED <<record, tombstone>>
    BY <1>3 DEF PushAnswers
  <2>3. ImplicitlyCommitted => ImplicitStays
    BY <1>2, <2>2 DEF ImplicitlyCommitted, ImplicitStays, Found
  <2>4. Committed' = Committed /\ NotFinal' = NotFinal
    BY <1>2, <2>1, <2>2 DEF Committed, NotFinal
  <2>5. AbortInv => AbortInv' /\ (Aborted => Aborted')
    BY <1>2, <2>1, <2>2 DEF AbortInv, Aborted
  <2> QED
    BY <1>2, <2>3, <2>4, <2>5 DEF Steady
<1>4. CASE PushAborts(m) \/ PushMoves(m)
  <2>1. NotFinal /\ (record.st = "STAGING" => PusherKnowsBetter(record, m))
    BY <1>4 DEF PushAborts, PushMoves, MayPush, NotFinal
  <2>2. ~ImplicitlyCommitted
    BY <2>1, BetterPusherSeesDead, ImplicitCommit DEF ImplicitlyCommitted
  <2>3. ~Committed /\ ~Aborted
    BY <2>1 DEF IInv, FinalInv, NotFinal, Aborted
  <2>4. AbortInv'
    <3>1. CASE PushAborts(m)
      <4>1. AbortedReply \in outcomes' /\ AbortedReply.st = "ABORTED"
        BY <3>1 DEF PushAborts, AbortedReply
      <4> QED
        BY <4>1 DEF AbortInv
    <3>2. CASE PushMoves(m)
      BY <3>2 DEF PushMoves, AbortInv
    <3> QED
      BY <1>4, <3>1, <3>2
  <2> QED
    BY <1>2, <2>1, <2>2, <2>3, <2>4 DEF Steady
<1> QED
  BY <1>2, <1>3, <1>4

LEMMA RecoverSteady ==
  ASSUME IInv, UNCHANGED co, NEW r \in Recoverer, RecoverTxn(r)
  PROVE  Steady
<1>1. PICK v : v = recovery[r]
  OBVIOUS
<1>2. /\ UNCHANGED <<intent, mine, outcomes, cleaned>> /\ Probed(v)
      /\ \/ UNCHANGED <<record, tombstone>>
         \/ /\ record.st = "STAGING" /\ CanRecover(v)
            /\ record'.st = IF v.missed THEN "ABORTED" ELSE "COMMITTED"
            /\ record'.epoch = record.epoch /\ record'.ts = record.ts
            /\ record'.locks = record.locks \cup record.writes /\ tombstone'
  BY <1>1, RecoverTxnKeeps DEF IInv, TypeOK
<1>3. CASE UNCHANGED <<record, tombstone>>
  BY <1>2, <1>3, QuietSteady
<1>4. CASE /\ record.st = "STAGING" /\ CanRecover(v)
           /\ record'.st = IF v.missed THEN "ABORTED" ELSE "COMMITTED"
           /\ record'.epoch = record.epoch /\ record'.ts = record.ts
           /\ record'.locks = record.locks \cup record.writes /\ tombstone'
  <2>1. NotFinal /\ ~Committed /\ ~Aborted /\ cleaned = {}
    BY <1>4 DEF NotFinal, IInv, FinalInv, Aborted, Finalized
  <2>2. record.writes # {}
    BY <1>4 DEF IInv, StagingInv, Dead, Current, CoInv
  <2>3. AbortInv'
    BY <1>2, <1>4, <2>1, <2>2 DEF AbortInv
  <2>4. ImplicitlyCommitted => ImplicitStays
    <3> SUFFICES ASSUME ImplicitlyCommitted, v.missed PROVE FALSE
      BY <1>4 DEF ImplicitStays
    <3>1. record.epoch = co.epoch /\ record.ts = co.hwts /\ co.par /\ ~DeadBatch
      BY ImplicitCommit
    <3>2. v.epoch >= co.epoch /\ Probing(v) /\ v.epoch \in Nat
      BY <1>1, <1>2, <1>4, <3>1, Fields DEF CanRecover, IInv, RecoveryInv, Probed
    <3>3. ~Superseded(co, v.epoch, v.ts)
      BY <3>1, <3>2, Clocks, SMTT(30), Z3 DEF IInv, Superseded
    <3> QED
      BY <3>1, <3>2, <3>3 DEF Probing
  <2> QED
    BY <1>2, <2>1, <2>3, <2>4 DEF Steady
<1> QED
  BY <1>2, <1>3, <1>4

LEMMA ResolveSteady ==
  ASSUME IInv, UNCHANGED co, NEW k \in Key, NEW o \in outcomes, ResolveIntent(k, o)
  PROVE  Steady
<1>1. /\ UNCHANGED <<record, tombstone, outcomes>>
      /\ \A j \in Key \ {k} : intent'[j] = intent[j]
      /\ Removed(k, o) \/ Installed(k, o) \/ Moved(k, o)
      /\ cleaned' = IF Finalized(record.st) /\ o = Outcome(record) THEN cleaned \cup {k} ELSE cleaned
  BY ResolveIntentKeeps DEF IInv, TypeOK
<1>2. mine' = mine \/ Installed(k, o)
  BY <1>1 DEF Removed, Moved
<1>3. /\ Committed => Committed'
      /\ NotFinal' = NotFinal
      /\ Committed' => Committed
  <2>1. mine' # mine => \E p \in outcomes : p.st = "COMMITTED"
    BY <1>2 DEF Installed
  <2>2. CASE mine' = mine
    BY <1>1, <2>2 DEF Committed, NotFinal
  <2>3. CASE \E p \in outcomes : p.st = "COMMITTED"
    BY <1>1, <2>3 DEF Committed, NotFinal
  <2> QED
    BY <2>1, <2>2, <2>3
<1>4. AbortInv => AbortInv' /\ (Aborted => Aborted')
  <2>1. record.st = "ABORTED" /\ o = Outcome(record) => o.st = "ABORTED"
    BY SMT, Z3 DEF Outcome
  <2> QED
    BY <1>1, <2>1 DEF AbortInv, Aborted
<1>5. ImplicitlyCommitted => ImplicitStays
  <2> SUFFICES ASSUME ImplicitlyCommitted, NEW j \in record.writes
               PROVE  Found(j, record.epoch, record.ts)'
    BY <1>1 DEF ImplicitlyCommitted, ImplicitStays
  <2>1. /\ record.epoch = co.epoch /\ ~Committed /\ NotFinal /\ record.st = "STAGING"
        /\ Found(j, record.epoch, record.ts)
    BY ImplicitCommit DEF ImplicitlyCommitted
  <2>2. /\ j \in Key /\ record.epoch \in Nat /\ record.ts \in Nat /\ o.epoch \in Nat /\ o.ts \in Nat
        /\ intent[j].ts \in Nat
    BY Fields DEF IInv
  <2>3. o.st # "COMMITTED" /\ o.st # "ABORTED" /\ o.epoch <= record.epoch /\ o.ts <= record.ts
    BY <2>1 DEF IInv, FinalInv, Committed, EpochInv, PushInv
  <2>4. CASE j = k
    <3>1. intent[k] # NoIntent /\ intent[k].epoch = record.epoch
      BY <2>1, <2>2, <2>4, NoIntentFacts, SMTT(30), Z3 DEF Found
    <3>2. Moved(k, o)
      BY <1>1, <2>2, <2>3, <3>1, SMTT(30), Z3 DEF Removed, Installed
    <3> QED
      BY <1>1, <2>1, <2>2, <2>3, <2>4, <3>2 DEF Moved, Found
  <2>5. CASE j # k
    BY <1>1, <2>1, <2>2, <2>5 DEF Found
  <2> QED
    BY <2>4, <2>5
<1> QED
  BY <1>2, <1>3, <1>4, <1>5 DEF Steady

LEMMA GCSteady ==
  ASSUME IInv, UNCHANGED co, GCTxnRecord
  PROVE  Steady
<1>1. /\ Finalized(record.st) /\ record.locks \subseteq cleaned /\ record' = NoRecord
      /\ UNCHANGED <<tombstone, intent, mine, outcomes>> /\ tombstone
  BY DEF GCTxnRecord, IInv, PushInv
<1>2. ~ImplicitlyCommitted /\ ~NotFinal'
  BY <1>1, NoRecordFacts DEF ImplicitlyCommitted, Finalized, NotFinal
<1>3. Committed' => Committed
  BY <1>1, NoRecordFacts DEF Committed
<1>4. Committed => Committed'
  <2>1. record.st = "COMMITTED" => \E o \in outcomes : o.st = "COMMITTED"
    BY <1>1 DEF IInv, CommittedInv, Committed
  <2> QED
    BY <1>1, <2>1 DEF Committed
<1>5. AbortInv => AbortInv' /\ (Aborted => Aborted')
  BY <1>1, NoRecordFacts DEF AbortInv, Aborted
<1> QED
  BY <1>1, <1>2, <1>3, <1>4, <1>5 DEF Steady

\* What the client is told is so: of a commit, and of an error after which it may run
\* the transaction again.
LEMMA ToldIsTrue ==
  ASSUME IInv
  PROVE  /\ co.told = "committed" => ImplicitlyCommitted \/ Committed
         /\ co.told \in Abstract!Failed => ~ImplicitlyCommitted /\ ~Committed
         /\ co.told # "unexpected"
<1>1. ASSUME co.told = "committed", ~Committed PROVE ImplicitlyCommitted
  <2>1. /\ co.par /\ record.st = "STAGING" /\ record.epoch = co.epoch
        /\ \A k \in co.keys : Found(k, co.epoch, co.hwts)
    BY <1>1 DEF IInv, AckInv
  <2>2. record.ts = co.hwts /\ record.writes = co.keys
    BY <2>1, Clocks, SMTT(30), Z3 DEF IInv, StagingInv, Superseded, Current
  <2> QED
    BY <2>1, <2>2 DEF ImplicitlyCommitted
<1>2. ASSUME co.told \in Abstract!Failed PROVE ~ImplicitlyCommitted /\ ~Committed
  <2>1. /\ co.told = "aborted" => ~NotFinal /\ ~Committed
        /\ co.told # "aborted" => Unevaluated
    BY <1>2 DEF Abstract!Failed, IInv, CoInv, NoticeInv, Unevaluated
  <2>2. ~Committed
    BY <2>1 DEF IInv, CommittedInv
  <2>3. ~ImplicitlyCommitted
    BY <2>1, ImplicitCommit
  <2> QED
    BY <2>2, <2>3
<1>3. co.told # "unexpected"
  BY DEF IInv, CoInv
<1> QED
  BY <1>1, <1>2, <1>3

LEMMA CoordinatorSteady ==
  ASSUME IInv, CoordOnly
  PROVE  Steady
<1>1. UNCHANGED server
  BY CoordOnlyKeeps DEF IInv
<1>2. co.pc # "done"
  BY DEF CoordOnly, WriteFailed, WriteLost, ClientRollback, StartCommit, SendEndTxn, Lose,
         DetectMissing, Acknowledge, Refresh, Restart, Fail, Finished
<1>3. co.told = "none"
  BY <1>2 DEF IInv, CoInv
<1>4. UNCHANGED <<record, tombstone, intent, mine, outcomes, cleaned>>
  BY <1>1 DEF server
<1> QED
  BY <1>3, <1>4, QuietSteady

LEMMA RequestSteady ==
  ASSUME IInv, NEW k \in Key, Write(k) \/ SendPut(k) \/ SendQuery(k)
  PROVE  Steady
<1>1. co \in Coord /\ ServerTypeOK
  BY DEF IInv, TypeOK
<1>2. CASE Write(k)
  <2>1. PICK q : q = PutRequest(k, co.rts, co.wts)
    OBVIOUS
  <2>2. PICK w, t : w = Max2(co.wts, PutReply(q)) /\ t = PutReplyRTS(q)
    OBVIOUS
  <2>3. PICK c : c = [co EXCEPT !.pc = "run", !.keys = @ \cup {k}, !.piped = @ \cup {k},
                                !.batch = {}, !.wts = w, !.rts = t]
    OBVIOUS
  <2>4. EvalPut(q) /\ (co' = [c EXCEPT !.rts = w] \/ co' = c \/ co' = NextEpoch(c))
    BY <1>2, <2>1, <2>2, <2>3 DEF Write
  <2>5. "told" \in DOMAIN c /\ c.told = co.told
    BY <1>1, <2>3 DEF Coord
  <2>6. co'.told = co.told
    BY <2>4, <2>5 DEF NextEpoch
  <2>7. q \in PutReq
    BY <2>1, RequestTypes, Clocks DEF IInv
  <2>8. co.pc = "run"
    BY <1>2 DEF Write, IInv, CoInv
  <2>9. ~ImplicitlyCommitted
    BY <2>8, ImplicitCommit DEF Current
  <2> QED
    BY <1>1, <2>4, <2>6, <2>7, <2>9, EvalPutFacts, PutSteady
<1>3. CASE SendPut(k)
  <2>1. PICK q : q = PutRequest(k, co.hrts, co.hwts)
    OBVIOUS
  <2>2. PICK w, t, e : w = Max2(co.wts, PutReply(q)) /\ t = PutReplyRTS(q)
                       /\ e = MergeErr(co.err, ErrOf(<<"put", k>>, IF PutRefused(q) THEN "error" ELSE "none"))
    OBVIOUS
  <2>3. /\ EvalPut(q) /\ <<"put", k>> \in co.pend
        /\ co' = [co EXCEPT !.pend = @ \ {<<"put", k>>}, !.wts = w, !.rts = t, !.err = e]
    BY <1>3, <2>1, <2>2 DEF SendPut
  <2>4. co'.told = co.told
    BY <1>1, <2>3 DEF Coord
  <2>5. q \in OnWay /\ q \in PutReq
    BY <2>1, <2>3, OnWayTypes DEF IInv
  <2>6. ~ImplicitlyCommitted
    BY <2>5, ImplicitCommit
  <2> QED
    BY <1>1, <2>3, <2>4, <2>5, <2>6, EvalPutFacts, PutSteady
<1>4. CASE SendQuery(k)
  <2>1. UNCHANGED <<record, tombstone, intent, mine, outcomes, cleaned>>
    BY <1>4 DEF SendQuery
  <2>2. co.told = "none"
    BY <1>4 DEF SendQuery, IInv, CoInv
  <2> QED
    BY <2>1, <2>2, QuietSteady
<1> QED
  BY <1>2, <1>3, <1>4

LEMMA EndRequestSteady ==
  ASSUME IInv, SendEnd \/ \E q \in net : Deliver(q)
  PROVE  Steady
<1>1. co.ended => CommitRequest.commit /\ (CommitRequest.writes = {} => CommitRequest.locks # {})
  BY DEF CommitRequest, InFlight, IInv, CoInv
<1>2. CASE SendEnd
  <2>1. EndTxn(CommitRequest) /\ End \in co.pend /\ co.pc = "commit"
    BY <1>2 DEF SendEnd
  <2>2. CommitRequest \in EndReq
    BY RequestTypes DEF IInv
  <2>3. co'.told = co.told
    BY <1>2 DEF SendEnd, IInv, TypeOK, Coord
  <2>4. ~ImplicitlyCommitted
    BY <2>1, ImplicitCommit DEF Unevaluated
  <2>5. co.ended
    BY <2>1 DEF IInv, CoInv
  <2> QED
    BY <1>1, <2>1, <2>2, <2>3, <2>4, <2>5, EndSteady
<1>3. ASSUME NEW q \in net, Deliver(q) PROVE Steady
  <2>1. /\ UNCHANGED co /\ net' = net \ {q}
        /\ (q.type # "put" => EndTxn(q)) /\ (q.type = "put" => EvalPut(q))
    BY <1>3 DEF Deliver
  <2>2. CASE q.type = "put"
    <3>1. q \in OnWay /\ q \in PutReq /\ ServerTypeOK
      BY <2>2, OnWayTypes DEF IInv, TypeOK
    <3>2. ~ImplicitlyCommitted
      BY <3>1, ImplicitCommit
    <3> QED
      BY <2>1, <2>2, <3>1, <3>2, EvalPutFacts, PutSteady
  <2>3. CASE q.type = "end"
    <3>1. q \in EndReq /\ EndTxn(q)
      BY <2>1, <2>3 DEF IInv, TypeOK, PutReq
    <3>2. CASE q = CommitRequest /\ co.ended /\ co.told # "committed" /\ q.commit
      <4>1. ~ImplicitlyCommitted
        BY <2>3, <3>2, ImplicitCommit DEF Unevaluated
      <4> QED
        BY <1>1, <2>1, <3>1, <3>2, <4>1, EndSteady
    <3>3. CASE q = ExplicitCommit /\ co.told = "committed" /\ co.par
      <4>1. co.staged = co.hwts /\ co.keys # {}
        BY <3>3 DEF IInv, CoInv
      <4>2. q.commit /\ q.writes = {} /\ q.epoch = co.epoch /\ q.wts = co.hwts /\ q.locks # {}
        BY <3>3, <4>1 DEF ExplicitCommit
      <4> QED
        BY <2>1, <3>1, <4>2, EndSteady
    <3>4. CASE ~q.commit /\ q.locks # {} /\ co.told \in Abstract!Failed \cup {"ambiguous"}
      <4>1. ImplicitlyCommitted => co.told = "ambiguous"
        BY <3>4, ToldIsTrue
      <4>2. q \in net \ net'
        BY <2>1
      <4> QED
        BY <2>1, <3>1, <3>4, <4>1, <4>2, EndSteady
    <3> QED
      BY <2>3, <3>2, <3>3, <3>4 DEF IInv, NetInv
  <2> QED
    BY <2>2, <2>3 DEF IInv, NetInv
<1> QED
  BY <1>2, <1>3

LEMMA NextSteady ==
  ASSUME IInv, [Next]_vars
  PROVE  Steady
<1>1. TypeOK /\ ServerTypeOK /\ PushInv
  BY DEF IInv, TypeOK
<1>2. CASE UNCHANGED vars
  <2>1. UNCHANGED <<record, tombstone, intent, mine, outcomes, cleaned, co>>
    BY <1>2 DEF vars
  <2> QED
    BY <2>1, QuietSteady
<1>3. CASE UNCHANGED co /\ HeartbeatTxn(co.epoch, co.wts)
  <2>1. NotFinal /\ record'.st = "PENDING" /\ record.st = "none"
        /\ UNCHANGED <<intent, mine, outcomes, cleaned>>
    BY <1>3, NoRecordFacts, SMTT(30), Z3 DEF HeartbeatTxn, NotFinal
  <2>2. ~ImplicitlyCommitted /\ ~Committed /\ ~Aborted /\ AbortInv'
    BY <2>1 DEF ImplicitlyCommitted, IInv, FinalInv, Aborted, AbortInv
  <2> QED
    BY <1>3, <2>1, <2>2 DEF Steady
<1>4. CASE UNCHANGED co /\ RecordLeaseChange
  BY <1>4, QuietSteady DEF RecordLeaseChange
<1>5. CASE /\ UNCHANGED co
           /\ \/ \E k \in Key, ts \in TS : BumpTSCache(k, ts) \/ ForeignCommit(k, ts)
              \/ \E r \in Recoverer : ProbeTxn(r)
              \/ \E r \in Recoverer, k \in Key : ProbeIntent(r, k)
              \/ \E r \in Recoverer, m \in seen, type \in {"abort", "timestamp"}, to \in TS :
                   StartRecovery(r, m, type, to)
  <2>1. Aside
    BY <1>1, <1>5, AsideKeeps
  <2> QED
    BY <1>5, <2>1, QuietSteady DEF Aside
<1> QED
  BY <1>1, <1>2, <1>3, <1>4, <1>5, NextCases, CoordinatorSteady, RequestSteady, EndRequestSteady,
     PushSteady, RecoverSteady, ResolveSteady, GCSteady

\* A value is installed by the transaction's commit, and only then: next to others
\* of the same epoch and timestamp, and when nobody was told of an abort.
LEMMA InstallFacts ==
  ASSUME IInv, NEW k \in Key, NEW o \in outcomes, Installed(k, o)
  PROVE  /\ Committed /\ mine[k] = NoIntent /\ \A p \in outcomes : p.st # "ABORTED"
         /\ mine' = [mine EXCEPT ![k] = [epoch |-> co.epoch, ts |-> co.hwts]]
         /\ \A j \in Key : mine[j] \in {NoIntent, [epoch |-> co.epoch, ts |-> co.hwts]}
<1>1. o.st = "COMMITTED" /\ intent[k] # NoIntent /\ intent[k].epoch = o.epoch
      /\ mine' = [mine EXCEPT ![k] = [epoch |-> o.epoch, ts |-> o.ts]]
  BY DEF Installed
<1>2. Committed
  BY <1>1 DEF Committed
<1>3. o.epoch = co.epoch /\ o.ts = co.hwts
  BY <1>1, <1>2 DEF IInv, CommittedInv
<1>4. k \in co.keys
  BY <1>1, <1>3 DEF IInv, EpochInv
<1>5. mine[k] = NoIntent
  BY <1>1, <1>2 DEF IInv, CommittedInv
<1>6. \A p \in outcomes : p.st # "ABORTED"
  BY <1>2, <1>4, <1>5 DEF IInv, CommittedInv
<1>7. \A j \in Key : mine[j] \in {NoIntent, [epoch |-> co.epoch, ts |-> co.hwts]}
  BY <1>2 DEF IInv, CommittedInv
<1> QED
  BY <1>1, <1>2, <1>3, <1>5, <1>6, <1>7

\* Once PushTxn or EndTxn told anybody of an abort, no write becomes a committed
\* value, whoever resolves intents and whatever was still on its way.
THEOREM AbortIsRespected ==
  ASSUME SentOnce
  PROVE  Spec => AbortRespected
<1>1. ASSUME IInv, [Next]_vars, \E o \in outcomes : o.st = "ABORTED"
      PROVE  mine' = mine
  <2>1. Steady
    BY <1>1, NextSteady
  <2> QED
    BY <1>1, <2>1, InstallFacts DEF Steady
<1>2. IInv /\ [Next]_vars => [(\E o \in outcomes : o.st = "ABORTED") => mine' = mine]_vars
  BY <1>1
<1> QED
  BY <1>2, Invariance, PTL DEF Spec, AbortRespected

\* An implicit commit stays one, or becomes explicit, whoever pushes, recovers,
\* resolves or collects; only EndTxn(commit=false) of a client that was told that the
\* commit is ambiguous aborts it.
THEOREM ImplicitCommitIsStable ==
  ASSUME SentOnce
  PROVE  Spec => ImplicitCommitStable
<1>1. ASSUME IInv, [Next]_vars, ImplicitlyCommitted
      PROVE  ImplicitStays
  BY <1>1, NextSteady DEF Steady
<1>2. IInv /\ [Next]_vars =>
        [ImplicitlyCommitted =>
           \/ /\ ImplicitlyCommitted' \/ record'.st = "COMMITTED"
              /\ record'.epoch = record.epoch /\ record'.ts = record.ts
           \/ RolledBack]_vars
  BY <1>1 DEF ImplicitStays
<1> QED
  BY <1>2, Invariance, PTL DEF Spec, ImplicitCommitStable

-----------------------------------------------------------------------------
(***************************************************************************)
(* The refinement of AtomicCommit.                                         *)
(***************************************************************************)

Decided ==
  /\ Decision \in {"open", "committed", "aborted"}
  /\ Decision = "committed" <=> ImplicitlyCommitted \/ Committed
  /\ Decision = "aborted" <=> ~ImplicitlyCommitted /\ ~Committed /\ Aborted

LEMMA Decisions == Decided
BY DEF Decided, Decision, Committed, Aborted

LEMMA DecidedNext == Decided'
BY Decisions, PTL

ToldTruth ==
  /\ co.told = "committed" => ImplicitlyCommitted \/ Committed
  /\ co.told \in Abstract!Failed => ~ImplicitlyCommitted /\ ~Committed
  /\ co.told # "unexpected"

LEMMA ToldNext == IInv' => ToldTruth'
<1>1. IInv => ToldTruth
  BY ToldIsTrue DEF ToldTruth
<1> QED
  BY <1>1, PTL

LEMMA InitRefines ==
  ASSUME SentOnce, Init
  PROVE  Abstract!Init /\ AbortInv
<1>1. /\ record = NoRecord /\ outcomes = {} /\ mine = [k \in Key |-> NoIntent] /\ co.told = "none"
  BY SMT, Z3 DEF Init, ServerInit
<1>2. ~ImplicitlyCommitted /\ ~Committed /\ ~Aborted
  BY <1>1, NoRecordFacts DEF ImplicitlyCommitted, Committed, Aborted
<1> QED
  BY <1>1, <1>2, Decisions, NoRecordFacts DEF Decided, Abstract!Init, AbortInv

LEMMA NextRefines ==
  ASSUME IInv, IInv', AbortInv, [Next]_vars
  PROVE  AbortInv' /\ [Abstract!Next]_<<Decision, mine, co.told>>
<1>1. Steady
  BY NextSteady
<1>2. AbortInv' /\ (Aborted => Aborted')
  BY <1>1 DEF Steady
<1>3. /\ Decision' \in {"open", "committed", "aborted"}
      /\ Decision' = "committed" <=> ImplicitlyCommitted' \/ Committed'
      /\ Decision' = "aborted" <=> ~ImplicitlyCommitted' /\ ~Committed' /\ Aborted'
  BY DecidedNext DEF Decided
<1>4. /\ co'.told = "committed" => ImplicitlyCommitted' \/ Committed'
      /\ co'.told \in Abstract!Failed => ~ImplicitlyCommitted' /\ ~Committed'
      /\ co'.told # "unexpected"
  BY ToldNext DEF ToldTruth
<1>5. Committed => Decision = "committed" /\ Decision' = "committed"
  BY <1>1, <1>3, Decisions DEF Steady, Decided
<1>6. Decision = "aborted" => Decision' = "aborted"
  <2> SUFFICES ASSUME Aborted, ~Committed PROVE Decision' = "aborted"
    BY Decisions DEF Decided
  <2>1. ~NotFinal
    BY DEF Aborted, NotFinal, IInv, FinalInv
  <2>2. ~NotFinal' /\ ~Committed'
    BY <1>1, <2>1 DEF Steady
  <2>3. ~ImplicitlyCommitted'
    BY <2>2 DEF ImplicitlyCommitted, NotFinal
  <2> QED
    BY <1>2, <1>3, <2>2, <2>3
<1>7. CASE mine' # mine
  <2>1. PICK k \in Key, o \in outcomes : Installed(k, o)
    BY <1>1, <1>7 DEF Steady
  <2>2. /\ Committed /\ mine[k] = NoIntent
        /\ mine' = [mine EXCEPT ![k] = [epoch |-> co.epoch, ts |-> co.hwts]]
        /\ \A j \in Key : mine[j] \in {NoIntent, [epoch |-> co.epoch, ts |-> co.hwts]}
    BY <2>1, InstallFacts
  <2>3. DOMAIN mine = Key
    BY DEF IInv, TypeOK, ServerTypeOK
  <2>4. Decision = "committed" /\ UNCHANGED <<Decision, co.told>>
    BY <1>1, <1>5, <1>7, <2>2, Decisions DEF Steady, Decided
  <2>5. Abstract!Install(k)
    BY <2>2, <2>3, <2>4 DEF Abstract!Install
  <2> QED
    BY <1>2, <2>5 DEF Abstract!Next
<1>8. CASE co'.told # co.told
  <2>1. co.told = "none" /\ UNCHANGED <<record, intent, mine, outcomes>>
    BY <1>1, <1>8 DEF Steady
  <2>2. UNCHANGED Decision
    BY <2>1 DEF Decision, ImplicitlyCommitted, Found
  <2>3. Abstract!Tell
    BY <1>3, <1>4, <2>1, <2>2 DEF Abstract!Tell
  <2> QED
    BY <1>2, <2>3 DEF Abstract!Next
<1>9. CASE mine' = mine /\ co'.told = co.told /\ Decision' # Decision
  <2>1. Decision = "open" \/ (ImplicitlyCommitted /\ RolledBack /\ ~Committed')
    <3>1. CASE ImplicitlyCommitted
      BY <1>1, <1>3, <1>9, <3>1, Decisions DEF Steady, ImplicitStays, Committed, Decided
    <3> QED
      BY <1>5, <1>6, <1>9, <3>1, Decisions DEF Decided
  <2>2. CASE Decision = "open" /\ Decision' = "committed"
    <3>1. Abstract!Commit
      BY <1>3, <1>4, <1>9, <2>2 DEF Abstract!Commit
    <3> QED
      BY <1>2, <3>1 DEF Abstract!Next
  <2>3. CASE Decision = "open" /\ Decision' = "aborted"
    <3>1. co.told # "committed"
      BY <2>3, ToldIsTrue, Decisions DEF Decided
    <3>2. Abstract!Abort
      BY <1>9, <2>3, <3>1 DEF Abstract!Abort
    <3> QED
      BY <1>2, <3>2 DEF Abstract!Next
  <2>4. CASE ImplicitlyCommitted /\ RolledBack /\ ~Committed'
    <3>1. co.told = "ambiguous" /\ record'.st = "ABORTED" /\ ~Committed
      BY <2>4, ImplicitCommit DEF RolledBack
    <3>2. Decision = "committed" /\ Decision' = "aborted"
      BY <1>3, <2>4, <3>1, Decisions DEF Decided, ImplicitlyCommitted, Aborted
    <3>3. mine = [k \in Key |-> NoIntent]
      BY <3>1 DEF Committed, IInv, TypeOK, ServerTypeOK
    <3>4. Abstract!Retract
      BY <1>9, <3>1, <3>2, <3>3 DEF Abstract!Retract
    <3> QED
      BY <1>2, <3>4 DEF Abstract!Next
  <2> QED
    BY <1>3, <1>9, <2>1, <2>2, <2>3, <2>4
<1> QED
  BY <1>2, <1>7, <1>8, <1>9

\* Parallel commits, recoveries, pushes, restarts and intent resolution together
\* implement one atomic decision, values that become visible only after it, and a
\* client that is never misled.  The decision is never taken back, but by the rollback
\* of a client that was told nothing certain, before any value is visible.
THEOREM ParallelCommitRefines ==
  ASSUME SentOnce
  PROVE  Spec => ImplementsAtomicCommit
<1>1. Init => Abstract!Init /\ AbortInv
  BY InitRefines
<1>2. IInv /\ IInv' /\ AbortInv /\ [Next]_vars =>
        AbortInv' /\ [Abstract!Next]_(Abstract!vars)
  BY NextRefines DEF Abstract!vars
<1> QED
  BY <1>1, <1>2, Invariance, PTL DEF Spec, ImplementsAtomicCommit, Abstract!Spec

=============================================================================
