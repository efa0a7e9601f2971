---------------------------- MODULE FollowerReads ----------------------------
(***************************************************************************)
(* Why a follower may serve a read at a closed timestamp.  One range has   *)
(* replicas on n1, whose closed timestamps are modelled, on n2, and on any *)
(* number of followers.  The tracker of n1 (MinPropTracker) is composed    *)
(* with the commands that use it (replica_write.go), the epoch lease and   *)
(* its transfers (replica_range_lease.go, batcheval/cmd_lease*.go), node   *)
(* liveness, and the application of the Raft log.                          *)
(*                                                                         *)
(* Followers need no variables.  Each has applied some prefix of the log,  *)
(* and may stay there for as long as it likes.  n2 is a leaseholder about  *)
(* which only the outside is modelled.  Raft is a log to which commands in *)
(* flight are appended in any order or never; a second copy of a command   *)
(* is always rejected by checkForcedErr and is left out.                   *)
(***************************************************************************)
EXTENDS MinPropTracker, Sequences

CONSTANTS
  Target,        \* kv.closed_timestamp.target_duration
  Lifetime,      \* how long a liveness heartbeat lasts
  MaxLog,        \* bound on the length of the log
  MaxLeases,     \* bound on the leases proposed
  PromptLatches,   \* whether a transfer is sent as soon as its lease is made, and
                   \* waits less than Target for its latches
  PromptHeartbeat  \* whether the first heartbeat of a process precedes its
                   \* first close

ASSUME FollowerReadsConstants ==
  /\ (\E r \in RangeID : RangeID = {r}) /\ NoRange \notin Proposal /\ MaxLAI # 0
  /\ Target \in Nat \ {0} /\ Target < MaxTS /\ Lifetime \in Nat \ {0}
  /\ MaxLog \in Nat /\ MaxLeases \in Nat /\ {PromptLatches, PromptHeartbeat} \subseteq BOOLEAN

VARIABLES
  now,        \* the clock; HLC keeps the nodes' clocks causally related
  live, exp,  \* n1's liveness epoch, and when each of its epochs expires
  known,      \* the epoch n1 takes to be its own
  booted, starting, \* when n1's process started; whether it has yet to write
                    \* its first heartbeat
  log,        \* the Raft log, each entry with the state it leads to
  pos,        \* how much of the log n1 has applied
  raft,       \* commands proposed and not in the log
  cmd,        \* what each caller of n1's tracker is about
  liBase,     \* the proposal buffer's last assigned lease index
  pending,    \* n1's pendingLeaseRequest
  minLease, minProposedTS, \* minLeaseProposedTS: the last lease proposed before
                           \* it was set, and when it was set
  leases,     \* the number of leases proposed so far
  lowWater,   \* the low water mark of n1's timestamp cache
  entries     \* what followers may have stored about n1

rangeVars == <<log, raft, cmd, liBase, pending, minLease, minProposedTS,
               leases, lowWater>>
nodeVars == <<live, exp, known, booted, starting>>
allVars == <<vars, now, nodeVars, pos, rangeVars, entries>>

rangeID == CHOOSE r \in RangeID : TRUE

(* A lease; no numbers the leases in the order of their ProposedTS, which   *)
(* only matters for those of n1.                                            *)
Lease == [seq : 1 .. MaxLeases, holder : {"n1", "n2"}, epoch : 0 .. MaxEpoch,
          start : TS, no : 1 .. MaxLeases]
State == [lai : LAI, lease : Lease]
FirstState == [lai |-> 1, lease |-> [seq |-> 1, holder |-> "n1", epoch |-> 1,
                                     start |-> 0, no |-> 1]]

(* The replicated state after the first i entries. *)
After(i) == IF i = 0 THEN FirstState ELSE log[i].after
n1   == After(pos)
tail == After(Len(log))

NoLease == FirstState.lease
NoCmd == [kind |-> "none", lease |-> NoLease, ts |-> 0, req |-> 0, lai |-> 0,
          latched |-> FALSE, again |-> FALSE]
DeadCmd == [NoCmd EXCEPT !.kind = "dead"]
CmdState == [kind : {"none", "write", "transfer", "emit", "dead"}, lease : Lease,
             ts : 0 .. (MaxTS + 1), req : TS, lai : 0 .. MaxLAI,
             latched : BOOLEAN, again : BOOLEAN]
RaftCmd == [kind : {"write", "transfer", "request"}, from : Proposal \cup {NoRange},
            seq : 1 .. MaxLeases, lai : 0 .. MaxLAI, ts : 0 .. (MaxTS + 1),
            lease : Lease]

-----------------------------------------------------------------------------
(* The expiration of a heartbeat written now; no clock gets past MaxTS. *)
Expiration == IF now + Lifetime > MaxTS THEN MaxTS + 1 ELSE now + Lifetime

RangeInit ==
  /\ Init
  /\ now = Target /\ live = 1 /\ known = 1
  /\ exp = [e \in Epoch |-> IF e = 1 THEN Expiration ELSE 0]
  /\ booted = 0 /\ starting = FALSE
  /\ log = <<>> /\ pos = 0 /\ raft = {}
  /\ cmd = [p \in Proposal |-> NoCmd]
  /\ liBase = 0 /\ pending = "none"
  /\ minLease = 0 /\ minProposedTS = 0 /\ leases = 1 /\ lowWater = 0
  /\ entries = {}

Tick == now < MaxTS /\ now' = now + 1
        /\ UNCHANGED <<vars, nodeVars, pos, rangeVars, entries>>

-----------------------------------------------------------------------------
(* Node liveness.  n1 is live at a time t under the epoch e if t < exp[e].  *)

(* heartbeatInternal, by the heartbeat loop or for a lease request. *)
Heartbeat ==
  /\ exp' = [exp EXCEPT ![live] = Expiration] /\ known' = live
  /\ UNCHANGED <<vars, now, live, booted, starting, pos, rangeVars, entries>>

(* heartbeatInternal with incrementEpoch, the first of StartHeartbeat. *)
FirstHeartbeat ==
  /\ starting /\ live < MaxEpoch
  /\ live' = live + 1 /\ exp' = [exp EXCEPT ![live + 1] = Expiration]
  /\ known' = live + 1 /\ starting' = FALSE /\ expEpoch' = live + 1
  /\ UNCHANGED <<closed, closedEpoch, next, leftMLAI, rightMLAI, leftRef, rightRef,
                 leftEpoch, rightEpoch, prop, emitted, now, booted, pos,
                 rangeVars, entries>>

IncrementEpochEarly(start) ==
  /\ start < now
  /\ live' = live + 1 /\ exp' = [exp EXCEPT ![live + 1] = exp[live]]

(* IncrementEpoch by a node that found n1 expired at the time start: a CPut *)
(* on the record it saw, so n1 has not been live since.                     *)
IncrementEpoch(start) ==
  /\ exp[live] <= start
  /\ live' = live + 1 /\ exp' = [exp EXCEPT ![live + 1] = exp[live]]

-----------------------------------------------------------------------------
(* The closer of n1: AsLiveClock reads a time at which n1 is live at some   *)
(* epoch; Close is called with Target less, possibly much later.            *)
RunCloser(t, e) ==
  /\ Target <= t /\ booted <= t /\ t <= now /\ t < exp[e] /\ e <= known
  /\ PromptHeartbeat => ~starting
  /\ Close(t - Target, e)
  /\ entries' = IF emitted' = emitted THEN entries ELSE
       entries \cup {[epoch |-> e, ts |-> emitted'[e].ts, mlai |-> emitted'[e].mlai[rangeID]]}
  /\ UNCHANGED <<now, nodeVars, pos, rangeVars>>

-----------------------------------------------------------------------------
(* Commands on n1. *)
Idle(p) == cmd[p].kind = "none"

(* leaseStatus is VALID at this time. *)
ValidLease(l) == /\ l.holder = "n1" /\ l.epoch = known /\ now < exp[l.epoch]
                 /\ l.no > minLease

(* redirectOnOrAcquireLease lets a write through. *)
Admit(p) ==
  /\ Idle(p) /\ ValidLease(n1.lease) /\ pending # "transfer"
  /\ cmd' = [cmd EXCEPT ![p].kind = "write", ![p].lease = n1.lease]
  /\ UNCHANGED <<vars, now, nodeVars, log, pos, raft, liBase, pending,
                 minLease, minProposedTS, leases, lowWater, entries>>

(* When a goroutine of its own will send a transfer and give the request a  *)
(* timestamp.                                                               *)
SendTimes == {req \in TS : now <= req /\ (PromptLatches => req = now)}

TransferKeepsLease(p) ==
  /\ Idle(p) /\ n1.lease.holder = "n1" /\ pending = "none" /\ leases < MaxLeases
  /\ leases' = leases + 1 /\ pending' = "transfer"
  /\ \E req \in SendTimes :
       cmd' = [cmd EXCEPT ![p].kind = "transfer", ![p].lease = n1.lease,
                          ![p].ts = now, ![p].req = req]
  /\ UNCHANGED <<vars, now, nodeVars, log, pos, raft, liBase, minLease,
                 minProposedTS, lowWater, entries>>

(* AdminTransferLease to n2: n1 stops using its lease, and the next lease   *)
(* is fixed to start now.                                                   *)
AdminTransferLease(p) ==
  /\ Idle(p) /\ n1.lease.holder = "n1" /\ pending = "none" /\ leases < MaxLeases
  /\ minLease' = leases /\ minProposedTS' = now
  /\ leases' = leases + 1 /\ pending' = "transfer"
  /\ \E req \in SendTimes :
       cmd' = [cmd EXCEPT ![p].kind = "transfer", ![p].lease = n1.lease,
                          ![p].ts = now, ![p].req = req]
  /\ UNCHANGED <<vars, now, nodeVars, log, pos, raft, liBase, lowWater, entries>>

(* AdminTransferLease to n2 while a transfer to n2 is pending. *)
JoinTransfer ==
  /\ n1.lease.holder = "n1" /\ pending = "transfer"
  /\ minLease' = leases /\ minProposedTS' = now
  /\ UNCHANGED <<vars, now, nodeVars, log, pos, raft, cmd, liBase, pending,
                 leases, lowWater, entries>>

(* EmitMLAI, up to the end of its critical section. *)
EmitMLAI(p) ==
  /\ Idle(p) /\ n1.lease.holder = "n1"
  /\ cmd' = [cmd EXCEPT ![p].kind = "emit", ![p].lease = n1.lease,
                        ![p].lai = Max2(liBase, n1.lai)]
  /\ UNCHANGED <<vars, now, nodeVars, log, pos, raft, liBase, pending,
                 minLease, minProposedTS, leases, lowWater, entries>>

(* The concurrency manager grants the latches, which a transfer shares with *)
(* no other command (declareKeysTransferLease); the command is then tracked.  A     *)
(* command that is reproposed still has its latches.                        *)
Latched(kind) == \E q \in Proposal : cmd[q].kind = kind /\ cmd[q].latched

LatchAndTrack(p) ==
  /\ ~Idle(p)
  /\ cmd[p].kind # "emit" /\ ~cmd[p].again =>
       /\ ~Latched("transfer")
       /\ cmd[p].kind = "transfer" =>
            ~Latched("write") /\ cmd[p].req <= now
              /\ (PromptLatches => now - cmd[p].ts < Target)
  /\ Track(p)
  /\ cmd' = [cmd EXCEPT ![p].latched = (cmd[p].kind # "emit")]
  /\ UNCHANGED <<now, nodeVars, log, pos, raft, liBase, pending,
                 minLease, minProposedTS, leases, lowWater, entries>>

Evaluating(p) == cmd[p].kind \in {"write", "transfer"} /\ cmd[p].lai = 0
                 /\ prop[p].pc = "tracked"

(* The lease index propBuf.Insert assigns; the base is forwarded to the     *)
(* applied index by flushes, which run at their own pace.                   *)
LeaseIndexes == {liBase + 1, Max2(liBase, n1.lai) + 1} \cap LAI

ReproposeAnyTime(p, ts, lai) ==
  /\ Evaluating(p) /\ cmd[p].kind = "write"
  /\ IF cmd[p].again THEN ts = cmd[p].ts
     ELSE ts > lowWater /\ n1.lease.seq <= cmd[p].lease.seq /\ ts >= prop[p].minProp
  /\ lai \in LeaseIndexes /\ liBase' = lai
  /\ cmd' = [cmd EXCEPT ![p].ts = ts, ![p].lai = lai]
  /\ raft' = raft \cup {[kind |-> "write", from |-> p, seq |-> cmd[p].lease.seq,
                         lai |-> lai, ts |-> ts, lease |-> NoLease]}
  /\ UNCHANGED <<vars, now, nodeVars, log, pos, pending, minLease,
                 minProposedTS, leases, lowWater, entries>>

(* executeWriteBatch for a write: the timestamp is forwarded above the      *)
(* closed timestamp and the timestamp cache, the lease is checked, and the  *)
(* command is proposed.  tryReproposeWithNewLeaseIndex keeps the timestamp. *)
ProposeWrite(p, ts, lai) ==
  /\ Evaluating(p) /\ cmd[p].kind = "write"
  /\ IF cmd[p].again THEN ts = cmd[p].ts
     ELSE ts > lowWater /\ n1.lease.seq <= cmd[p].lease.seq
  /\ ts >= prop[p].minProp
  /\ lai \in LeaseIndexes /\ liBase' = lai
  /\ cmd' = [cmd EXCEPT ![p].ts = ts, ![p].lai = lai]
  /\ raft' = raft \cup {[kind |-> "write", from |-> p, seq |-> cmd[p].lease.seq,
                         lai |-> lai, ts |-> ts, lease |-> NoLease]}
  /\ UNCHANGED <<vars, now, nodeVars, log, pos, pending, minLease,
                 minProposedTS, leases, lowWater, entries>>

(* executeWriteBatch for a transfer, and TransferLease: the lease was made  *)
(* by AdminTransferLease, only its sequence is new.  A reproposal is held   *)
(* against the timestamp of the request, which is not the lease's start.    *)
ProposeTransfer(p, lai) ==
  /\ Evaluating(p) /\ cmd[p].kind = "transfer"
  /\ IF cmd[p].again THEN cmd[p].req >= prop[p].minProp
     ELSE n1.lease.seq <= cmd[p].lease.seq
  /\ lai \in LeaseIndexes /\ liBase' = lai
  /\ cmd' = [cmd EXCEPT ![p].lai = lai]
  /\ raft' = raft \cup {[kind |-> "transfer", from |-> p, seq |-> cmd[p].lease.seq,
        lai |-> lai, ts |-> 0, lease |-> [seq |-> cmd[p].lease.seq + 1, holder |-> "n2",
                       epoch |-> 0, start |-> cmd[p].ts, no |-> leases]]}
  /\ UNCHANGED <<vars, now, nodeVars, log, pos, pending, minLease,
                 minProposedTS, leases, lowWater, entries>>

(* The command is untracked with the epoch of the lease it was let in with. *)
Untrack(p) ==
  /\ cmd[p].lai # 0
  /\ Release(p, cmd[p].lease.epoch, rangeID, cmd[p].lai, Max2(cmd[p].ts, prop[p].minProp))
  /\ UNCHANGED <<now, nodeVars, pos, rangeVars, entries>>

(* Any error return ahead of the proposal; the latches are dropped. *)
Fail(p) ==
  /\ Evaluating(p) /\ ReleaseFailed(p)
  /\ cmd' = [cmd EXCEPT ![p] = DeadCmd]
  /\ pending' = IF cmd[p].kind = "transfer" THEN "none" ELSE pending
  /\ UNCHANGED <<now, nodeVars, log, pos, raft, liBase, minLease,
                 minProposedTS, leases, lowWater, entries>>

(* A transfer or lease request whose callers have all gone is forgotten; it *)
(* may still apply.                                                         *)
Cancel ==
  /\ pending # "none" /\ pending' = "none"
  /\ UNCHANGED <<vars, now, nodeVars, pos, log, raft, cmd, liBase, minLease,
                 minProposedTS, leases, lowWater, entries>>

RequestEquivalentLease ==
  /\ n1.lease.holder = "n1" /\ pending = "none" /\ leases < MaxLeases
  /\ now < exp[known] /\ (n1.lease.epoch < known \/ n1.lease.no <= minLease)
  /\ leases' = leases + 1 /\ pending' = "request"
  /\ raft' = raft \cup {[kind |-> "request", from |-> NoRange, seq |-> n1.lease.seq,
        lai |-> 0, ts |-> 0, lease |-> [seq |-> n1.lease.seq, holder |-> "n1",
          epoch |-> known, start |-> Max2(n1.lease.start, minProposedTS), no |-> leases + 1]]}
  /\ UNCHANGED <<vars, now, nodeVars, log, pos, cmd, liBase, minLease,
                 minProposedTS, lowWater, entries>>

(* A lease request of n1, which still holds the lease but may not use it:   *)
(* its epoch was incremented, or the lease is proscribed.  RequestLease     *)
(* keeps the start of its own lease but for minLeaseProposedTS.             *)
RequestLease ==
  /\ n1.lease.holder = "n1" /\ pending = "none" /\ leases < MaxLeases
  /\ now < exp[known] /\ (n1.lease.epoch < known \/ n1.lease.no <= minLease)
  /\ leases' = leases + 1 /\ pending' = "request"
  /\ raft' = raft \cup {[kind |-> "request", from |-> NoRange, seq |-> n1.lease.seq,
        lai |-> 0, ts |-> 0, lease |-> [seq |-> n1.lease.seq + 1, holder |-> "n1",
          epoch |-> known, start |-> Max2(n1.lease.start, minProposedTS), no |-> leases + 1]]}
  /\ UNCHANGED <<vars, now, nodeVars, log, pos, cmd, liBase, minLease,
                 minProposedTS, lowWater, entries>>

-----------------------------------------------------------------------------
(* What n2 does, as far as the range can tell. *)

(* n2 requests the lease from n1, found expired at start. *)
RequestLeaseN2(start) ==
  /\ tail.lease.holder = "n1" /\ tail.lease.start <= start /\ leases < MaxLeases
  /\ IF tail.lease.epoch = live THEN live < MaxEpoch /\ IncrementEpoch(start)
     ELSE start = now /\ UNCHANGED <<live, exp>>
  /\ leases' = leases + 1
  /\ raft' = raft \cup {[kind |-> "request", from |-> NoRange, seq |-> tail.lease.seq,
        lai |-> 0, ts |-> 0, lease |-> [seq |-> tail.lease.seq + 1, holder |-> "n2",
                             epoch |-> 0, start |-> start, no |-> leases + 1]]}
  /\ UNCHANGED <<vars, now, known, booted, starting, pos, log, cmd, liBase, pending, minLease,
                 minProposedTS, lowWater, entries>>

(* An entry of the log with what applying it leads to. *)
LogEntry(c, ok, retry) ==
  [cmd |-> c, ok |-> ok, retry |-> retry,
   after |-> [lai   |-> IF ok /\ c.kind # "request" THEN c.lai ELSE tail.lai,
              lease |-> IF ok /\ c.kind # "write" THEN c.lease ELSE tail.lease]]

(* A write of n2 under its lease: above the start of the lease, to which    *)
(* leasePostApply raised its timestamp cache.                               *)
WriteN2(ts) ==
  /\ tail.lease.holder = "n2" /\ ts > tail.lease.start
  /\ tail.lai < MaxLAI /\ Len(log) < MaxLog
  /\ log' = Append(log, LogEntry([kind |-> "write", from |-> NoRange,
              seq |-> tail.lease.seq, lai |-> tail.lai + 1, ts |-> ts,
              lease |-> NoLease], TRUE, FALSE))
  /\ UNCHANGED <<vars, now, nodeVars, pos, raft, cmd, liBase, pending, minLease,
                 minProposedTS, leases, lowWater, entries>>

(* n2 transfers the lease to n1, having chosen its start some time ago and  *)
(* taken n1's epoch from gossip.                                            *)
TransferN2(start, epoch) ==
  /\ tail.lease.holder = "n2" /\ tail.lease.start <= start /\ start <= now /\ epoch <= live
  /\ tail.lai < MaxLAI /\ Len(log) < MaxLog /\ leases < MaxLeases
  /\ leases' = leases + 1
  /\ log' = Append(log, LogEntry([kind |-> "transfer", from |-> NoRange,
              seq |-> tail.lease.seq, lai |-> tail.lai + 1, ts |-> 0,
              lease |-> [seq |-> tail.lease.seq + 1, holder |-> "n1",
                epoch |-> epoch, start |-> start, no |-> leases + 1]], TRUE, FALSE))
  /\ UNCHANGED <<vars, now, nodeVars, pos, raft, cmd, liBase, pending, minLease,
                 minProposedTS, lowWater, entries>>

-----------------------------------------------------------------------------
(* checkForcedErr: the lease the command was proposed under must be the     *)
(* current one, and but for lease requests the lease index must be new.     *)
checkForcedErr(c, s) ==
  [mismatch |-> c.seq # s.lease.seq,
   illegal  |-> c.kind # "request" /\ c.lai <= s.lai]

(* Raft appends a command to the log. *)
Commit(c) ==
  /\ Len(log) < MaxLog
  /\ LET err == checkForcedErr(c, tail) IN
     log' = Append(log, LogEntry(c, ~err.mismatch /\ ~err.illegal,
                                    ~err.mismatch /\ err.illegal))
  /\ raft' = raft \ {c}
  /\ UNCHANGED <<vars, now, nodeVars, pos, cmd, liBase, pending, minLease,
                 minProposedTS, leases, lowWater, entries>>

(* leasePostApply's update of the timestamp cache: any new sequence counts. *)
leasePostApply(e) ==
  IF e.ok /\ e.cmd.kind # "write" /\ e.after.lease.holder = "n1"
  THEN Max2(lowWater, e.after.lease.start) ELSE lowWater

(* n1 applies the next entry.  If it proposed the command and the command   *)
(* was only given too small a lease index, prepareLocalResult reproposes it *)
(* (as q) or gives up (q = p).  Application does not go on meanwhile.       *)
Apply(q) ==
  /\ pos < Len(log)
  /\ \A x \in Proposal : cmd[x].again /\ prop[x].pc # "failed" => cmd[x].lai # 0
  /\ LET e == log[pos + 1]
         p == e.cmd.from
         local == p # NoRange /\ cmd[p].kind # "dead"
     IN /\ pos' = pos + 1
        /\ lowWater' = leasePostApply(e)
        /\ IF ~local THEN q = NoRange /\ UNCHANGED cmd
           ELSE \/ /\ q = p
                   /\ cmd' = [cmd EXCEPT ![p].latched = FALSE]
                \/ /\ e.retry /\ q \in Proposal /\ Idle(q)
                   /\ cmd' = [cmd EXCEPT ![p].latched = FALSE,
                        ![q] = [cmd[p] EXCEPT !.lai = 0, !.again = TRUE]]
        /\ pending' = IF e.cmd.kind = pending /\ q \in {p, NoRange}
                      THEN "none" ELSE pending
  /\ UNCHANGED <<vars, now, nodeVars, log, raft, liBase, minLease,
                 minProposedTS, leases, entries>>

(* n1's process restarts: tracker, latches and proposals are gone, commands *)
(* it proposed may still apply.  initRaftMuLockedReplicaMuLocked proscribes *)
(* all earlier leases; the timestamp cache starts out at the current time.  *)
(* Until the first heartbeat n1 has gossip's idea of its own liveness.      *)
Restart ==
  /\ live < MaxEpoch
  /\ booted' = now /\ starting' = TRUE
  /\ closed' = 0 /\ next' = 1 /\ closedEpoch' = 1 /\ leftEpoch' = 1 /\ rightEpoch' = 1
  /\ leftMLAI' = NoMLAI /\ rightMLAI' = NoMLAI /\ leftRef' = 0 /\ rightRef' = 0
  /\ prop' = [p \in Proposal |-> [pc |-> IF Idle(p) THEN "idle" ELSE "failed", minProp |-> 0,
                                  ts |-> 0, epoch |-> 0, range |-> NoRange, lai |-> 0]]
  /\ expEpoch' = 1
  /\ cmd' = [p \in Proposal |-> IF Idle(p) THEN NoCmd ELSE DeadCmd]
  /\ liBase' = 0 /\ pending' = "none" /\ lowWater' = now
  /\ minLease' = leases /\ minProposedTS' = now
  /\ UNCHANGED <<emitted, now, live, exp, known, log, pos, raft, leases, entries>>

RangeNext ==
  \/ Tick \/ Heartbeat \/ FirstHeartbeat \/ Restart \/ Cancel \/ JoinTransfer \/ RequestLease
  \/ \E t \in TS, e \in Epoch : RunCloser(t, e)
  \/ \E p \in Proposal : \/ Admit(p) \/ AdminTransferLease(p) \/ EmitMLAI(p)
                         \/ LatchAndTrack(p) \/ Untrack(p) \/ Fail(p)
  \/ \E p \in Proposal, ts \in TS, lai \in LAI : ProposeWrite(p, ts, lai)
  \/ \E p \in Proposal, lai \in LAI : ProposeTransfer(p, lai)
  \/ \E start \in TS : start <= now /\ RequestLeaseN2(start)
  \/ \E ts \in TS : WriteN2(ts)
  \/ \E ts \in TS, e \in Epoch : TransferN2(ts, e)
  \/ \E c \in raft : Commit(c)
  \/ \E q \in Proposal \cup {NoRange} : Apply(q)

RangeSpec == RangeInit /\ [][RangeNext]_allVars

-----------------------------------------------------------------------------
(* maxClosed on a replica in state s, with whatever it may have received    *)
(* from n1: the timestamps it may take for closed.                          *)
maxClosed(s) ==
  {s.lease.start} \cup
  {c.ts : c \in {d \in entries : /\ s.lease.holder = "n1" /\ d.epoch = s.lease.epoch
                                 /\ d.mlai # 0 /\ d.mlai <= s.lai}}

(* A follower that has applied any prefix of the log and serves a read at a *)
(* timestamp canServeFollowerRead lets it, misses no write: whatever is, or *)
(* comes to be, in the rest of the log is above that timestamp.             *)
FollowerReadsConsistent ==
  \A i \in 0 .. Len(log) : \A c \in maxClosed(After(i)) :
    \A j \in (i + 1) .. Len(log) :
      log[j].ok /\ log[j].cmd.kind = "write" => log[j].cmd.ts > c

(* n1 never uses its lease at a time that belongs to a later lease of n2,   *)
(* however far its log, its liveness record or its lease requests lag: the  *)
(* writes of n2 are only kept above the reads of n1 by the lease's start.   *)
LeaseDisjoint ==
  ValidLease(n1.lease) /\ pending # "transfer" =>
    \A i \in pos .. Len(log) :
      After(i).lease.holder = "n2" => After(i).lease.start >= now

=============================================================================
