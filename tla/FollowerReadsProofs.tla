------------------------ MODULE FollowerReadsProofs ------------------------
(***************************************************************************)
(* Proofs about module FollowerReads, for any number of commands, epochs,  *)
(* leases, timestamps, lease indexes and log entries, and any number of    *)
(* restarts.                                                               *)
(***************************************************************************)
EXTENDS TrackerLeaseProofs

\* Leaves are first-order unless they cite SMT.
USE ZenonT(60)

-----------------------------------------------------------------------------
(***************************************************************************)
(* The tracker.                                                            *)
(***************************************************************************)

LEMMA TrackerStays ==
  ASSUME NEW b \in Nat, TrackerInv(b), UNCHANGED <<vars, starting, booted, entries>>
  PROVE  TrackerInv(b)'
<1>1. IInv(b)'
  BY StutterIInv DEF TrackerInv
<1>2. Bumped(b)'
  BY DEF TrackerInv, Bumped, vars
<1> QED
  BY <1>1, <1>2 DEF TrackerInv, vars

\* A step of the tracker other than Close.
LEMMA TrackerStep ==
  ASSUME NEW b \in Nat, TrackerInv(b), IInv(b)', Bumped(b)',
         UNCHANGED <<expEpoch, starting, booted, entries>>
  PROVE  TrackerInv(b)'
BY DEF TrackerInv

LEMMA BumpedTrack ==
  ASSUME NEW b \in Nat, TypeOK, Bumped(b), NEW p \in Proposal, Track(p)
  PROVE  Bumped(b)'
<1> SUFFICES ASSUME NEW q \in Proposal, prop'[q].pc = "released"
             PROVE  prop'[q] = prop[q]
  BY DEF Bumped, Track
<1> QED
  BY DEF Track, TypeOK, PropState

\* The epochs of the two sides after release.
LEMMA ReleaseEpochs ==
  ASSUME TypeOK, NEW p \in Proposal, NEW e \in Nat, NEW r, NEW lai, release(p, e, r, lai)
  PROVE  /\ leftEpoch <= leftEpoch' /\ rightEpoch <= rightEpoch'
         /\ leftEpoch' \in Nat /\ rightEpoch' \in Nat
         /\ e <= rightEpoch' /\ (OnLeft(p) => e <= leftEpoch')
BY TrackerNumbers, SMT, Z3, SMTT(9) DEF release

LEMMA BumpedRelease ==
  ASSUME NEW b \in Nat, IInv(b), Bumped(b), NEW p \in Proposal, NEW e \in Epoch,
         NEW r \in RangeID, NEW lai \in LAI, NEW ts \in 0 .. (MaxTS + 2),
         Release(p, e, r, lai, ts)
  PROVE  Bumped(b)'
<1>1. /\ TypeOK /\ e \in Nat /\ prop[p].pc = "tracked" /\ (OnLeft(p) \/ OnRight(p))
      /\ release(p, e, r, lai) /\ UNCHANGED <<closed, closedEpoch, next, expEpoch, emitted>>
      /\ prop' = [prop EXCEPT ![p] = [@ EXCEPT !.pc = "released", !.epoch = e,
                                               !.range = r, !.lai = lai, !.ts = ts]]
  BY Constants, SMT, Z3, SMTT(9) DEF IInv, Release, Epoch
<1>2. /\ prop'[p].epoch = e /\ prop'[p].minProp = prop[p].minProp
      /\ \A q \in Proposal \ {p} : prop'[q] = prop[q]
  BY <1>1 DEF TypeOK, PropState
<1>3. /\ leftEpoch <= leftEpoch' /\ rightEpoch <= rightEpoch'
      /\ leftEpoch' \in Nat /\ rightEpoch' \in Nat
      /\ e <= rightEpoch' /\ (OnLeft(p) => e <= leftEpoch')
  BY <1>1, ReleaseEpochs
<1>4. /\ closed \in Nat /\ next \in Nat /\ closed < next /\ leftEpoch \in Nat /\ rightEpoch \in Nat
      /\ \A f \in Epoch : emitted[f].ts \in Nat /\ (b <= f => emitted[f].ts <= closed)
      /\ \A q \in Proposal : prop[q].epoch \in Nat /\ prop[q].minProp \in Nat
  BY <1>1, TrackerNumbers DEF IInv, RefCounts, EpochOrder
<1> SUFFICES ASSUME NEW q \in Proposal, prop'[q].pc = "released"
             PROVE  LET g == prop'[q].epoch  m == prop'[q].minProp IN
                    /\ closedEpoch >= g \/ closed < m
                    /\ leftEpoch' >= g \/ next < m
                    /\ rightEpoch' >= g
                    /\ \A f \in Epoch : b <= f /\ f < g => emitted[f].ts < m
  BY <1>1 DEF Bumped
<1>5. CASE q = p
  <2>1. closed < prop[p].minProp /\ (OnLeft(p) \/ next < prop[p].minProp)
    BY <1>1, <1>4, SMT, Z3, SMTT(9) DEF OnLeft, OnRight
  <2>2. \A f \in Epoch : b <= f => emitted[f].ts < prop[p].minProp
    BY <1>4, <2>1, SMT, Z3, SMTT(9)
  <2> QED
    BY <1>1, <1>2, <1>3, <1>5, <2>1, <2>2
<1>6. CASE q # p
  <2>1. prop'[q] = prop[q]
    BY <1>2, <1>6
  <2>2. /\ closedEpoch >= prop[q].epoch \/ closed < prop[q].minProp
        /\ leftEpoch >= prop[q].epoch \/ next < prop[q].minProp
        /\ rightEpoch >= prop[q].epoch
        /\ \A f \in Epoch : b <= f /\ f < prop[q].epoch => emitted[f].ts < prop[q].minProp
    BY <2>1 DEF Bumped
  <2> QED
    BY <1>3, <1>4, <2>1, <2>2, SMT, Z3, SMTT(9)
<1> QED
  BY <1>5, <1>6

LEMMA BumpedReleaseFailed ==
  ASSUME NEW b \in Nat, IInv(b), Bumped(b), NEW p \in Proposal, ReleaseFailed(p)
  PROVE  Bumped(b)'
<1>1. /\ TypeOK /\ 0 \in Nat /\ release(p, 0, NoRange, 0)
      /\ UNCHANGED <<closed, closedEpoch, next, emitted>>
      /\ prop' = [prop EXCEPT ![p].pc = "failed"]
  BY DEF IInv, ReleaseFailed
<1>2. /\ leftEpoch <= leftEpoch' /\ rightEpoch <= rightEpoch'
      /\ leftEpoch' \in Nat /\ rightEpoch' \in Nat
  BY <1>1, ReleaseEpochs
<1>3. /\ leftEpoch \in Nat /\ rightEpoch \in Nat /\ \A q \in Proposal : prop[q].epoch \in Nat
  BY <1>1, TrackerNumbers
<1> SUFFICES ASSUME NEW q \in Proposal, prop'[q].pc = "released"
             PROVE  LET g == prop'[q].epoch  m == prop'[q].minProp IN
                    /\ closedEpoch >= g \/ closed < m
                    /\ leftEpoch' >= g \/ next < m
                    /\ rightEpoch' >= g
                    /\ \A f \in Epoch : b <= f /\ f < g => emitted[f].ts < m
  BY <1>1 DEF Bumped
<1>4. prop'[q] = prop[q]
  BY <1>1 DEF TypeOK, PropState
<1>5. /\ closedEpoch >= prop[q].epoch \/ closed < prop[q].minProp
      /\ leftEpoch >= prop[q].epoch \/ next < prop[q].minProp
      /\ rightEpoch >= prop[q].epoch
      /\ \A f \in Epoch : b <= f /\ f < prop[q].epoch => emitted[f].ts < prop[q].minProp
  BY <1>4 DEF Bumped
<1> QED
  BY <1>2, <1>3, <1>4, <1>5, SMT, Z3, SMTT(9)

\* What Close may add to what it has returned under an epoch.
LEMMA CloseEmits ==
  ASSUME NEW b \in Nat, IInv(b), NEW nxt \in TS, NEW ep \in Epoch, Close(nxt, ep)
  PROVE  /\ \A e \in Epoch : e # ep => emitted'[e] = emitted[e]
         /\ \/ emitted'[ep].ts = emitted[ep].ts
            \/ leftEpoch = ep /\ emitted'[ep].ts = next
            \/ closedEpoch = ep /\ emitted'[ep].ts = closed
         /\ \A e \in Epoch : emitted[e].ts <= emitted'[e].ts
<1>1. TypeOK /\ next \in TS /\ closed \in TS /\ leftMLAI \in MLAI /\ NoMLAI \in MLAI
  BY MLAITypes DEF IInv, TypeOK
<1>2. (\A e \in Epoch : emitted[e].ts \in Nat) /\ next \in Nat /\ closed \in Nat
  BY <1>1, TrackerNumbers
<1>3. CASE UNCHANGED emitted
  BY <1>2, <1>3, SMT, Z3, SMTT(9)
<1>4. CASE leftEpoch = ep /\ Emit(next, ep, leftMLAI)
  <2>1. /\ \A e \in Epoch : e # ep => emitted'[e] = emitted[e]
        /\ emitted'[ep].ts = Max2(emitted[ep].ts, next)
    BY <1>1, <1>4, EmitEffect
  <2> QED
    BY <1>2, <1>4, <2>1, SMT, Z3, SMTT(9) DEF Max2
<1>5. CASE closedEpoch = ep /\ Emit(closed, ep, NoMLAI)
  <2>1. /\ \A e \in Epoch : e # ep => emitted'[e] = emitted[e]
        /\ emitted'[ep].ts = Max2(emitted[ep].ts, closed)
    BY <1>1, <1>5, EmitEffect
  <2> QED
    BY <1>2, <1>5, <2>1, SMT, Z3, SMTT(9) DEF Max2
<1> QED
  BY <1>3, <1>4, <1>5 DEF Close, CloseOut, CloseIdempotent

LEMMA BumpedClose ==
  ASSUME NEW b \in Nat, IInv(b), Bumped(b), NEW nxt \in TS, NEW ep \in Epoch, Close(nxt, ep)
  PROVE  Bumped(b)'
<1>1. /\ prop' = prop
      /\ \/ /\ closed' = next /\ closedEpoch' = leftEpoch
            /\ leftEpoch'  = Max2(rightEpoch, ep) /\ rightEpoch' = Max2(rightEpoch, ep)
         \/ UNCHANGED <<closed, closedEpoch, next, leftEpoch, rightEpoch>>
  BY DEF Close, CloseOut, CloseIdempotent
<1>2. /\ \A e \in Epoch : e # ep => emitted'[e] = emitted[e]
      /\ \/ emitted'[ep].ts = emitted[ep].ts
         \/ leftEpoch = ep /\ emitted'[ep].ts = next
         \/ closedEpoch = ep /\ emitted'[ep].ts = closed
  BY CloseEmits
<1>3. /\ closed \in Nat /\ next \in Nat /\ leftEpoch \in Nat /\ rightEpoch \in Nat
      /\ closedEpoch \in Nat /\ ep \in Nat
      /\ \A q \in Proposal : prop[q].epoch \in Nat /\ prop[q].minProp \in Nat
  BY TrackerNumbers, Constants, SMT, Z3, SMTT(9) DEF IInv, Epoch
<1> SUFFICES ASSUME NEW q \in Proposal, prop[q].pc = "released"
             PROVE  LET g == prop[q].epoch  m == prop[q].minProp IN
                    /\ closedEpoch' >= g \/ closed' < m
                    /\ leftEpoch' >= g \/ next' < m
                    /\ rightEpoch' >= g
                    /\ \A f \in Epoch : b <= f /\ f < g => emitted'[f].ts < m
  BY <1>1 DEF Bumped
<1>4. /\ closedEpoch >= prop[q].epoch \/ closed < prop[q].minProp
      /\ leftEpoch >= prop[q].epoch \/ next < prop[q].minProp
      /\ rightEpoch >= prop[q].epoch
      /\ \A f \in Epoch : b <= f /\ f < prop[q].epoch => emitted[f].ts < prop[q].minProp
  BY DEF Bumped
<1>5. /\ closedEpoch' >= prop[q].epoch \/ closed' < prop[q].minProp
      /\ leftEpoch' >= prop[q].epoch \/ next' < prop[q].minProp
      /\ rightEpoch' >= prop[q].epoch
  BY <1>1, <1>3, <1>4, SMT, Z3, SMTT(9) DEF Max2
<1>6. ASSUME NEW f \in Epoch, b <= f, f < prop[q].epoch PROVE emitted'[f].ts < prop[q].minProp
  <2>1. CASE f # ep
    BY <1>2, <1>4, <1>6, <2>1
  <2>2. CASE f = ep
    BY <1>2, <1>3, <1>4, <1>6, <2>2, SMT, Z3, SMTT(9)
  <2> QED
    BY <2>1, <2>2
<1> QED
  BY <1>5, <1>6

LEMMA CloseIInv ==
  ASSUME NEW b \in Nat, IInv(b), NEW nxt \in TS, NEW ep \in Epoch, Close(nxt, ep)
  PROVE  IInv(b)'
BY CloseOutStep, CloseIdempotentStep DEF Close

\* The tracker's promise after a step that keeps its invariant.
LEMMA PromiseNext ==
  ASSUME NEW b \in Nat, IInv(b)', NEW e \in Epoch, b <= e, NEW p \in Proposal
  PROVE  /\ prop'[p].pc = "tracked" => emitted'[e].ts < prop'[p].minProp
         /\ prop'[p].pc = "released" /\ prop'[p].epoch = e /\ prop'[p].ts <= emitted'[e].ts
              => emitted'[e].mlai[prop'[p].range] >= prop'[p].lai
<1>1. /\ emitted'[e].ts \in Int /\ emitted'[e].ts <= closed'
      /\ closed' \in Int /\ next' \in Int /\ closed' < next'
  BY SMT, Z3, SMTT(9) DEF IInv, TypeOK, TS, EpochOrder, RefCounts
<1>2. /\ prop'[p].lai \in Int /\ prop'[p].ts \in Int
      /\ \A r \in RangeID : emitted'[e].mlai[r] \in Int
  BY SMT, Z3, SMTT(9) DEF IInv, TypeOK, PropState, MLAI
<1>3. prop'[p].pc = "tracked" => emitted'[e].ts < prop'[p].minProp
  BY <1>1, SMT, Z3, SMTT(9) DEF IInv, OnASide, OnLeft, OnRight
<1>4. ASSUME prop'[p].pc = "released", prop'[p].epoch = e, prop'[p].ts <= emitted'[e].ts
      PROVE  emitted'[e].mlai[prop'[p].range] >= prop'[p].lai
  <2>1. Accounted(p)' /\ prop'[p].range \in RangeID
    BY <1>4 DEF IInv, AllAccounted
  <2> QED
    BY <1>1, <1>2, <1>4, <2>1, SMT, Z3, SMTT(9) DEF Accounted
<1> QED
  BY <1>3, <1>4

-----------------------------------------------------------------------------
(***************************************************************************)
(* Every action keeps what follower reads rest on.                         *)
(***************************************************************************)

LEMMA Parts ==
  ASSUME NEW b, ReadInv(b)
  PROVE  /\ LeaseInv /\ RangeTypeOK /\ TypeOK /\ ClockInv /\ EntryInv /\ CacheInv /\ PropInv
         /\ StepInv /\ CommandInv(b) /\ TrackerInv(b) /\ IInv(b)
BY DEF ReadInv, LeaseInv, TrackerInv, IInv

\* A step of n1's that leaves clocks, log and cache alone.
LEMMA QuietRead ==
  ASSUME NEW b \in Nat, ReadInv(b), LeaseInv', PropInv', TrackerInv(b)', SettledStay,
         UNCHANGED <<now, nodeVars, log, pos, lowWater, entries, expEpoch, next, emitted>>,
         \A c \in raft' : c \in raft \/ Enters(c, b)'
  PROVE  ReadInv(b)'
<1>1. /\ LeaseInv /\ RangeTypeOK /\ ClockInv /\ EntryInv /\ CacheInv /\ StepInv /\ CommandInv(b)
  BY Parts
<1>2. RangeTypeOK'
  BY DEF LeaseInv
<1>3. ClockInv' /\ EntryInv'
  BY <1>1, <1>2, ClockStays, EntryStays, Numbers, SMT, Z3, SMTT(9)
<1>4. StepInv' /\ \A i \in 0 .. Len(log) : L(i)' = L(i)
  BY <1>1, StepsStay
<1>5. CacheInv'
  BY <1>1, <1>4, CacheStays, States, SMT, Z3, SMTT(9)
<1>6. Calm
  BY <1>1, Numbers, SMT, Z3, SMTT(9) DEF Calm, nodeVars
<1>7. CommandInv(b)'
  BY <1>1, <1>6, CommandStep
<1> QED
  BY <1>3, <1>4, <1>5, <1>7 DEF ReadInv

\* A step that adds an entry to the log.
LEMMA AppendRead ==
  ASSUME NEW b \in Nat, ReadInv(b), LeaseInv',
         UNCHANGED <<vars, now, nodeVars, pos, cmd, lowWater, entries>>, raft' \subseteq raft,
         NEW x \in EntryType, log' = Append(log, x), Does(x),
         \/ x.cmd \in raft
         \/ x.cmd.from = NoRange /\ x.cmd.seq = tail.lease.seq /\ tail.lease.holder = "n2",
         x.after.lease = tail.lease \/ x.after.lease.seq = tail.lease.seq + 1
  PROVE  ReadInv(b)'
<1>1. /\ LeaseInv /\ RangeTypeOK /\ ClockInv /\ EntryInv /\ CacheInv /\ PropInv /\ StepInv
      /\ CommandInv(b) /\ TrackerInv(b)
  BY Parts
<1>2. RangeTypeOK' /\ UNCHANGED <<expEpoch, next, emitted, prop, booted, live, exp, starting>>
  BY DEF LeaseInv, vars, nodeVars
<1>3. ClockInv' /\ EntryInv'
  BY <1>1, <1>2, ClockStays, EntryStays, Numbers, SMT, Z3, SMTT(9)
<1>4. \A i \in 0 .. pos : L(i)' = L(i)
  BY <1>1, Appended, States, SMT, Z3, SMTT(9)
<1>5. CacheInv'
  BY <1>1, <1>4, CacheStays
<1>6. PropInv' /\ TrackerInv(b)'
  BY <1>1, <1>2, PropStays, TrackerStays
<1>7. StepInv'
  BY <1>1, AppendSteps
<1>8. CommandInv(b)'
  BY <1>1, <1>2, AppendCommands
<1> QED
  BY <1>3, <1>5, <1>6, <1>7, <1>8 DEF ReadInv

LEMMA TickReads == ASSUME NEW b \in Nat, ReadInv(b), Tick PROVE ReadInv(b)'
<1>1. /\ LeaseInv /\ RangeTypeOK /\ TypeOK /\ ClockInv /\ EntryInv /\ CacheInv /\ PropInv
      /\ StepInv /\ CommandInv(b) /\ TrackerInv(b)
  BY Parts
<1>2. /\ now' = now + 1 /\ UNCHANGED <<vars, nodeVars, pos, rangeVars, entries>>
      /\ UNCHANGED <<log, raft, cmd, lowWater, next, expEpoch, emitted, prop, booted, starting,
                     live, exp, known>>
  BY DEF Tick, vars, nodeVars, rangeVars
<1>3. LeaseInv' /\ RangeTypeOK'
  BY <1>1, TickLeases DEF LeaseInv
<1>4. /\ now \in Nat /\ \A e \in Epoch : exp[e] \in Nat
      /\ next \in Nat /\ \A e \in Epoch : emitted[e].ts \in Nat
  BY <1>1, Numbers, TrackerNumbers
<1>5. Expiration \in Nat /\ Expiration' \in Nat /\ Expiration <= Expiration'
  BY <1>2, <1>4, Constants, SMT, Z3, SMTT(9) DEF Expiration
<1>6. ClockInv'
  BY <1>1, <1>2, <1>4, <1>5, Constants, SMT, Z3, SMTT(9) DEF ClockInv
<1>7. EntryInv'
  BY <1>1, <1>2, <1>4, SMT, Z3, SMTT(9) DEF EntryInv
<1>8. StepInv' /\ \A i \in 0 .. Len(log) : L(i)' = L(i)
  BY <1>1, <1>2, StepsStay
<1>9. CacheInv' /\ PropInv' /\ TrackerInv(b)'
  BY <1>1, <1>2, <1>8, States, CacheStays, PropStays, TrackerStays, SMT, Z3, SMTT(9)
<1>10. CommandInv(b)'
  <2>1. Calm /\ SettledStay
    BY <1>1, <1>2, Numbers, SMT, Z3, SMTT(9) DEF Calm, SettledStay, Same
  <2> QED
    BY <1>1, <1>2, <1>3, <2>1, CommandStep
<1> QED
  BY <1>3, <1>6, <1>7, <1>8, <1>9, <1>10 DEF ReadInv

\* Steps of n1's liveness: what matters is what ClockInv and EntryInv make of it.
LEMMA LivenessRead ==
  ASSUME NEW b \in Nat, NEW b2 \in Nat, ReadInv(b), LeaseInv', ClockInv', EntryInv', TrackerInv(b2)',
         Calm, \A e \in Epoch : e <= live /\ e < b => e < b2,
         UNCHANGED <<now, booted, pos, lowWater, log, cmd, prop, entries>>,
         \A c \in raft' : c \in raft \/ Enters(c, b2)'
  PROVE  ReadInv(b2)'
<1>1. /\ LeaseInv /\ RangeTypeOK /\ CacheInv /\ PropInv /\ StepInv /\ CommandInv(b)
  BY Parts
<1>2. StepInv' /\ \A i \in 0 .. Len(log) : L(i)' = L(i)
  BY <1>1, StepsStay
<1>3. CacheInv' /\ PropInv'
  BY <1>1, <1>2, States, CacheStays, PropStays, SMT, Z3, SMTT(9)
<1>4. CommandInv(b2)'
  <2>1. SettledStay
    BY DEF SettledStay, Same
  <2> QED
    BY <1>1, <2>1, CommandStep
<1> QED
  BY <1>2, <1>3, <1>4 DEF ReadInv

LEMMA HeartbeatReads == ASSUME NEW b \in Nat, ReadInv(b), Heartbeat PROVE ReadInv(b)'
<1>1. /\ LeaseInv /\ RangeTypeOK /\ TypeOK /\ ClockInv /\ EntryInv /\ TrackerInv(b) /\ TimeInv
  BY Parts DEF LeaseInv
<1>2. /\ exp' = [exp EXCEPT ![live] = Expiration] /\ known' = live
      /\ UNCHANGED <<vars, now, live, booted, starting, pos, rangeVars, entries>>
      /\ UNCHANGED <<log, raft, cmd, lowWater, next, expEpoch, emitted, prop>>
  BY DEF Heartbeat, vars, rangeVars
<1>3. LeaseInv'
  BY <1>1, <1>2, HeartbeatLeases
<1>4. /\ now \in Nat /\ live \in Epoch /\ live \in Nat /\ known \in Nat
      /\ next \in Nat /\ expEpoch \in Nat
      /\ \A e \in Epoch : e \in Nat /\ exp[e] \in Nat /\ emitted[e].ts \in Nat
      /\ exp \in [Epoch -> Nat] /\ known <= live
  BY <1>1, Numbers, TrackerNumbers DEF RangeTypeOK, TimeInv
<1>5. Expiration \in Nat /\ now < Expiration /\ Expiration' = Expiration /\ 1 <= now
  BY <1>1, <1>2, <1>4, ExpirationType, Constants, SMT, Z3, SMTT(9) DEF Expiration, TimeInv
<1>6. /\ exp'[live] = Expiration
      /\ \A e \in Epoch : e # live => exp'[e] = exp[e]
  BY <1>2, <1>4
<1>7. ClockInv'
  <2>1. booted <= lowWater /\ expEpoch <= live /\ (next = 1 \/ next + Target <= now)
    BY <1>1, <1>4, SMT, Z3, SMTT(9) DEF ClockInv
  <2>2. next < Expiration
    BY <1>4, <1>5, <2>1, Constants, SMT, Z3, SMTT(9)
  <2>3. ASSUME NEW e \in Epoch
        PROVE  /\ e < live => exp'[e] <= now \/ starting \/ e < expEpoch
               /\ exp'[e] <= Expiration
               /\ e <= live => 1 < exp'[e]
               /\ expEpoch <= e /\ e <= live => next < exp'[e]
    <3>1. CASE e = live
      BY <1>4, <1>5, <1>6, <2>2, <3>1, SMT, Z3, SMTT(9)
    <3>2. CASE e # live
      BY <1>1, <1>6, <3>2 DEF ClockInv
    <3> QED
      BY <3>1, <3>2
  <2>4. ASSUME NEW e \in Epoch, NEW f \in Epoch, e <= f, f <= live PROVE exp'[e] <= exp'[f]
    <3>1. CASE f = live
      BY <1>6, <2>3, <3>1
    <3>2. CASE f # live
      <4>1. e # live
        BY <1>4, <2>4, <3>2, SMT, Z3, SMTT(9)
      <4> QED
        BY <1>1, <1>6, <2>4, <3>2, <4>1 DEF ClockInv
    <3> QED
      BY <3>1, <3>2
  <2> QED
    BY <1>2, <1>5, <2>1, <2>3, <2>4 DEF ClockInv
<1>8. EntryInv'
  <2>1. ASSUME NEW e \in Epoch
        PROVE  /\ live < e => emitted[e].ts = 0
               /\ emitted[e].ts <= now
               /\ e <= live => emitted[e].ts < exp'[e]
    BY <1>1, <1>4, <1>5, <1>6, SMT, Z3, SMTT(9) DEF EntryInv
  <2>2. ASSUME NEW d \in entries
        PROVE  /\ d.epoch \in Epoch /\ d.epoch <= live /\ d.mlai \in 0 .. MaxLAI
               /\ d.ts \in Nat /\ d.ts <= emitted[d.epoch].ts
    <3>1. /\ d.epoch \in Epoch /\ d.epoch <= known /\ d.mlai \in 0 .. MaxLAI
          /\ d.ts \in Nat /\ d.ts <= emitted[d.epoch].ts
      BY <1>1, Zenon DEF EntryInv
    <3>2. d.epoch \in Nat /\ known \in Nat /\ live \in Nat /\ known <= live
      BY <1>4, <3>1, Zenon
    <3>3. d.epoch <= live
      BY <3>1, <3>2, SMT, Z3, SMTT(9)
    <3> QED
      BY <3>1, <3>3, Zenon
  <2> QED
    BY <1>2, <2>1, <2>2 DEF EntryInv
<1>9. TrackerInv(b)'
  BY <1>1, <1>2, TrackerStays
<1>10. Calm
  BY <1>2, <1>4, <1>6, SMT, Z3, SMTT(9) DEF Calm
<1> QED
  BY <1>2, <1>3, <1>7, <1>8, <1>9, <1>10, LivenessRead

LEMMA FirstHeartbeatReads ==
  ASSUME NEW b \in Nat, ReadInv(b), FirstHeartbeat
  PROVE  \E n \in 1 .. MaxEpoch + 1 : ReadInv(n)'
<1>1. /\ LeaseInv /\ RangeTypeOK /\ TypeOK /\ ClockInv /\ EntryInv /\ PropInv /\ TrackerInv(b)
      /\ IInv(b) /\ TimeInv
  BY Parts DEF LeaseInv
<1>2. /\ live' = live + 1 /\ exp' = [exp EXCEPT ![live + 1] = Expiration] /\ live < MaxEpoch
      /\ known' = live + 1 /\ starting /\ starting' = FALSE /\ expEpoch' = live + 1
      /\ UNCHANGED <<closed, closedEpoch, next, leftMLAI, rightMLAI, leftRef, rightRef,
                     leftEpoch, rightEpoch, prop, emitted, now, booted, pos, entries>>
      /\ UNCHANGED <<log, raft, cmd, lowWater>>
  BY DEF FirstHeartbeat, rangeVars
<1>3. LeaseInv'
  BY <1>1, FirstHeartbeatLeases
<1>4. /\ now \in Nat /\ live \in Epoch /\ live \in Nat /\ live + 1 \in Epoch /\ known \in Nat
      /\ next \in Nat /\ expEpoch \in Nat /\ closed \in Nat
      /\ \A e \in Epoch : e \in Nat /\ exp[e] \in Nat /\ emitted[e].ts \in Nat
      /\ exp \in [Epoch -> Nat] /\ known <= live
  <2>1. live + 1 \in Epoch
    <3>1. live \in Nat
      BY <1>1, Numbers, Zenon
    <3> QED
      BY <1>2, <3>1, Constants, SMT, Z3, SMTT(9) DEF Epoch
  <2> QED
    BY <1>1, <2>1, Numbers, TrackerNumbers, Zenon DEF RangeTypeOK, TimeInv
<1>5. Expiration \in Nat /\ now < Expiration /\ Expiration' = Expiration /\ 1 <= now
  BY <1>1, <1>2, <1>4, ExpirationType, Constants, SMT, Z3, SMTT(9) DEF Expiration, TimeInv
<1>6. /\ exp'[live + 1] = Expiration
      /\ \A e \in Epoch : e # live + 1 => exp'[e] = exp[e]
  <2>1. exp' = [exp EXCEPT ![live + 1] = Expiration] /\ exp \in [Epoch -> Nat] /\ live + 1 \in Epoch
    BY <1>2, <1>4, Zenon
  <2> QED
    BY <2>1, SMT, Z3, SMTT(9)
<1>7. PICK n \in 1 .. MaxEpoch + 1 : n = live + 1 /\ n \in Nat
  <2>1. live \in Nat /\ live < MaxEpoch
    BY <1>2, <1>4, Zenon
  <2>2. live + 1 \in 1 .. MaxEpoch + 1 /\ live + 1 \in Nat
    BY <2>1, Constants, SMT, Z3, SMTT(9)
  <2> QED
    BY <2>2, Zenon
<1>8. ClockInv'
  <2>1. booted <= lowWater /\ (next = 1 \/ next + Target <= now)
    BY <1>1 DEF ClockInv
  <2>2. next < Expiration
    BY <1>4, <1>5, <2>1, Constants, SMT, Z3, SMTT(9)
  <2>3. ASSUME NEW e \in Epoch
        PROVE  /\ exp'[e] <= Expiration
               /\ e <= live + 1 => 1 < exp'[e]
               /\ live + 1 <= e /\ e <= live + 1 => next < exp'[e]
    <3>1. CASE e = live + 1
      BY <1>4, <1>5, <1>6, <2>2, <3>1, SMT, Z3, SMTT(9)
    <3>2. CASE e # live + 1
      BY <1>1, <1>4, <1>6, <3>2, SMT, Z3, SMTT(9) DEF ClockInv
    <3> QED
      BY <3>1, <3>2
  <2>4. ASSUME NEW e \in Epoch, NEW f \in Epoch, e <= f, f <= live + 1 PROVE exp'[e] <= exp'[f]
    <3>1. CASE f = live + 1
      BY <1>6, <2>3, <3>1
    <3>2. CASE f # live + 1
      <4>1. e # live + 1 /\ f <= live
        BY <1>4, <2>4, <3>2, SMT, Z3, SMTT(9)
      <4> QED
        BY <1>1, <1>6, <2>4, <3>2, <4>1 DEF ClockInv
    <3> QED
      BY <3>1, <3>2
  <2> QED
    BY <1>2, <1>4, <1>5, <2>1, <2>3, <2>4, SMT, Z3, SMTT(9) DEF ClockInv
<1>9. EntryInv'
  <2>1. ASSUME NEW e \in Epoch
        PROVE  /\ live + 1 < e => emitted[e].ts = 0
               /\ emitted[e].ts <= now
               /\ e <= live + 1 => emitted[e].ts < exp'[e]
    <3>1. CASE e = live + 1
      BY <1>1, <1>4, <1>5, <1>6, <3>1, SMT, Z3, SMTT(9) DEF EntryInv
    <3>2. CASE e # live + 1
      <4>1. (live + 1 < e => known < e) /\ (e <= live + 1 => e <= live)
        <5>1. e \in Nat /\ live \in Nat /\ known \in Nat /\ known <= live
          BY <1>4
        <5> QED
          BY <3>2, <5>1, SMT, Z3, SMTT(9)
      <4> QED
        BY <1>1, <1>6, <3>2, <4>1 DEF EntryInv
    <3> QED
      BY <3>1, <3>2
  <2>2. ASSUME NEW d \in entries
        PROVE  /\ d.epoch \in Epoch /\ d.epoch <= live + 1 /\ d.mlai \in 0 .. MaxLAI
               /\ d.ts \in Nat /\ d.ts <= emitted[d.epoch].ts
    <3>1. /\ d.epoch \in Epoch /\ d.epoch <= known /\ d.mlai \in 0 .. MaxLAI
          /\ d.ts \in Nat /\ d.ts <= emitted[d.epoch].ts
      BY <1>1, Zenon DEF EntryInv
    <3>2. d.epoch \in Nat /\ known \in Nat /\ live \in Nat /\ known <= live
      BY <1>4, <3>1, Zenon
    <3>3. d.epoch <= live + 1
      BY <3>1, <3>2, SMT, Z3, SMTT(9)
    <3> QED
      BY <3>1, <3>3, Zenon
  <2> QED
    BY <1>2, <2>1, <2>2 DEF EntryInv
\* Nothing was closed, and nothing released, under the epoch that begins.
<1>10. \A p \in Proposal : prop[p].pc = "released" => prop[p].epoch \in Epoch /\ prop[p].epoch <= live
  <2> SUFFICES ASSUME NEW p \in Proposal, prop[p].pc = "released"
               PROVE  prop[p].epoch \in Epoch /\ prop[p].epoch <= live
    OBVIOUS
  <2>1. prop[p].epoch = cmd[p].lease.epoch /\ cmd[p].kind \notin {"none", "dead"}
    BY <1>1 DEF PropInv, Sound
  <2>2. cmd[p].kind \in {"write", "transfer", "emit"}
    BY <1>1, <2>1 DEF RangeTypeOK, CmdType
  <2> QED
    BY <1>1, <2>1, <2>2, LeaseLetIn DEF InRange
<1>11. \A e \in Epoch : n <= e => emitted[e].ts = 0
  BY <1>1, <1>4, <1>7, SMT, Z3, SMTT(9) DEF EntryInv
<1>12. IInv(n)'
  <2>1. TypeOK'
    BY <1>1, <1>2, <1>4 DEF TypeOK
  <2>2. RefCounts' /\ OnASide'
    BY <1>1, <1>2 DEF IInv, RefCounts, OnASide, OnLeft, OnRight, Tracked
  <2>3. EpochOrder(n)'
    BY <1>1, <1>2, <1>4, <1>11, SMT, Z3, SMTT(9) DEF IInv, EpochOrder
  <2>4. AllAccounted(n)'
    <3> SUFFICES ASSUME NEW p \in Proposal, prop[p].pc = "released"
                 PROVE  /\ prop[p].epoch \in Epoch /\ prop[p].range \in RangeID
                        /\ ~(n <= prop[p].epoch)
      BY <1>2 DEF AllAccounted
    <3>1. prop[p].epoch \in Epoch /\ prop[p].range \in RangeID
      BY <1>1 DEF IInv, AllAccounted
    <3>2. prop[p].epoch \in Nat /\ prop[p].epoch <= live /\ live \in Nat
      BY <1>4, <1>10
    <3>3. ~(n <= prop[p].epoch)
      BY <1>7, <3>2, SMT, Z3, SMTT(9)
    <3> QED
      BY <3>1, <3>3
  <2> QED
    BY <2>1, <2>2, <2>3, <2>4 DEF IInv
<1>13. Bumped(n)'
  <2> SUFFICES ASSUME NEW p \in Proposal, prop[p].pc = "released", NEW f \in Epoch, n <= f
               PROVE  ~(f < prop[p].epoch)
    BY <1>1, <1>2 DEF TrackerInv, Bumped
  <2>1. prop[p].epoch \in Nat /\ prop[p].epoch <= live /\ live \in Nat /\ f \in Nat
    BY <1>4, <1>10, Zenon
  <2> QED
    BY <1>7, <2>1, SMT, Z3, SMTT(9)
<1>14. TrackerInv(n)'
  <2>1. \A d \in entries : d.ts <= booted
    <3> SUFFICES ASSUME NEW d \in entries PROVE d.ts <= booted
      OBVIOUS
    <3>1. b = MaxEpoch + 1 /\ d.epoch \in Epoch
      BY <1>1, <1>2 DEF TrackerInv, EntryInv
    <3>2. ~(b <= d.epoch)
      BY <3>1, Constants, SMT, Z3, SMTT(9) DEF Epoch
    <3> QED
      BY <1>1, <3>2 DEF TrackerInv
  <2> QED
    BY <1>2, <1>4, <1>7, <1>12, <1>13, <2>1, SMT, Z3, SMTT(9) DEF TrackerInv
<1>15. Calm
  BY <1>2, <1>4, <1>6, SMT, Z3, SMTT(9) DEF Calm
<1>16. ReadInv(n)'
  BY <1>2, <1>3, <1>4, <1>7, <1>8, <1>9, <1>14, <1>15, LivenessRead, SMT, Z3, SMTT(9)
<1> QED
  BY <1>7, <1>16

LEMMA RestartReads ==
  ASSUME NEW b \in Nat, ReadInv(b), Restart
  PROVE  \E n \in 1 .. MaxEpoch + 1 : ReadInv(n)'
<1>1. /\ LeaseInv /\ RangeTypeOK /\ TypeOK /\ ClockInv /\ EntryInv /\ PropInv /\ StepInv
      /\ CommandInv(b) /\ TimeInv
  BY Parts DEF LeaseInv
<1>2. /\ booted' = now /\ starting' = TRUE /\ lowWater' = now
      /\ closed' = 0 /\ next' = 1 /\ closedEpoch' = 1 /\ leftEpoch' = 1 /\ rightEpoch' = 1
      /\ leftMLAI' = NoMLAI /\ rightMLAI' = NoMLAI /\ leftRef' = 0 /\ rightRef' = 0
      /\ prop' = [p \in Proposal |-> [pc |-> IF Idle(p) THEN "idle" ELSE "failed", minProp |-> 0,
                                      ts |-> 0, epoch |-> 0, range |-> NoRange, lai |-> 0]]
      /\ expEpoch' = 1
      /\ cmd' = [p \in Proposal |-> IF Idle(p) THEN NoCmd ELSE DeadCmd]
      /\ UNCHANGED <<emitted, now, live, exp, known, log, pos, raft, entries>>
  BY DEF Restart
<1>3. LeaseInv' /\ RangeTypeOK'
  BY <1>1, RestartLeases DEF LeaseInv
<1>4. /\ now \in Nat /\ known \in Nat /\ live \in Nat /\ live <= MaxEpoch /\ 1 <= known
      /\ \A e \in Epoch : e \in Nat /\ e <= MaxEpoch /\ exp[e] \in Nat /\ emitted[e].ts \in Nat
  BY <1>1, Numbers, TrackerNumbers, Constants, SMT, Z3, SMTT(9) DEF RangeTypeOK, Epoch
<1>5. PICK n \in 1 .. MaxEpoch + 1 : n = MaxEpoch + 1 /\ n \in Nat
  BY Constants, SMT, Z3, SMTT(9)
<1>6. ClockInv'
  <2>1. Expiration' = Expiration
    BY <1>2 DEF Expiration
  <2> QED
    BY <1>1, <1>2, <1>4, <2>1, SMT, Z3, SMTT(9) DEF ClockInv
<1>7. EntryInv'
  BY <1>1, <1>2 DEF EntryInv
<1>8. StepInv' /\ Leases' = Leases /\ tail' = tail /\ \A i \in 0 .. Len(log) : L(i)' = L(i)
  BY <1>1, <1>2, StepsStay
<1>9. CacheInv'
  <2>1. \A i \in 0 .. pos : i \in 0 .. Len(log)
    BY <1>1, States, SMT, Z3, SMTT(9)
  <2>2. \A i \in 0 .. Len(log) : L(i).start <= now
    BY <1>1 DEF LeaseInv, LogInv, InRange
  <2> QED
    BY <1>2, <1>8, <2>1, <2>2 DEF CacheInv
<1>10. ASSUME NEW p \in Proposal
       PROVE  /\ prop'[p].pc \in {"idle", "failed"} /\ cmd'[p].kind \in {"none", "dead"}
              /\ cmd[p].kind # "none" => cmd'[p].kind = "dead"
              /\ Sound(cmd[p], prop[p])'
  <2>1. CASE Idle(p)
    <3>1. cmd'[p] = NoCmd /\ prop'[p].pc = "idle"
      BY <1>2, <2>1
    <3> QED
      BY <2>1, <3>1, Constants, SMT, Z3, SMTT(9) DEF Idle, NoCmd, Sound
  <2>2. CASE ~Idle(p)
    <3>1. cmd'[p] = DeadCmd /\ prop'[p].pc = "failed"
      BY <1>2, <2>2
    <3> QED
      BY <3>1, Constants, SMT, Z3, SMTT(9) DEF NoCmd, DeadCmd, Sound
  <2> QED
    BY <2>1, <2>2
<1>11. PropInv'
  BY <1>10 DEF PropInv
<1>12. CommandInv(n)'
  <2>1. Commands' = Commands
    BY <1>2 DEF Commands
  <2>2. \A c \in Commands : c \in RaftType
    BY <1>1, CommandTypes
  <2>3. ASSUME NEW c \in Commands PROVE Author(c)'
    <3>1. CASE c.from = NoRange
      BY <3>1 DEF Author
    <3>2. CASE c.from # NoRange
      <4>1. c.from \in Proposal
        BY <2>2, <3>2 DEF RaftType
      <4>2. cmd[c.from].kind # "none"
        BY <1>1, <3>2 DEF CommandInv, Author, Is
      <4> QED
        BY <1>10, <4>1, <4>2 DEF Author
    <3> QED
      BY <3>1, <3>2
  <2>4. ASSUME NEW c \in Commands, NEW l \in Leases, l.seq = c.seq, l.holder = "n1"
        PROVE  Fits(c, l, n)'
    <3>1. Fits(c, l, b) /\ l.epoch \in Epoch
      BY <1>1, <2>4, LeaseBySeq DEF CommandInv, InRange
    <3>2. l.epoch < n
      BY <1>4, <1>5, <3>1, Constants, SMT, Z3, SMTT(9)
    <3>3. \A e : Cov(c, e)' <=> Cov(c, e)
      BY <1>2 DEF Cov, Bound
    <3> QED
      BY <1>2, <3>1, <3>2, <3>3 DEF Fits
  <2> QED
    BY <1>1, <1>2, <1>8, <2>1, <2>3, <2>4 DEF CommandInv
<1>13. \A e \in Epoch : ~(n <= e)
  BY <1>4, <1>5, Constants, SMT, Z3, SMTT(9)
<1>14. IInv(n)'
  <2>1. prop' \in [Proposal -> PropState]
    <3>1. ASSUME NEW s \in {"idle", "failed"}
          PROVE  [pc |-> s, minProp |-> 0, ts |-> 0, epoch |-> 0, range |-> NoRange, lai |-> 0]
                   \in PropState
      BY Constants, SMT, Z3, SMTT(9) DEF PropState
    <3> QED
      BY <1>2, <3>1
  <2>2. TypeOK'
    <3>1. 0 \in TS /\ 1 \in TS /\ 1 \in Epoch
      BY TrackerConstants, SMT, Z3, SMTT(9) DEF TS, Epoch
    <3> QED
      BY <1>1, <1>2, <2>1, <3>1, MLAITypes DEF TypeOK
  <2>3. \A m : Tracked(m)' = {}
    BY <1>10 DEF Tracked
  <2>4. RefCounts'
    BY <1>2, <2>3, CountsNone, SMT, Z3, SMTT(9) DEF RefCounts
  <2>5. OnASide' /\ AllAccounted(n)'
    BY <1>10 DEF OnASide, AllAccounted
  <2>6. EpochOrder(n)'
    BY <1>2, <1>13, SMT, Z3, SMTT(9) DEF EpochOrder
  <2> QED
    BY <2>2, <2>4, <2>5, <2>6 DEF IInv
<1>15. Bumped(n)'
  BY <1>10 DEF Bumped
<1>16. TrackerInv(n)'
  <2>1. \A d \in entries : d.ts <= now
    <3> SUFFICES ASSUME NEW d \in entries PROVE d.ts <= now
      OBVIOUS
    <3>1. d.epoch \in Epoch /\ d.ts \in Nat /\ d.ts <= emitted[d.epoch].ts
          /\ emitted[d.epoch].ts <= now
      BY <1>1 DEF EntryInv
    <3> QED
      BY <1>4, <3>1, SMT, Z3, SMTT(9)
  <2> QED
    BY <1>2, <1>5, <1>14, <1>15, <2>1 DEF TrackerInv
<1>17. ReadInv(n)'
  BY <1>3, <1>6, <1>7, <1>8, <1>9, <1>11, <1>12, <1>16 DEF ReadInv
<1> QED
  BY <1>17

LEMMA CancelReads == ASSUME NEW b \in Nat, ReadInv(b), Cancel PROVE ReadInv(b)'
<1>1. LeaseInv /\ PropInv /\ TrackerInv(b)
  BY Parts
<1>2. /\ UNCHANGED <<vars, now, nodeVars, log, pos, lowWater, entries, cmd, raft>>
      /\ UNCHANGED <<prop, expEpoch, next, emitted, booted, starting>>
  BY DEF Cancel, vars, nodeVars
<1>3. LeaseInv' /\ PropInv' /\ TrackerInv(b)'
  BY <1>1, <1>2, CancelLeases, PropStays, TrackerStays
<1> QED
  BY <1>2, <1>3, QuietRead DEF SettledStay, Same

LEMMA JoinTransferReads == ASSUME NEW b \in Nat, ReadInv(b), JoinTransfer PROVE ReadInv(b)'
<1>1. LeaseInv /\ PropInv /\ TrackerInv(b)
  BY Parts
<1>2. /\ UNCHANGED <<vars, now, nodeVars, log, pos, lowWater, entries, cmd, raft>>
      /\ UNCHANGED <<prop, expEpoch, next, emitted, booted, starting>>
  BY DEF JoinTransfer, vars, nodeVars
<1>3. LeaseInv' /\ PropInv' /\ TrackerInv(b)'
  BY <1>1, <1>2, JoinTransferLeases, PropStays, TrackerStays
<1> QED
  BY <1>2, <1>3, QuietRead DEF SettledStay, Same

\* A step that changes the state of one command, and does not propose it.
LEMMA OneCommand ==
  ASSUME NEW b \in Nat, ReadInv(b), LeaseInv', TrackerInv(b)', NEW p \in Proposal,
         UNCHANGED <<now, nodeVars, log, pos, lowWater, entries, expEpoch, next, emitted, raft>>,
         \A q \in Proposal \ {p} : cmd'[q] = cmd[q] /\ prop'[q] = prop[q],
         Settled(cmd[p]) => Same(cmd[p], cmd'[p]),
         Sound(cmd[p], prop[p])'
  PROVE  ReadInv(b)'
<1>1. PropInv'
  BY Parts, PropStep DEF nodeVars
<1>2. SettledStay
  BY DEF SettledStay, Same
<1> QED
  BY <1>1, <1>2, QuietRead

LEMMA AdmitReads ==
  ASSUME NEW b \in Nat, ReadInv(b), NEW p \in Proposal, Admit(p) PROVE ReadInv(b)'
<1>1. LeaseInv /\ RangeTypeOK /\ PropInv /\ TrackerInv(b)
  BY Parts
<1>2. /\ UNCHANGED <<vars, now, nodeVars, log, pos, lowWater, entries, raft>>
      /\ UNCHANGED <<prop, expEpoch, next, emitted, booted, starting>>
      /\ cmd' = [cmd EXCEPT ![p].kind = "write", ![p].lease = n1.lease]
      /\ cmd[p].kind = "none"
  BY DEF Admit, vars, nodeVars, Idle
<1>3. LeaseInv' /\ TrackerInv(b)'
  BY <1>1, <1>2, AdmitLeases, TrackerStays
<1>4. /\ cmd'[p].kind = "write" /\ cmd'[p].lai = cmd[p].lai /\ cmd'[p].again = cmd[p].again
      /\ cmd'[p].ts = cmd[p].ts
      /\ \A q \in Proposal \ {p} : cmd'[q] = cmd[q]
  BY <1>1, <1>2 DEF RangeTypeOK, CmdType
<1>5. Sound(cmd[p], prop[p])
  BY <1>1 DEF PropInv
<1>6. Sound(cmd[p], prop[p])'
  BY <1>2, <1>4, <1>5 DEF Sound
<1> QED
  BY <1>2, <1>3, <1>4, <1>6, OneCommand DEF Settled

LEMMA AdminTransferLeaseReads ==
  ASSUME NEW b \in Nat, ReadInv(b), NEW p \in Proposal, AdminTransferLease(p) PROVE ReadInv(b)'
<1>1. LeaseInv /\ RangeTypeOK /\ PropInv /\ TrackerInv(b) /\ TimeInv
  BY Parts DEF LeaseInv
<1>2. /\ UNCHANGED <<vars, now, nodeVars, log, pos, lowWater, entries, raft>>
      /\ UNCHANGED <<prop, expEpoch, next, emitted, booted, starting>>
      /\ \E req \in SendTimes :
           cmd' = [cmd EXCEPT ![p].kind = "transfer", ![p].lease = n1.lease, ![p].ts = now,
                              ![p].req = req]
      /\ cmd[p].kind = "none"
  BY DEF AdminTransferLease, vars, nodeVars, Idle
<1>3. LeaseInv' /\ TrackerInv(b)'
  BY <1>1, <1>2, AdminTransferLeaseLeases, TrackerStays
<1>4. /\ cmd'[p].kind = "transfer" /\ cmd'[p].lai = cmd[p].lai /\ cmd'[p].again = cmd[p].again
      /\ cmd'[p].ts = now
      /\ \A q \in Proposal \ {p} : cmd'[q] = cmd[q]
  <2>1. PICK req \in SendTimes :
          cmd' = [cmd EXCEPT ![p].kind = "transfer", ![p].lease = n1.lease, ![p].ts = now,
                             ![p].req = req]
    BY <1>2
  <2>2. cmd \in [Proposal -> CmdType]
    BY <1>1 DEF RangeTypeOK
  <2> QED
    BY <2>1, <2>2, SMT, Z3, SMTT(9) DEF CmdType
<1>5. Sound(cmd[p], prop[p])
  BY <1>1 DEF PropInv
<1>6. booted <= now /\ 1 <= now /\ now <= MaxTS
  BY <1>1, Numbers, Constants, SMT, Z3, SMTT(9) DEF TimeInv
<1>7. Sound(cmd[p], prop[p])'
  BY <1>2, <1>4, <1>5, <1>6 DEF Sound
<1> QED
  BY <1>2, <1>3, <1>4, <1>7, OneCommand DEF Settled

LEMMA EmitMLAIReads ==
  ASSUME NEW b \in Nat, ReadInv(b), NEW p \in Proposal, EmitMLAI(p) PROVE ReadInv(b)'
<1>1. LeaseInv /\ RangeTypeOK /\ PropInv /\ TrackerInv(b)
  BY Parts
<1>2. /\ UNCHANGED <<vars, now, nodeVars, log, pos, lowWater, entries, raft>>
      /\ UNCHANGED <<prop, expEpoch, next, emitted, booted, starting>>
      /\ cmd' = [cmd EXCEPT ![p].kind = "emit", ![p].lease = n1.lease,
                            ![p].lai = Max2(liBase, n1.lai)]
      /\ cmd[p].kind = "none"
  BY DEF EmitMLAI, vars, nodeVars, Idle
<1>3. LeaseInv' /\ TrackerInv(b)'
  BY <1>1, <1>2, EmitMLAILeases, TrackerStays
<1>4. /\ cmd'[p].kind = "emit" /\ cmd'[p].ts = cmd[p].ts
      /\ \A q \in Proposal \ {p} : cmd'[q] = cmd[q]
  BY <1>1, <1>2 DEF RangeTypeOK, CmdType
<1>5. Sound(cmd[p], prop[p])
  BY <1>1 DEF PropInv
<1>6. Sound(cmd[p], prop[p])'
  BY <1>2, <1>4, <1>5 DEF Sound
<1> QED
  BY <1>2, <1>3, <1>4, <1>6, OneCommand DEF Settled

\* A transfer is tracked within Target of the time at which its lease starts, so
\* that the tracker does not ask it for more than that time.
LEMMA LatchAndTrackReads ==
  ASSUME PromptLatches, NEW b \in Nat, ReadInv(b), NEW p \in Proposal, LatchAndTrack(p)
  PROVE  ReadInv(b)'
<1>1. LeaseInv /\ RangeTypeOK /\ TypeOK /\ PropInv /\ TrackerInv(b) /\ IInv(b) /\ ClockInv
  BY Parts
<1>2. /\ UNCHANGED <<now, nodeVars, log, pos, lowWater, entries, raft>>
      /\ UNCHANGED <<expEpoch, next, emitted, booted, starting>>
      /\ cmd' = [cmd EXCEPT ![p].latched = (cmd[p].kind # "emit")]
      /\ prop' = [prop EXCEPT ![p] = [@ EXCEPT !.pc = "tracked", !.minProp = next + 1]]
      /\ cmd[p].kind # "none" /\ prop[p].pc = "idle"
      /\ cmd[p].kind = "transfer" /\ ~cmd[p].again => now - cmd[p].ts < Target
  BY DEF LatchAndTrack, Track, nodeVars, Idle
<1>3. Track(p)
  BY DEF LatchAndTrack
<1>4. LeaseInv'
  BY <1>1, LatchAndTrackLeases
<1>5. TrackerInv(b)'
  BY <1>1, <1>2, <1>3, TrackStep, BumpedTrack, TrackerStep DEF TrackerInv
<1>6. /\ cmd'[p].kind = cmd[p].kind /\ cmd'[p].lai = cmd[p].lai /\ cmd'[p].again = cmd[p].again
      /\ cmd'[p].ts = cmd[p].ts /\ cmd'[p].lease = cmd[p].lease
      /\ \A q \in Proposal \ {p} : cmd'[q] = cmd[q]
  BY <1>1, <1>2 DEF RangeTypeOK, CmdType
<1>7. /\ prop'[p].pc = "tracked" /\ prop'[p].minProp = next + 1
      /\ \A q \in Proposal \ {p} : prop'[q] = prop[q]
  BY <1>1, <1>2 DEF TypeOK, PropState
<1>8. Sound(cmd[p], prop[p])
  BY <1>1 DEF PropInv
<1>9. cmd[p].kind = "transfer" /\ ~cmd[p].again => next + 1 <= cmd[p].ts + 1
  <2>1. next \in Nat /\ now \in Nat /\ cmd[p].ts \in Nat /\ Target \in Nat
    BY <1>1, Numbers, TrackerNumbers, Constants DEF RangeTypeOK, CmdType
  <2>2. next = 1 \/ next + Target <= now
    BY <1>1 DEF ClockInv
  <2>3. cmd[p].kind = "transfer" => 1 <= cmd[p].ts
    BY <1>8 DEF Sound
  <2> QED
    BY <1>2, <2>1, <2>2, <2>3, SMT, Z3, SMTT(9)
<1>10. Sound(cmd[p], prop[p])'
  BY <1>2, <1>6, <1>7, <1>8, <1>9 DEF Sound
<1> QED
  BY <1>2, <1>4, <1>5, <1>6, <1>7, <1>10, OneCommand DEF Same

LEMMA UntrackReads ==
  ASSUME NEW b \in Nat, ReadInv(b), NEW p \in Proposal, Untrack(p) PROVE ReadInv(b)'
<1>1. LeaseInv /\ RangeTypeOK /\ TypeOK /\ PropInv /\ TrackerInv(b) /\ IInv(b)
  BY Parts
<1>2. /\ cmd[p].lai # 0
      /\ Release(p, cmd[p].lease.epoch, rangeID, cmd[p].lai, Max2(cmd[p].ts, prop[p].minProp))
      /\ UNCHANGED <<now, nodeVars, pos, rangeVars, entries>>
      /\ UNCHANGED <<log, raft, cmd, lowWater, booted, starting>>
  BY DEF Untrack, nodeVars, rangeVars
<1>3. LeaseInv'
  BY <1>1, <1>2, UnchangedLeases
<1>4. Sound(cmd[p], prop[p])
  BY <1>1 DEF PropInv
<1>5. PICK e, lai, ts : /\ e = cmd[p].lease.epoch /\ lai = cmd[p].lai
                        /\ ts = Max2(cmd[p].ts, prop[p].minProp)
  OBVIOUS
<1>6. /\ prop[p].pc = "tracked" /\ UNCHANGED <<closed, closedEpoch, next, expEpoch, emitted>>
      /\ prop' = [prop EXCEPT ![p] = [@ EXCEPT !.pc = "released", !.epoch = e,
                                               !.range = rangeID, !.lai = lai, !.ts = ts]]
  BY <1>2, <1>5 DEF Release
<1>7. cmd[p].kind \in {"write", "transfer", "emit"} /\ cmd[p] \in CmdType
  BY <1>1, <1>4, <1>6 DEF Sound, RangeTypeOK, CmdType
<1>8. e \in Epoch /\ lai \in LAI /\ ts \in 0 .. (MaxTS + 2) /\ rangeID \in RangeID
  <2>1. e \in Epoch
    BY <1>1, <1>5, <1>7, LeaseLetIn
  <2>2. lai \in LAI
    BY <1>2, <1>5, <1>7, Constants, SMT, Z3, SMTT(9) DEF CmdType, LAI
  <2>3. cmd[p].ts \in Nat /\ cmd[p].ts <= MaxTS
    BY <1>4, <1>7 DEF Sound, CmdType
  <2>4. ts \in 0 .. (MaxTS + 2)
    BY <1>1, <1>5, <2>3, TrackerNumbers, Constants, SMT, Z3, SMTT(9) DEF Max2
  <2> QED
    BY <2>1, <2>2, <2>4, RangeIDIn
<1>9. Release(p, e, rangeID, lai, ts)
  BY <1>2, <1>5
<1>10. TrackerInv(b)'
  <2>1. IInv(b)'
    BY <1>1, <1>8, <1>9, ReleaseStep
  <2>2. Bumped(b)'
    BY <1>1, <1>8, <1>9, BumpedRelease DEF TrackerInv
  <2> QED
    BY <1>1, <1>2, <1>6, <2>1, <2>2, TrackerStep
<1>11. /\ prop'[p].pc = "released" /\ prop'[p].epoch = e /\ prop'[p].range = rangeID
       /\ prop'[p].lai = lai /\ prop'[p].ts = ts /\ prop'[p].minProp = prop[p].minProp
       /\ \A q \in Proposal \ {p} : prop'[q] = prop[q]
  BY <1>1, <1>6 DEF TypeOK, PropState
<1>12. Sound(cmd[p], prop[p])'
  BY <1>2, <1>4, <1>5, <1>6, <1>7, <1>11 DEF Sound, Limit
<1> QED
  BY <1>2, <1>3, <1>6, <1>10, <1>11, <1>12, OneCommand DEF Same

LEMMA FailReads ==
  ASSUME NEW b \in Nat, ReadInv(b), NEW p \in Proposal, Fail(p) PROVE ReadInv(b)'
<1>1. LeaseInv /\ RangeTypeOK /\ TypeOK /\ PropInv /\ TrackerInv(b) /\ IInv(b)
  BY Parts
<1>2. /\ cmd[p].kind \in {"write", "transfer"} /\ cmd[p].lai = 0 /\ ReleaseFailed(p)
      /\ cmd' = [cmd EXCEPT ![p] = DeadCmd]
      /\ prop' = [prop EXCEPT ![p].pc = "failed"]
      /\ UNCHANGED <<now, nodeVars, log, pos, lowWater, entries, raft>>
      /\ UNCHANGED <<expEpoch, next, emitted, booted, starting>>
  BY DEF Fail, Evaluating, ReleaseFailed, nodeVars
<1>3. LeaseInv'
  BY <1>1, FailLeases
<1>4. TrackerInv(b)'
  BY <1>1, <1>2, ReleaseFailedStep, BumpedReleaseFailed, TrackerStep DEF TrackerInv
<1>5. /\ cmd'[p] = DeadCmd /\ prop'[p].pc = "failed"
      /\ \A q \in Proposal \ {p} : cmd'[q] = cmd[q] /\ prop'[q] = prop[q]
  BY <1>1, <1>2 DEF RangeTypeOK, TypeOK, PropState
<1>6. Sound(cmd[p], prop[p])'
  BY <1>5, Constants, SMT, Z3, SMTT(9) DEF Sound, DeadCmd, NoCmd
<1> QED
  BY <1>2, <1>3, <1>4, <1>5, <1>6, OneCommand DEF Settled

\* Nothing was closed so far at or above the time from which a command that is
\* still tracked writes.
LEMMA TrackedCovers ==
  ASSUME NEW b \in Nat, ReadInv(b), NEW p \in Proposal, prop[p].pc = "tracked",
         NEW t \in Nat, booted < t, prop[p].minProp <= t, NEW d \in entries
  PROVE  d.ts < t
<1>1. EntryInv /\ TrackerInv(b) /\ IInv(b) /\ RangeTypeOK /\ TypeOK
  BY Parts
<1>2. /\ d.epoch \in Epoch /\ d.ts \in Nat /\ d.ts <= emitted[d.epoch].ts
      /\ emitted[d.epoch].ts \in Nat /\ prop[p].minProp \in Nat /\ booted \in Nat
  BY <1>1, Numbers, TrackerNumbers DEF EntryInv
<1>3. CASE b <= d.epoch
  <2>1. emitted[d.epoch].ts < prop[p].minProp
    BY <1>1, <1>2, <1>3, Promise
  <2> QED
    BY <1>2, <2>1, SMT, Z3, SMTT(9)
<1>4. CASE ~(b <= d.epoch)
  BY <1>1, <1>2, <1>4, SMT, Z3, SMTT(9) DEF TrackerInv
<1> QED
  BY <1>3, <1>4

\* A command of p's is proposed.
LEMMA ProposeStep ==
  ASSUME NEW b \in Nat, ReadInv(b), LeaseInv', NEW p \in Proposal, NEW c \in RaftType,
         Evaluating(p), UNCHANGED <<vars, now, nodeVars, log, pos, lowWater, entries>>,
         \A q \in Proposal \ {p} : cmd'[q] = cmd[q],
         cmd'[p].kind = cmd[p].kind, Is(c, cmd'[p]), c.from = p, cmd'[p].lease = cmd[p].lease,
         raft' = raft \cup {c}, Sound(cmd[p], prop[p])', booted < Bound(c),
         prop[p].minProp <= Bound(c), c.kind = "write" => cmd[p].lease.start < c.ts
  PROVE  ReadInv(b)'
<1>1. /\ LeaseInv /\ RangeTypeOK /\ PropInv /\ TrackerInv(b)
      /\ cmd[p].kind \in {"write", "transfer"} /\ cmd[p].lai = 0 /\ prop[p].pc = "tracked"
  BY Parts DEF Evaluating
<1>2. UNCHANGED <<prop, expEpoch, next, emitted, booted, starting>>
  BY DEF vars, nodeVars
<1>3. PropInv' /\ TrackerInv(b)'
  BY <1>1, <1>2, PropStep, TrackerStays
<1>4. SettledStay
  BY <1>1 DEF SettledStay, Same, Settled
<1>5. cmd[p].lease \in Leases /\ cmd[p].lease.holder = "n1" /\ cmd[p].lease.seq = c.seq
  BY <1>1, LeaseLetIn DEF Is
<1>6. Leases' = Leases /\ tail' = tail
  BY Parts, StepsStay
<1>7. \A l \in Leases : l.seq = c.seq => l = cmd[p].lease
  BY <1>1, <1>5, LeaseBySeq
<1>8. Bound(c) \in Nat
  BY SMT, Z3, SMTT(9) DEF Bound, RaftType, LeaseType
<1>9. \A e : Cov(c, e)'
  BY <1>1, <1>8, TrackedCovers DEF Cov, Bound
<1>10. c.from # NoRange /\ cmd'[p].kind # "dead"
  BY <1>1, Constants
<1>11. Enters(c, b)'
  <2>1. (c.seq <= tail.lease.seq)'
    BY <1>1, <1>5, <1>6, LeaseBySeq
  <2>2. Author(c)'
    BY DEF Author
  <2>3. ASSUME NEW l \in Leases, l.seq = c.seq PROVE l.holder = "n1" /\ Fits(c, l, b)'
    BY <1>5, <1>7, <1>9, <1>10, <2>3 DEF Fits, Is
  <2> QED
    BY <1>6, <2>1, <2>2, <2>3 DEF Enters
<1> QED
  BY <1>2, <1>3, <1>4, <1>11, QuietRead

LEMMA ProposeWriteReads ==
  ASSUME NEW b \in Nat, ReadInv(b), NEW p \in Proposal, NEW ts \in TS, NEW lai \in LAI,
         ProposeWrite(p, ts, lai)
  PROVE  ReadInv(b)'
<1>1. LeaseInv /\ RangeTypeOK /\ TypeOK /\ PropInv /\ CacheInv /\ ClockInv
  BY Parts
<1> DEFINE c == [kind |-> "write", from |-> p, seq |-> cmd[p].lease.seq,
                 lai |-> lai, ts |-> ts, lease |-> NoLease]
<1>2. /\ Evaluating(p) /\ cmd[p].kind = "write" /\ ts >= prop[p].minProp
      /\ IF cmd[p].again THEN ts = cmd[p].ts ELSE ts > lowWater
      /\ cmd' = [cmd EXCEPT ![p].ts = ts, ![p].lai = lai]
      /\ raft' = raft \cup {c}
      /\ UNCHANGED <<vars, now, nodeVars, log, pos, lowWater, entries>>
      /\ UNCHANGED <<prop, booted>>
  BY DEF ProposeWrite, vars, nodeVars
<1>3. LeaseInv'
  BY <1>1, ProposeWriteLeases
<1>4. /\ cmd'[p].kind = "write" /\ cmd'[p].lai = lai /\ cmd'[p].again = cmd[p].again
      /\ cmd'[p].ts = ts /\ cmd'[p].lease = cmd[p].lease
      /\ \A q \in Proposal \ {p} : cmd'[q] = cmd[q]
  BY <1>1, <1>2 DEF RangeTypeOK, CmdType
<1>5. c \in RaftType
  BY <1>3, <1>2 DEF LeaseInv, RangeTypeOK
<1>6. Sound(cmd[p], prop[p]) /\ prop[p].pc = "tracked"
  BY <1>1, <1>2 DEF PropInv, Evaluating
<1>7. lai # 0 /\ ts \in Nat /\ ts <= MaxTS
  BY Constants, SMT, Z3, SMTT(9) DEF LAI, TS
<1>8. cmd[p].lease.start < ts /\ booted < ts
  <2>1. CASE cmd[p].again
    BY <1>2, <1>6, <2>1 DEF Sound
  <2>2. CASE ~cmd[p].again
    <3>1. PICK i \in 0 .. pos : cmd[p].lease = L(i) /\ cmd[p].lease.holder = "n1"
      BY <1>1, <1>2, LeaseLetIn
    <3>2. cmd[p].lease.start <= lowWater /\ booted <= lowWater
      BY <1>1, <3>1 DEF CacheInv, ClockInv
    <3>3. cmd[p].lease.start \in Nat /\ lowWater \in Nat /\ booted \in Nat
      BY <1>1, Numbers DEF RangeTypeOK, CmdType, LeaseType
    <3> QED
      BY <1>2, <1>7, <2>2, <3>2, <3>3, SMT, Z3, SMTT(9)
  <2> QED
    BY <2>1, <2>2
<1>9. prop[p].minProp \in Nat /\ prop[p].minProp <= ts
  BY <1>1, <1>2, <1>7, TrackerNumbers
<1>10. Sound(cmd[p], prop[p])'
  BY <1>2, <1>4, <1>6, <1>7, <1>8, <1>9 DEF Sound, Limit
<1>11. Is(c, cmd'[p]) /\ c.from = p /\ Bound(c) = ts /\ c.ts = ts
  BY <1>4, <1>7 DEF Is, Bound
<1> QED
  BY <1>2, <1>3, <1>4, <1>5, <1>8, <1>9, <1>10, <1>11, ProposeStep

LEMMA ProposeTransferReads ==
  ASSUME PromptLatches, NEW b \in Nat, ReadInv(b), NEW p \in Proposal, NEW lai \in LAI, ProposeTransfer(p, lai)
  PROVE  ReadInv(b)'
<1>1. LeaseInv /\ RangeTypeOK /\ TypeOK /\ PropInv
  BY Parts
<1> DEFINE c == [kind |-> "transfer", from |-> p, seq |-> cmd[p].lease.seq,
                 lai |-> lai, ts |-> 0, lease |-> [seq |-> cmd[p].lease.seq + 1, holder |-> "n2",
                 epoch |-> 0, start |-> cmd[p].ts, no |-> leases]]
<1>2. /\ Evaluating(p) /\ cmd[p].kind = "transfer"
      /\ cmd[p].again => cmd[p].req >= prop[p].minProp
      /\ cmd' = [cmd EXCEPT ![p].lai = lai]
      /\ raft' = raft \cup {c}
      /\ UNCHANGED <<vars, now, nodeVars, log, pos, lowWater, entries>>
      /\ UNCHANGED <<prop, booted>>
  BY DEF ProposeTransfer, vars, nodeVars
<1>3. LeaseInv'
  BY <1>1, ProposeTransferLeases
<1>4. /\ cmd'[p].kind = "transfer" /\ cmd'[p].lai = lai /\ cmd'[p].again = cmd[p].again
      /\ cmd'[p].ts = cmd[p].ts /\ cmd'[p].lease = cmd[p].lease
      /\ \A q \in Proposal \ {p} : cmd'[q] = cmd[q]
  BY <1>1, <1>2 DEF RangeTypeOK, CmdType
<1>5. c \in RaftType
  BY <1>3, <1>2 DEF LeaseInv, RangeTypeOK
<1>6. Sound(cmd[p], prop[p]) /\ prop[p].pc = "tracked"
  BY <1>1, <1>2 DEF PropInv, Evaluating
<1>7. lai # 0 /\ cmd[p].ts \in Nat /\ prop[p].minProp \in Nat /\ booted \in Nat
  <2>1. lai # 0
    BY Constants, SMT, Z3, SMTT(9) DEF LAI
  <2>2. cmd[p] \in CmdType
    BY <1>1, SMT, Z3, SMTT(9) DEF RangeTypeOK
  <2>3. cmd[p].ts \in Nat
    BY <2>2, SMT, Z3, SMTT(9) DEF CmdType
  <2> QED
    BY <1>1, <2>1, <2>3, TrackerNumbers, Numbers, Zenon
<1>8. prop[p].minProp <= cmd[p].ts + 1 /\ booted < cmd[p].ts + 1
  <2>1. cmd[p].req = cmd[p].ts
    BY <1>1, <1>2 DEF LeaseInv, CmdInv, LetIn
  <2> QED
    BY <1>2, <1>6, <1>7, <2>1, SMT, Z3, SMTT(9) DEF Sound
<1>9. Sound(cmd[p], prop[p])'
  BY <1>2, <1>4, <1>6, <1>7, <1>8 DEF Sound, Limit
<1>10. Is(c, cmd'[p]) /\ c.from = p /\ Bound(c) = cmd[p].ts + 1 /\ c.kind = "transfer"
  BY <1>4, <1>7 DEF Is, Bound
<1> QED
  BY <1>2, <1>3, <1>4, <1>5, <1>8, <1>9, <1>10, ProposeStep

LEMMA RequestLeaseReads == ASSUME NEW b \in Nat, ReadInv(b), RequestLease PROVE ReadInv(b)'
<1>1. LeaseInv /\ RangeTypeOK /\ PropInv /\ TrackerInv(b) /\ TimeInv /\ StepInv
  BY Parts DEF LeaseInv
<1> DEFINE c == [kind |-> "request", from |-> NoRange, seq |-> n1.lease.seq,
                 lai |-> 0, ts |-> 0, lease |-> [seq |-> n1.lease.seq + 1, holder |-> "n1",
                 epoch |-> known, start |-> Max2(n1.lease.start, minProposedTS),
                 no |-> leases + 1]]
<1>2. /\ n1.lease.holder = "n1" /\ now < exp[known] /\ raft' = raft \cup {c}
      /\ UNCHANGED <<vars, now, nodeVars, log, pos, lowWater, entries, cmd>>
      /\ UNCHANGED <<prop, expEpoch, next, emitted, booted, starting>>
  BY DEF RequestLease, vars, nodeVars
<1>3. LeaseInv'
  BY <1>1, RequestLeaseLeases
<1>4. PropInv' /\ TrackerInv(b)' /\ SettledStay
  BY <1>1, <1>2, PropStays, TrackerStays DEF SettledStay, Same
<1>5. Leases' = Leases /\ tail' = tail
  BY <1>1, <1>2, StepsStay
<1>6. n1.lease \in Leases
  BY <1>1, States DEF Leases
\* An epoch that has not expired is the current one.
<1>7. known = live
  <2>1. known \in Epoch /\ known \in Nat /\ live \in Nat /\ exp[known] \in Nat /\ now \in Nat
    BY <1>1, Numbers DEF RangeTypeOK
  <2> QED
    BY <1>1, <1>2, <2>1, SMT, Z3, SMTT(9) DEF TimeInv
<1>8. PICK d : d = c
  OBVIOUS
<1>9. /\ d.kind = "request" /\ d.from = NoRange /\ d.seq = n1.lease.seq /\ d.lease.holder = "n1"
      /\ d.lease.epoch = known
  BY <1>8
<1>10. Enters(d, b)'
  <2>1. (d.seq <= tail.lease.seq)' /\ Author(d)'
    BY <1>1, <1>5, <1>6, <1>9, LeaseBySeq DEF Author
  <2>2. ASSUME NEW l \in Leases, l.seq = d.seq PROVE l.holder = "n1" /\ Fits(d, l, b)'
    <3>1. l = n1.lease /\ InRange(l)
      BY <1>1, <1>6, <1>9, <2>2, LeaseBySeq
    <3>2. l.holder = "n1" /\ l.epoch <= d.lease.epoch
      BY <1>2, <1>7, <1>9, <3>1 DEF InRange
    <3> QED
      BY <1>9, <3>2 DEF Fits
  <2> QED
    BY <1>5, <2>1, <2>2 DEF Enters
<1> QED
  BY <1>2, <1>3, <1>4, <1>8, <1>10, QuietRead

LEMMA RequestLeaseN2Reads ==
  ASSUME NEW b \in Nat, ReadInv(b), NEW start \in TS, start <= now, RequestLeaseN2(start)
  PROVE  ReadInv(b)'
<1>1. /\ LeaseInv /\ RangeTypeOK /\ TypeOK /\ ClockInv /\ EntryInv /\ TrackerInv(b) /\ TimeInv
      /\ StepInv
  BY Parts DEF LeaseInv
<1> DEFINE c == [kind |-> "request", from |-> NoRange, seq |-> tail.lease.seq,
                 lai |-> 0, ts |-> 0, lease |-> [seq |-> tail.lease.seq + 1, holder |-> "n2",
                 epoch |-> 0, start |-> start, no |-> leases + 1]]
<1>2. /\ tail.lease.holder = "n1" /\ raft' = raft \cup {c}
      /\ IF tail.lease.epoch = live
         THEN /\ live < MaxEpoch /\ exp[live] <= start
              /\ live' = live + 1 /\ exp' = [exp EXCEPT ![live + 1] = exp[live]]
         ELSE start = now /\ UNCHANGED <<live, exp>>
      /\ UNCHANGED <<vars, now, known, booted, starting, pos, log, cmd, lowWater, entries>>
      /\ UNCHANGED <<prop, expEpoch, next, emitted>>
  BY DEF RequestLeaseN2, IncrementEpoch, vars
<1>3. LeaseInv'
  BY <1>1, RequestLeaseN2Leases
<1>4. /\ now \in Nat /\ live \in Epoch /\ live \in Nat /\ known \in Nat /\ start \in Nat
      /\ next \in Nat /\ expEpoch \in Nat
      /\ \A e \in Epoch : e \in Nat /\ exp[e] \in Nat /\ emitted[e].ts \in Nat
      /\ exp \in [Epoch -> Nat] /\ known <= live /\ expEpoch <= known
      /\ Expiration \in Nat /\ Expiration' = Expiration
  <2>1. start \in Nat
    BY Constants, SMT, Z3, SMTT(9) DEF TS
  <2>2. Expiration' = Expiration /\ Expiration \in Nat
    BY <1>1, <1>2, ExpirationType, Zenon DEF Expiration
  <2> QED
    BY <1>1, <2>1, <2>2, Numbers, TrackerNumbers, Zenon DEF RangeTypeOK, TimeInv, ClockInv
<1>5. tail.lease \in Leases /\ tail.lease.epoch \in Epoch /\ tail.lease.epoch <= live
  <2>1. tail.lease \in Leases
    BY <1>1, States, SMT, Z3, SMTT(9) DEF Leases
  <2> QED
    BY <1>1, <1>2, <2>1, LeaseBySeq DEF InRange
<1>6. PICK e0 \in Epoch : e0 = tail.lease.epoch
  BY <1>5
\* The epoch of the lease that is replaced is over.
<1>7. /\ e0 < live' /\ live <= live' /\ live' \in Nat
      /\ exp'[e0] <= start \/ starting \/ e0 < expEpoch
      /\ \A e \in Epoch : e <= live => exp'[e] = exp[e]
      /\ \A e \in Epoch : exp'[e] \in Nat /\ (e <= live' => e <= live \/ exp'[e] = exp[live])
  <2>1. CASE tail.lease.epoch = live
    <3>1. live + 1 \in Epoch
      BY <1>2, <1>4, <2>1, Constants, SMT, Z3, SMTT(9) DEF Epoch
    <3>2. /\ exp'[live + 1] = exp[live] /\ \A e \in Epoch : e # live + 1 => exp'[e] = exp[e]
      BY <1>2, <1>4, <2>1, <3>1
    <3> QED
      BY <1>2, <1>4, <1>6, <2>1, <3>1, <3>2, SMT, Z3, SMTT(9)
  <2>2. CASE tail.lease.epoch # live
    <3>1. e0 < live
      BY <1>4, <1>5, <1>6, <2>2, SMT, Z3, SMTT(9)
    <3>2. exp[e0] <= now \/ starting \/ e0 < expEpoch
      BY <1>1, <3>1 DEF ClockInv
    <3> QED
      BY <1>2, <1>4, <2>2, <3>1, <3>2, SMT, Z3, SMTT(9)
  <2> QED
    BY <2>1, <2>2
<1>8. ClockInv'
  <2>1. ASSUME NEW e \in Epoch
        PROVE  /\ e < live' => exp'[e] <= now \/ starting \/ e < expEpoch
               /\ exp'[e] <= Expiration
               /\ e <= live' => 1 < exp'[e]
               /\ expEpoch <= e /\ e <= live' => next < exp'[e]
    <3>1. CASE tail.lease.epoch = live
      <4>1. live' = live + 1 /\ exp[live] <= now /\ \A f \in Epoch : f # live + 1 => exp'[f] = exp[f]
        BY <1>2, <1>4, <3>1, SMT, Z3, SMTT(9)
      <4>2. CASE e = live + 1
        BY <1>1, <1>4, <1>7, <4>1, <4>2, SMT, Z3, SMTT(9) DEF ClockInv
      <4>3. CASE e # live + 1
        <5>1. exp'[e] = exp[e] /\ e \in Nat /\ live \in Nat /\ now \in Nat /\ live' = live + 1
          BY <1>4, <4>1, <4>3, Zenon
        <5>2. e < live' => e < live \/ e = live
          BY <5>1, SMT, Z3, SMTT(9)
        <5>3. e <= live' => e <= live
          BY <4>3, <5>1, SMT, Z3, SMTT(9)
        <5> QED
          BY <1>1, <4>1, <5>1, <5>2, <5>3, Zenon DEF ClockInv
      <4> QED
        BY <4>2, <4>3
    <3>2. CASE tail.lease.epoch # live
      BY <1>1, <1>2, <3>2 DEF ClockInv
    <3> QED
      BY <3>1, <3>2
  <2>2. ASSUME NEW e \in Epoch, NEW f \in Epoch, e <= f, f <= live' PROVE exp'[e] <= exp'[f]
    <3>1. CASE f <= live
      BY <1>1, <1>4, <1>7, <2>2, <3>1, SMT, Z3, SMTT(9) DEF ClockInv
    <3>2. CASE live < f /\ e <= live
      BY <1>1, <1>4, <1>7, <2>2, <3>2, SMT, Z3, SMTT(9) DEF ClockInv
    <3>3. CASE live < e
      BY <1>4, <1>7, <2>2, <3>3, SMT, Z3, SMTT(9)
    <3> QED
      BY <1>4, <3>1, <3>2, <3>3, SMT, Z3, SMTT(9)
  <2> QED
    BY <1>1, <1>2, <1>4, <2>1, <2>2 DEF ClockInv
<1>9. EntryInv'
  <2>1. ASSUME NEW e \in Epoch, e <= live' PROVE emitted[e].ts < exp'[e]
    <3>1. CASE e <= live
      BY <1>1, <1>7, <3>1 DEF EntryInv
    <3>2. CASE ~(e <= live)
      <4>1. e \in Nat /\ live \in Nat /\ known \in Nat /\ known <= live /\ live \in Epoch
        BY <1>4, Zenon
      <4>2. known < e /\ live <= live
        BY <3>2, <4>1, SMT, Z3, SMTT(9)
      <4>3. emitted[e].ts = 0 /\ exp'[e] = exp[live] /\ 1 < exp[live]
        BY <1>1, <1>7, <2>1, <3>2, <4>1, <4>2, Zenon DEF EntryInv, ClockInv
      <4> QED
        BY <1>4, <4>1, <4>3, SMT, Z3, SMTT(9)
    <3> QED
      BY <3>1, <3>2
  <2> QED
    BY <1>1, <1>2, <2>1 DEF EntryInv
<1>10. TrackerInv(b)'
  BY <1>1, <1>2, TrackerStays
<1>11. Calm
  BY <1>2, <1>4, <1>7, SMT, Z3, SMTT(9) DEF Calm
<1>12. Leases' = Leases /\ tail' = tail
  BY <1>1, <1>2, StepsStay
<1>13. PICK d : d = c
  OBVIOUS
<1>14. /\ d.kind = "request" /\ d.from = NoRange /\ d.seq = tail.lease.seq
       /\ d.lease.holder = "n2" /\ d.lease.start = start
  BY <1>13
\* Everything closed under this epoch, or an earlier one, was closed below the
\* start of the lease.
<1>15. Cov(d, e0)'
  <2> SUFFICES ASSUME NEW x \in entries, x.epoch <= e0 PROVE start + 1 > x.ts
    BY <1>2, <1>14 DEF Cov, Bound
  <2>1. /\ x.epoch \in Epoch /\ x.ts \in Nat /\ x.ts <= emitted[x.epoch].ts
        /\ emitted[x.epoch].ts <= now
    BY <1>1 DEF EntryInv
  <2>2. CASE tail.lease.epoch = live
    <3>1. emitted[x.epoch].ts < exp[x.epoch] /\ exp[x.epoch] <= exp[live]
      BY <1>1, <1>4, <1>6, <2>1, <2>2, SMT, Z3, SMTT(9) DEF EntryInv, ClockInv
    <3>2. exp[live] <= start
      BY <1>2, <2>2
    <3>3. /\ exp[live] \in Nat /\ exp[x.epoch] \in Nat /\ emitted[x.epoch].ts \in Nat
          /\ start \in Nat
      BY <1>4, <2>1, Zenon
    <3> QED
      BY <2>1, <3>1, <3>2, <3>3, SMT, Z3, SMTT(9)
  <2>3. CASE tail.lease.epoch # live
    <3>1. start = now /\ start \in Nat /\ emitted[x.epoch].ts \in Nat
      BY <1>2, <1>4, <2>1, <2>3, Zenon
    <3> QED
      BY <2>1, <3>1, SMT, Z3, SMTT(9)
  <2> QED
    BY <2>2, <2>3
<1>16. Enters(d, b)'
  <2>1. (d.seq <= tail.lease.seq)' /\ Author(d)'
    BY <1>1, <1>5, <1>12, <1>14, LeaseBySeq DEF Author
  <2>2. ASSUME NEW l \in Leases, l.seq = d.seq PROVE l.holder = "n1" /\ Fits(d, l, b)'
    <3>1. l.holder = "n1" /\ l.epoch = e0
      BY <1>1, <1>2, <1>5, <1>6, <1>14, <2>2, LeaseBySeq
    <3> QED
      BY <1>2, <1>7, <1>14, <1>15, <3>1 DEF Fits
  <2> QED
    BY <1>12, <2>1, <2>2 DEF Enters
<1> QED
  BY <1>2, <1>3, <1>8, <1>9, <1>10, <1>11, <1>13, <1>16, LivenessRead

\* The closer has emitted for the epoch e.  A command c of n1's whose caller
\* waits for it is above what was closed, or the follower is told of its index.
LEMMA CallerCovered ==
  ASSUME NEW b \in Nat, ReadInv(b), prop' = prop, IInv(b)', Bumped(b)',
         NEW e \in Epoch, b <= e, emitted'[e].ts \in Nat,
         NEW c \in RaftType, NEW l \in Leases, l.seq = c.seq, l.epoch \in Epoch, e <= l.epoch,
         NEW p \in Proposal, Is(c, cmd[p])
  PROVE  \/ Bound(c) > emitted'[e].ts
         \/ e = l.epoch /\ c.kind # "request" /\ c.lai <= emitted'[e].mlai[rangeID]
<1>1. LeaseInv /\ RangeTypeOK /\ PropInv /\ TypeOK
  BY Parts DEF LeaseInv
<1>2. /\ Sound(cmd[p], prop[p]) /\ cmd[p] \in CmdType
      /\ c.kind \in {"write", "transfer"} /\ cmd[p].kind = c.kind /\ cmd[p].lai = c.lai
  BY <1>1 DEF PropInv, RangeTypeOK, Is
<1>3. /\ cmd[p].ts \in Nat /\ prop[p].minProp \in Nat /\ prop[p].ts \in Nat
      /\ c.ts \in Nat /\ c.lease.start \in Nat
  BY <1>1, <1>2, TrackerNumbers DEF CmdType, RaftType, LeaseType
<1>4. prop[p].pc \in {"tracked", "released"} /\ prop[p].minProp <= Bound(c)
  BY <1>2 DEF Sound, Is, Bound, Limit
<1>5. cmd[p].ts <= Bound(c) /\ Bound(c) \in Nat
  BY <1>2, <1>3, SMT, Z3, SMTT(9) DEF Is, Bound
<1>6. cmd[p].lease = l
  BY <1>1, <1>2, LeaseLetIn, LeaseBySeq DEF Is
<1>7. PICK prm : prm = prop[p] /\ prm = prop'[p]
  OBVIOUS
<1>8. /\ prm.pc = "tracked" => emitted'[e].ts < prm.minProp
      /\ prm.pc = "released" /\ prm.epoch = e /\ prm.ts <= emitted'[e].ts
           => emitted'[e].mlai[prm.range] >= prm.lai
  BY <1>7, PromiseNext
<1>9. CASE prm.pc = "tracked"
  BY <1>3, <1>4, <1>5, <1>7, <1>8, <1>9, Order
<1>10. CASE prm.pc = "released"
  <2>1. /\ prm.epoch = l.epoch /\ prm.lai = c.lai /\ prm.range = rangeID
        /\ prm.ts = Max2(cmd[p].ts, prm.minProp)
    BY <1>2, <1>6, <1>7, <1>10 DEF Sound
  <2>2. prm.ts <= Bound(c)
    BY <1>4, <1>5, <1>7, <2>1 DEF Max2
  <2>3. CASE e < l.epoch
    <3>1. emitted'[e].ts < prm.minProp
      BY <1>7, <1>10, <2>1, <2>3 DEF Bumped
    <3> QED
      BY <1>3, <1>4, <1>5, <1>7, <3>1, Order
  <2>4. CASE e = l.epoch
    <3>1. CASE prm.ts <= emitted'[e].ts
      <4>1. emitted'[e].mlai[rangeID] >= c.lai
        BY <1>8, <1>10, <2>1, <2>4, <3>1
      <4> QED
        BY <1>2, <2>4, <4>1
    <3>2. CASE ~(prm.ts <= emitted'[e].ts)
      BY <1>3, <1>5, <1>7, <2>2, <3>2, Order
    <3> QED
      BY <3>1, <3>2
  <2>5. e \in Nat /\ l.epoch \in Nat
    BY <1>1, Numbers
  <2> QED
    BY <2>3, <2>4, <2>5, Order
<1> QED
  BY <1>4, <1>7, <1>9, <1>10

\* The closer closes a timestamp.  A command that is tracked evaluates above it,
\* one that was released is accounted for, the leases of n2 start later, and
\* whatever an earlier process has proposed is under an epoch that is over.
LEMMA RunCloserReads ==
  ASSUME PromptHeartbeat, NEW b \in Nat, ReadInv(b), NEW t \in TS, NEW e \in Epoch, RunCloser(t, e)
  PROVE  ReadInv(b)'
<1>1. /\ LeaseInv /\ RangeTypeOK /\ TypeOK /\ ClockInv /\ EntryInv /\ CacheInv /\ PropInv
      /\ StepInv /\ CommandInv(b) /\ TrackerInv(b) /\ IInv(b) /\ TimeInv
  BY Parts DEF LeaseInv
<1>2. /\ Target <= t /\ t <= now /\ t < exp[e] /\ e <= known /\ ~starting
      /\ Close(t - Target, e)
      /\ entries' = IF emitted' = emitted THEN entries ELSE
           entries \cup {[epoch |-> e, ts |-> emitted'[e].ts, mlai |-> emitted'[e].mlai[rangeID]]}
      /\ UNCHANGED <<now, nodeVars, pos, rangeVars>>
      /\ UNCHANGED <<live, exp, known, booted, starting, log, raft, cmd, lowWater>>
  BY DEF RunCloser, nodeVars, rangeVars
<1>3. /\ e >= expEpoch /\ expEpoch' = e /\ prop' = prop
      /\ next' = next \/ next' = t - Target
  BY <1>2 DEF Close, CloseOut, CloseIdempotent
<1>4. /\ now \in Nat /\ live \in Nat /\ known \in Nat /\ known <= live /\ booted \in Nat
      /\ next \in Nat /\ closed \in Nat /\ closed < next /\ expEpoch \in Nat /\ e \in Nat
      /\ \A f \in Epoch : f \in Nat /\ exp[f] \in Nat /\ emitted[f].ts \in Nat
      /\ t \in Nat /\ t - Target \in TS /\ t - Target \in Nat /\ Expiration' = Expiration
      /\ Target \in Nat \ {0}
  <2>1. t \in Nat /\ t - Target \in TS /\ t - Target \in Nat /\ Target \in Nat \ {0}
    BY <1>2, Constants, SMT, Z3, SMTT(9) DEF TS
  <2>2. Expiration' = Expiration
    BY <1>2 DEF Expiration
  <2>3. closed < next /\ known <= live
    BY <1>1 DEF IInv, RefCounts, TimeInv
  <2> QED
    BY <1>1, <2>1, <2>2, <2>3, Numbers, TrackerNumbers
<1>5. LeaseInv'
  BY <1>1, <1>2, UnchangedLeases
<1>6. PICK nxt \in TS : nxt = t - Target
  BY <1>4
<1>7. IInv(b)' /\ Bumped(b)'
  BY <1>1, <1>2, <1>6, CloseIInv, BumpedClose DEF TrackerInv
<1>8. TypeOK' /\ \A f \in Epoch : emitted'[f].ts \in Nat
  <2>1. TypeOK'
    BY <1>7 DEF IInv
  <2> QED
    BY <2>1, SMT, Z3, SMTT(9) DEF TypeOK, TS
<1>9. /\ \A f \in Epoch : f # e => emitted'[f] = emitted[f]
      /\ emitted'[e].ts = emitted[e].ts \/ emitted'[e].ts <= next
  <2>1. /\ \A f \in Epoch : f # e => emitted'[f] = emitted[f]
        /\ emitted'[e].ts \in {emitted[e].ts, next, closed}
    BY <1>1, <1>2, <1>6, CloseEmits
  <2> QED
    BY <1>4, <2>1, SMT, Z3, SMTT(9)
<1>10. ClockInv'
  <2>1. /\ booted <= lowWater /\ (next = 1 \/ next + Target <= now)
        /\ \A f \in Epoch :
             /\ f < live => exp[f] <= now \/ starting \/ f < expEpoch
             /\ exp[f] <= Expiration /\ (f <= live => 1 < exp[f])
             /\ expEpoch <= f /\ f <= live => next < exp[f]
        /\ \A f, g \in Epoch : f <= g /\ g <= live => exp[f] <= exp[g]
    BY <1>1 DEF ClockInv
  <2>2. next' = 1 \/ next' + Target <= now
    BY <1>2, <1>3, <1>4, <2>1, SMT, Z3, SMTT(9)
  <2>3. ASSUME NEW f \in Epoch, e <= f, f <= live PROVE next' < exp[f]
    <3>1. exp[e] <= exp[f] /\ next < exp[f]
      <4>1. expEpoch <= f
        BY <1>3, <1>4, <2>3, Order
      <4> QED
        BY <2>1, <2>3, <4>1
    <3> QED
      BY <1>2, <1>3, <1>4, <3>1, SMT, Z3, SMTT(9)
  <2>4. \A f \in Epoch : f < live => exp[f] <= now \/ starting \/ f < e
    BY <1>3, <1>4, <2>1, SMT, Z3, SMTT(9)
  <2> QED
    BY <1>2, <1>3, <1>4, <2>1, <2>2, <2>3, <2>4 DEF ClockInv
<1>11. \A d \in entries' :
         d \in entries \/ (d.epoch = e /\ d.ts = emitted'[e].ts /\ d.mlai = emitted'[e].mlai[rangeID])
  BY <1>2, SMT, Z3, SMTT(9)
<1>12. emitted'[e].mlai[rangeID] \in 0 .. MaxLAI
  BY <1>8, RangeIDIn DEF TypeOK, MLAI
<1>13. EntryInv'
  <2>1. ASSUME NEW f \in Epoch
        PROVE  /\ known < f => emitted'[f].ts = 0
               /\ emitted'[f].ts <= now
               /\ f <= live => emitted'[f].ts < exp[f]
    <3>1. CASE f # e
      BY <1>1, <1>9, <3>1 DEF EntryInv
    <3>2. CASE f = e
      <4>1. next <= now /\ next < exp[e]
        BY <1>1, <1>2, <1>3, <1>4, Constants, SMT, Z3, SMTT(9) DEF ClockInv, TimeInv
      <4>2. /\ ~(known < e) /\ emitted[e].ts <= now
            /\ e <= live => emitted[e].ts < exp[e]
        BY <1>1, <1>2, <1>4, Order DEF EntryInv
      <4>3. emitted'[e].ts = emitted[e].ts \/ emitted'[e].ts <= next
        BY <1>9
      <4>4. /\ emitted'[e].ts \in Nat /\ next \in Nat /\ now \in Nat /\ exp[e] \in Nat
        BY <1>4, <1>8
      <4> QED
        BY <3>2, <4>1, <4>2, <4>3, <4>4, SMT, Z3, SMTT(9)
    <3> QED
      BY <3>1, <3>2
  <2>2. \A f \in Epoch : emitted[f].ts <= emitted'[f].ts
    BY <1>1, <1>2, <1>6, CloseEmits
  <2>3. ASSUME NEW d \in entries'
        PROVE  /\ d.epoch \in Epoch /\ d.epoch <= known /\ d.mlai \in 0 .. MaxLAI
               /\ d.ts \in Nat /\ d.ts <= emitted'[d.epoch].ts
    <3>1. CASE d \in entries
      <4>1. /\ d.epoch \in Epoch /\ d.epoch <= known /\ d.mlai \in 0 .. MaxLAI
            /\ d.ts \in Nat /\ d.ts <= emitted[d.epoch].ts
        BY <1>1, <3>1 DEF EntryInv
      <4> QED
        BY <1>4, <1>8, <2>2, <4>1, SMT, Z3, SMTT(9)
    <3>2. CASE d.epoch = e /\ d.ts = emitted'[e].ts /\ d.mlai = emitted'[e].mlai[rangeID]
      BY <1>2, <1>8, <1>12, <3>2, SMT, Z3, SMTT(9)
    <3> QED
      BY <1>11, <3>1, <3>2
  <2> QED
    BY <1>2, <2>1, <2>3 DEF EntryInv
<1>14. StepInv' /\ \A i \in 0 .. Len(log) : L(i)' = L(i)
  BY <1>1, <1>2, StepsStay
<1>15. CacheInv' /\ PropInv'
  <2>1. Len(log) \in Nat /\ pos \in 0 .. Len(log)
    BY <1>1, States
  <2>2. \A i \in 0 .. pos : i \in 0 .. Len(log)
    BY <2>1, SMT, Z3, SMTT(9)
  <2> QED
    BY <1>1, <1>2, <1>3, <1>14, <2>2, CacheStays, PropStays
<1>16. b <= e /\ TrackerInv(b)'
  <2>1. b <= expEpoch
    BY <1>1, <1>2 DEF TrackerInv
  <2>2. b <= e
    BY <1>3, <1>4, <2>1, SMT, Z3, SMTT(9)
  <2> QED
    BY <1>1, <1>2, <1>3, <1>7, <1>11, <2>2 DEF TrackerInv
<1>17. ASSUME NEW c \in Commands, NEW l \in Leases, l.seq = c.seq, l.holder = "n1",
              c.kind = "write" \/ c.lease.holder = "n2"
       PROVE  Cov(c, l.epoch)'
  <2>0. /\ c \in RaftType /\ Author(c) /\ Fits(c, l, b) /\ l.epoch \in Epoch /\ l.epoch <= live
        /\ l.epoch \in Nat /\ c.lease.start \in Nat /\ c.ts \in Nat
    <3>2. c \in RaftType
      BY <1>1, CommandTypes
    <3>3. Author(c) /\ Fits(c, l, b) /\ l.epoch \in Epoch /\ l.epoch <= live
      BY <1>1, <1>17, LeaseBySeq DEF CommandInv, InRange
    <3> QED
      BY <1>4, <3>2, <3>3 DEF RaftType, LeaseType
  <2>1. Cov(c, l.epoch)
    BY <1>17, <2>0 DEF Fits
  <2>2. ASSUME e <= l.epoch
        PROVE  \/ Bound(c) > emitted'[e].ts
               \/ e = l.epoch /\ c.kind # "request" /\ c.lai <= emitted'[e].mlai[rangeID]
    <3>1. CASE c.from = NoRange
      <4>1. exp[l.epoch] <= c.lease.start \/ starting \/ l.epoch < expEpoch
        BY <1>17, <2>0, <3>1 DEF Fits
      <4>2. exp[l.epoch] <= c.lease.start /\ c.kind = "request"
        <5>1. ~(l.epoch < expEpoch)
          <6>1. e >= expEpoch /\ e \in Nat /\ expEpoch \in Nat /\ l.epoch \in Nat
            BY <1>3, <1>4, <2>0
          <6> QED
            BY <2>2, <6>1, SMT, Z3, SMTT(9)
        <5>2. c.kind = "request" /\ ~starting
          BY <1>2, <1>17, <2>0, <3>1 DEF Fits
        <5> QED
          BY <4>1, <5>1, <5>2
      <4>3. emitted'[e].ts < exp[e] /\ exp[e] <= exp[l.epoch]
        <5>1. e \in Epoch /\ e <= live
          BY <1>4, <2>0, <2>2, SMT, Z3, SMTT(9)
        <5>2. exp[e] <= exp[l.epoch]
          BY <1>1, <2>0, <2>2, <5>1, Zenon DEF ClockInv
        <5>3. emitted'[e].ts < exp[e]
          BY <1>2, <1>3, <1>13, <5>1, Zenon DEF EntryInv, nodeVars
        <5> QED
          BY <5>2, <5>3
      <4> QED
        BY <1>4, <1>8, <2>0, <4>2, <4>3, SMT, Z3, SMTT(9) DEF Bound
    <3>2. CASE c.from # NoRange /\ cmd[c.from].kind = "dead"
      <4>1. l.epoch < b
        BY <2>0, <3>2 DEF Fits
      <4>2. b <= e /\ e \in Nat /\ l.epoch \in Nat
        BY <1>4, <1>16, <2>0
      <4> QED
        BY <2>2, <4>1, <4>2, SMT, Z3, SMTT(9)
    <3>3. CASE c.from # NoRange /\ Is(c, cmd[c.from])
      <4>1. PICK p \in Proposal : p = c.from
        BY <2>0, <3>3 DEF RaftType
      <4> QED
        BY <1>3, <1>7, <1>8, <1>16, <1>17, <2>0, <2>2, <3>3, <4>1, CallerCovered
    <3> QED
      BY <2>0, <3>1, <3>2, <3>3 DEF Author
  <2> SUFFICES ASSUME NEW d \in entries', d.epoch <= l.epoch
               PROVE  Bound(c) > d.ts \/ (d.epoch = l.epoch /\ c.kind # "request" /\ c.lai <= d.mlai)
    BY DEF Cov, Bound
  <2>3. CASE d \in entries
    BY <2>1, <2>3 DEF Cov
  <2>4. CASE d.epoch = e /\ d.ts = emitted'[e].ts /\ d.mlai = emitted'[e].mlai[rangeID]
    BY <2>2, <2>4
  <2> QED
    BY <1>11, <2>3, <2>4
<1>18. CommandInv(b)'
  <2>1. Calm /\ SettledStay
    <3>1. SettledStay
      BY <1>2 DEF SettledStay, Same
    <3>2. ASSUME NEW f \in Epoch, f < expEpoch PROVE f < expEpoch'
      <4>1. f \in Nat /\ expEpoch \in Nat /\ e \in Nat
        BY <1>4
      <4> QED
        BY <1>3, <3>2, <4>1, SMT, Z3, SMTT(9)
    <3> QED
      BY <1>2, <1>4, <3>1, <3>2, Later DEF Calm
  <2> QED
    BY <1>1, <1>2, <1>5, <1>17, <2>1, CommandStep
<1> QED
  BY <1>5, <1>10, <1>13, <1>14, <1>15, <1>16, <1>18 DEF ReadInv

LEMMA WriteN2Reads ==
  ASSUME NEW b \in Nat, ReadInv(b), NEW ts \in TS, WriteN2(ts) PROVE ReadInv(b)'
<1>1. LeaseInv
  BY Parts
<1>2. /\ tail.lai < MaxLAI /\ tail.lease.holder = "n2" /\ ts > tail.lease.start
      /\ UNCHANGED <<vars, now, nodeVars, pos, raft, cmd, lowWater, entries>>
  BY DEF WriteN2
<1>3. PICK r : /\ r = [kind |-> "write", from |-> NoRange, seq |-> tail.lease.seq,
                       lai |-> tail.lai + 1, ts |-> ts, lease |-> NoLease]
               /\ log' = Append(log, LogEntry(r, TRUE, FALSE))
  BY DEF WriteN2
<1>4. tail.lease \in LeaseType /\ tail.lease.seq \in Nat /\ tail.lai \in Nat /\ tail.lai + 1 \in LAI
      /\ tail.lai + 1 \in 0 .. MaxLAI /\ ts \in Nat
  BY <1>1, <1>2, TailType, Constants, SMT, Z3, SMTT(9) DEF LAI, TS
<1>5. /\ r \in RaftType /\ r.kind = "write" /\ r.lai = tail.lai + 1 /\ r.from = NoRange
      /\ r.seq = tail.lease.seq /\ r.ts = ts
  BY <1>3, <1>4, FirstStateType DEF RaftType
<1>6. PICK x \in EntryType : /\ x = LogEntry(r, TRUE, FALSE) /\ x.after.lease = tail.lease
                             /\ x.cmd = r /\ x.ok = TRUE /\ x.after.lai = r.lai
  BY <1>1, <1>4, <1>5, LogEntryType
<1>7. log' = Append(log, x)
  BY <1>3, <1>6
<1>8. Does(x)
  <2>1. tail.lease.start \in Nat
    BY <1>4, SMT, Z3, SMTT(9) DEF LeaseType
  <2>2. tail.lease.start < ts /\ tail.lai < tail.lai + 1 /\ tail.lai <= tail.lai + 1
    BY <1>2, <1>4, <2>1, SMT, Z3, SMTT(9)
  <2> QED
    BY <1>5, <1>6, <2>2, Zenon DEF Does
<1> QED
  BY <1>1, <1>2, <1>5, <1>6, <1>7, <1>8, WriteN2Leases, AppendRead

LEMMA TransferN2Reads ==
  ASSUME NEW b \in Nat, ReadInv(b), NEW start \in TS, NEW epoch \in Epoch, TransferN2(start, epoch)
  PROVE  ReadInv(b)'
<1>1. LeaseInv
  BY Parts
<1>2. /\ tail.lease.holder = "n2" /\ tail.lai < MaxLAI
      /\ UNCHANGED <<vars, now, nodeVars, pos, raft, cmd, lowWater, entries>>
  BY DEF TransferN2
<1>3. PICK m : m = [seq |-> tail.lease.seq + 1, holder |-> "n1", epoch |-> epoch,
                    start |-> start, no |-> leases + 1]
  OBVIOUS
<1>4. PICK r : /\ r = [kind |-> "transfer", from |-> NoRange, seq |-> tail.lease.seq,
                       lai |-> tail.lai + 1, ts |-> 0, lease |-> m]
               /\ log' = Append(log, LogEntry(r, TRUE, FALSE))
  BY <1>3 DEF TransferN2
<1>5. /\ tail.lease \in LeaseType /\ tail.lease.seq \in Nat /\ tail.lai \in Nat
      /\ tail.lai + 1 \in LAI /\ tail.lai + 1 \in 0 .. MaxLAI
      /\ start \in Nat /\ epoch \in Nat /\ leases \in Nat
  BY <1>1, <1>2, TailType, Numbers, Constants, SMT, Z3, SMTT(9) DEF LeaseInv, LAI, TS
<1>6. m \in LeaseType /\ m.seq = tail.lease.seq + 1
  <2>1. tail.lease.seq + 1 \in Nat /\ leases + 1 \in Nat
    BY <1>5, SMT, Z3, SMTT(9)
  <2> QED
    BY <1>3, <1>5, <2>1 DEF LeaseType
<1>7. /\ r \in RaftType /\ r.kind = "transfer" /\ r.lai = tail.lai + 1 /\ r.lease = m
      /\ r.from = NoRange /\ r.seq = tail.lease.seq
  BY <1>4, <1>5, <1>6 DEF RaftType
<1>8. PICK x \in EntryType : /\ x = LogEntry(r, TRUE, FALSE) /\ x.after.lease = m
                             /\ x.cmd = r /\ x.ok = TRUE /\ x.after.lai = r.lai
  BY <1>1, <1>5, <1>6, <1>7, LogEntryType
<1>9. log' = Append(log, x)
  BY <1>4, <1>8
<1>10. Does(x)
  <2>1. tail.lai < tail.lai + 1 /\ tail.lai <= tail.lai + 1
    BY <1>5, SMT, Z3, SMTT(9)
  <2> QED
    BY <1>2, <1>7, <1>8, <2>1, Zenon DEF Does
<1> QED
  BY <1>1, <1>2, <1>6, <1>7, <1>8, <1>9, <1>10, TransferN2Leases, AppendRead

LEMMA CommitReads ==
  ASSUME NEW b \in Nat, ReadInv(b), NEW c \in raft, Commit(c) PROVE ReadInv(b)'
<1>1. LeaseInv /\ CommandInv(b)
  BY Parts
<1>2. /\ raft' = raft \ {c}
      /\ UNCHANGED <<vars, now, nodeVars, pos, cmd, lowWater, entries>>
  BY DEF Commit
<1>3. PICK err : /\ err = checkForcedErr(c, tail)
                 /\ log' = Append(log, LogEntry(c, ~err.mismatch /\ ~err.illegal,
                                                   ~err.mismatch /\ err.illegal))
  BY DEF Commit
<1>4. PICK ok \in BOOLEAN, retry \in BOOLEAN :
        /\ ok = (~err.mismatch /\ ~err.illegal) /\ retry = (~err.mismatch /\ err.illegal)
  OBVIOUS
<1>5. /\ tail.lease \in LeaseType /\ tail.lai \in LAI /\ tail.lai \in Nat
      /\ c \in RaftType /\ c.lease \in LeaseType /\ c.lai \in 0 .. MaxLAI /\ c.lai \in Nat
      /\ tail.lease = L(Len(log)) /\ Len(log) \in 0 .. Len(log)
  <2>1. c \in RaftType
    BY <1>1, Zenon DEF LeaseInv, RangeTypeOK
  <2>2. c.lease \in LeaseType /\ c.lai \in 0 .. MaxLAI
    BY <2>1, SMT, Z3, SMTT(9) DEF RaftType
  <2>3. tail.lease \in LeaseType /\ tail.lai \in LAI
    BY <1>1, TailType
  <2>4. c.lai \in Nat /\ tail.lai \in Nat
    BY <2>2, <2>3, Constants, SMT, Z3, SMTT(9) DEF LAI
  <2>5. tail.lease = L(Len(log)) /\ Len(log) \in Nat
    BY <1>1, States, Zenon DEF LeaseInv
  <2>6. Len(log) \in 0 .. Len(log)
    BY <2>5, SMT, Z3, SMTT(9)
  <2> QED
    BY <2>1, <2>2, <2>3, <2>4, <2>5, <2>6, Zenon
<1>6. ok => c.seq = tail.lease.seq /\ (c.kind # "request" => c.lai > tail.lai)
  <2>1. ok => ~err.mismatch /\ ~err.illegal
    BY <1>4
  <2>2. err.mismatch = (c.seq # tail.lease.seq)
        /\ err.illegal = (c.kind # "request" /\ c.lai <= tail.lai)
    BY <1>3 DEF checkForcedErr
  <2>3. ok => c.seq = tail.lease.seq /\ ~(c.kind # "request" /\ c.lai <= tail.lai)
    BY <2>1, <2>2, Zenon
  <2> QED
    BY <1>5, <2>3, SMT, Z3, SMTT(9)
<1>7. ok /\ c.kind # "request" => c.lai \in LAI
  BY <1>5, <1>6, Constants, SMT, Z3, SMTT(9) DEF LAI
<1>8. PICK x \in EntryType :
        /\ x = LogEntry(c, ok, retry) /\ x.cmd = c /\ x.ok = ok
        /\ x.after.lai = IF ok /\ c.kind # "request" THEN c.lai ELSE tail.lai
        /\ x.after.lease = IF ok /\ c.kind # "write" THEN c.lease ELSE tail.lease
  BY <1>1, <1>5, <1>7, LogEntryType, SMT, Z3, SMTT(9)
<1>9. log' = Append(log, x)
  BY <1>3, <1>4, <1>8
\* The lease the command was proposed under is n1's.
<1>10. ok => Fits(c, tail.lease, b)
  <2>1. tail.lease \in Leases /\ c \in Commands
    BY <1>5 DEF Leases, Commands
  <2> QED
    BY <1>1, <1>6, <2>1 DEF CommandInv
<1>11. Does(x)
  <2>1. tail.lai <= x.after.lai
    BY <1>5, <1>6, <1>8, SMT, Z3, SMTT(9)
  <2>2. c.lease.holder \in {"n1", "n2"}
    BY <1>5 DEF LeaseType
  <2> QED
    BY <1>5, <1>6, <1>8, <1>10, <2>1, <2>2 DEF Does, Fits
<1>12. x.after.lease = tail.lease \/ x.after.lease.seq = tail.lease.seq + 1
  BY <1>1, <1>6, <1>8 DEF LeaseInv, RaftInv, Proposed
<1> QED
  BY <1>1, <1>2, <1>8, <1>9, <1>11, <1>12, CommitLeases, AppendRead

LEMMA ApplyReads ==
  ASSUME NEW b \in Nat, ReadInv(b), NEW q \in Proposal \cup {NoRange}, Apply(q) PROVE ReadInv(b)'
<1>0. PICK e, p : e = log[pos + 1] /\ p = e.cmd.from
  OBVIOUS
<1> DEFINE local == p # NoRange /\ cmd[p].kind # "dead"
<1>1. /\ LeaseInv /\ RangeTypeOK /\ ClockInv /\ EntryInv /\ CacheInv /\ PropInv
      /\ StepInv /\ CommandInv(b) /\ TrackerInv(b)
  BY Parts
<1>2. /\ pos < Len(log) /\ pos' = pos + 1 /\ lowWater' = leasePostApply(e)
      /\ UNCHANGED <<vars, now, nodeVars, log, raft, entries>>
      /\ UNCHANGED <<prop, expEpoch, next, emitted, booted, starting, live, exp>>
      /\ \/ UNCHANGED cmd
         \/ local /\ cmd' = [cmd EXCEPT ![p].latched = FALSE]
         \/ /\ local /\ q \in Proposal /\ Idle(q)
            /\ cmd' = [cmd EXCEPT ![p].latched = FALSE,
                                  ![q] = [cmd[p] EXCEPT !.lai = 0, !.again = TRUE]]
  BY <1>0 DEF Apply, vars, nodeVars
<1>3. LeaseInv' /\ RangeTypeOK'
  BY <1>1, ApplyLeases DEF LeaseInv
<1>4. /\ e \in EntryType /\ pos + 1 \in 1 .. Len(log) /\ pos + 1 \in 0 .. Len(log) /\ pos \in Nat
      /\ L(pos + 1) = e.after.lease
  <2>1. log \in Seq(EntryType) /\ pos \in Nat /\ Len(log) \in Nat /\ pos < Len(log)
    BY <1>1, <1>2, States, Zenon DEF RangeTypeOK
  <2>2. pos + 1 \in 1 .. Len(log) /\ pos + 1 \in 0 .. Len(log) /\ pos + 1 # 0
    BY <2>1, SMT, Z3, SMTT(9)
  <2>3. log[pos + 1] \in EntryType
    BY <2>1, <2>2, SMT, Z3, SMTT(9)
  <2>4. L(pos + 1) = log[pos + 1].after.lease
    BY <2>2, Zenon DEF L, After
  <2> QED
    BY <1>0, <2>1, <2>2, <2>3, <2>4, Zenon
<1>5. e.cmd \in Commands /\ e.cmd \in RaftType
  BY <1>0, <1>4 DEF Commands, EntryType
<1>6. e.after.lease.start \in Nat /\ lowWater \in Nat
  BY <1>1, <1>4, Numbers DEF EntryType, StateType, LeaseType
<1>7. /\ lowWater <= lowWater' /\ lowWater' \in Nat
      /\ e.ok /\ e.cmd.kind # "write" /\ e.after.lease.holder = "n1" =>
           e.after.lease.start <= lowWater'
  <2>1. lowWater' = leasePostApply(e)
    BY <1>2, Zenon
  <2> QED
    BY <1>6, <2>1, SMT, Z3, SMTT(9) DEF leasePostApply, Max2
<1>8. StepInv' /\ \A i \in 0 .. Len(log) : L(i)' = L(i)
  BY <1>1, <1>2, StepsStay
<1>9. CacheInv'
  <2> SUFFICES ASSUME NEW i \in 0 .. pos + 1, L(i).holder = "n1" PROVE L(i).start <= lowWater'
    BY <1>2, <1>4, <1>8, SMT, Z3, SMTT(9) DEF CacheInv
  <2>1. \A j \in 0 .. pos : L(j).holder = "n1" => L(j).start <= lowWater'
    <3> SUFFICES ASSUME NEW j \in 0 .. pos, L(j).holder = "n1" PROVE L(j).start <= lowWater'
      OBVIOUS
    <3>1. L(j).start \in Nat /\ L(j).start <= lowWater
      BY <1>1, States, SMT, Z3, SMTT(9) DEF CacheInv
    <3> QED
      BY <1>6, <1>7, <3>1, SMT, Z3, SMTT(9)
  <2>2. CASE i = pos + 1
    <3>1. CASE e.ok /\ e.cmd.kind # "write"
      BY <1>4, <1>7, <2>2, <3>1
    <3>2. CASE ~(e.ok /\ e.cmd.kind # "write")
      <4>1. Step(i) /\ i - 1 = pos /\ pos \in 0 .. pos
        BY <1>1, <1>4, <2>2, SMT, Z3, SMTT(9) DEF StepInv
      <4>2. L(i) = L(pos)
        BY <1>0, <2>2, <3>2, <4>1 DEF Step
      <4> QED
        BY <2>1, <4>1, <4>2
    <3> QED
      BY <3>1, <3>2
  <2> QED
    BY <1>4, <2>1, <2>2, SMT, Z3, SMTT(9)
<1>10. ClockInv' /\ EntryInv' /\ TrackerInv(b)'
  BY <1>1, <1>2, <1>3, <1>7, ClockStays, EntryStays, TrackerStays
<1>11. local => p \in Proposal /\ Is(e.cmd, cmd[p])
  BY <1>0, <1>1, <1>5 DEF CommandInv, Author, RaftType
\* A caller that is done keeps what it has proposed; the one that tries again
\* keeps the timestamp.
<1>12. PropInv' /\ SettledStay
  <2>0. cmd \in [Proposal -> CmdType] /\ \A r \in Proposal : cmd[r] \in CmdType
    BY <1>1 DEF RangeTypeOK
  <2>1. CASE UNCHANGED cmd
    BY <1>1, <1>2, <2>1, PropStays DEF SettledStay, Same
  <2>2. ASSUME local
        PROVE  LET d == [cmd[p] EXCEPT !.latched = FALSE] IN
               Same(cmd[p], d) /\ d.again = cmd[p].again
    BY <1>11, <2>0, <2>2, Reworked DEF Same, Like, CmdType
  <2>3. CASE local /\ cmd' = [cmd EXCEPT ![p].latched = FALSE]
    <3>1. /\ Same(cmd[p], cmd'[p]) /\ cmd'[p].again = cmd[p].again
          /\ \A r \in Proposal \ {p} : cmd'[r] = cmd[r]
      BY <1>11, <2>0, <2>2, <2>3
    <3>2. Sound(cmd[p], prop[p])
      BY <1>1, <1>11, <2>3 DEF PropInv
    <3>3. Sound(cmd[p], prop[p])'
      BY <1>2, <3>1, <3>2 DEF Sound, Same, Limit
    <3> QED
      BY <1>1, <1>2, <1>11, <2>3, <3>1, <3>3, PropStep DEF SettledStay, Same
  <2>4. CASE /\ local /\ q \in Proposal /\ Idle(q)
             /\ cmd' = [cmd EXCEPT ![p].latched = FALSE,
                                   ![q] = [cmd[p] EXCEPT !.lai = 0, !.again = TRUE]]
    <3>0. p \in Proposal /\ p # q /\ cmd[p].kind \in {"write", "transfer"} /\ cmd[p].lai # 0
      BY <1>11, <2>4 DEF Is, Idle
    <3>1. /\ Same(cmd[p], cmd'[p]) /\ cmd'[p].again = cmd[p].again
          /\ \A r \in Proposal \ {p, q} : cmd'[r] = cmd[r]
          /\ cmd'[q] = [cmd[p] EXCEPT !.lai = 0, !.again = TRUE]
      BY <2>0, <2>2, <2>4, <3>0
    <3>2. /\ cmd'[q].kind = cmd[p].kind /\ cmd'[q].lease = cmd[p].lease /\ cmd'[q].ts = cmd[p].ts
          /\ cmd'[q].lai = 0 /\ cmd'[q].again
      BY <2>0, <3>0, <3>1 DEF CmdType
    <3>3. Sound(cmd[p], prop[p]) /\ Sound(cmd[q], prop[q])
      BY <1>1, <2>4, <3>0 DEF PropInv
    <3>4. Sound(cmd[p], prop[p])'
      BY <1>2, <3>1, <3>3 DEF Sound, Same, Limit
    <3>5. Sound(cmd[q], prop[q])'
      BY <1>2, <2>4, <3>0, <3>2, <3>3 DEF Sound, Idle
    <3>6. PropInv'
      <4> SUFFICES ASSUME NEW r \in Proposal, r \notin {p, q} PROVE Sound(cmd[r], prop[r])'
        BY <3>4, <3>5 DEF PropInv
      <4> QED
        BY <1>1, <1>2, <3>1 DEF PropInv, Sound
    <3>7. SettledStay
      BY <2>4, <3>0, <3>1 DEF SettledStay, Settled, Same, Idle
    <3> QED
      BY <3>6, <3>7
  <2> QED
    BY <1>2, <2>1, <2>3, <2>4
<1>13. CommandInv(b)'
  <2>1. Calm
    BY <1>1, <1>2, Numbers, SMT, Z3, SMTT(9) DEF Calm
  <2> QED
    BY <1>1, <1>2, <1>3, <1>12, <2>1, CommandStep
<1> QED
  BY <1>3, <1>8, <1>9, <1>10, <1>12, <1>13 DEF ReadInv

LEMMA UnchangedReads ==
  ASSUME NEW b \in Nat, ReadInv(b), UNCHANGED allVars PROVE ReadInv(b)'
<1>1. /\ LeaseInv /\ RangeTypeOK /\ PropInv /\ TrackerInv(b)
  BY Parts
<1>2. /\ UNCHANGED <<vars, now, nodeVars, log, pos, lowWater, entries, expEpoch, next, emitted>>
      /\ UNCHANGED <<prop, booted, starting, cmd, raft>>
  BY DEF allVars, vars, nodeVars, rangeVars
<1>3. LeaseInv'
  BY <1>1, NextLeases
<1>4. PropInv' /\ TrackerInv(b)' /\ SettledStay
  BY <1>1, <1>2, PropStays, TrackerStays DEF SettledStay, Same
<1> QED
  BY <1>2, <1>3, <1>4, QuietRead

LEMMA InitReads == RangeInit => ReadInv(1)
<1> SUFFICES ASSUME RangeInit PROVE ReadInv(1)
  OBVIOUS
<1>1. LeaseInv
  BY InitLeases
<1>2. /\ now = Target /\ live = 1 /\ known = 1 /\ log = <<>> /\ pos = 0 /\ raft = {}
      /\ cmd = [p \in Proposal |-> NoCmd] /\ booted = 0 /\ starting = FALSE /\ lowWater = 0
      /\ exp = [e \in Epoch |-> IF e = 1 THEN Expiration ELSE 0] /\ entries = {}
      /\ Init
  BY DEF RangeInit
<1>3. IInv(1)
  BY <1>2, InitIInv
<1>4. /\ next = 1 /\ expEpoch = 1 /\ \A e \in Epoch : emitted[e].ts = 0
      /\ \A p \in Proposal : prop[p].pc = "idle"
  BY <1>2 DEF Init
<1>5. /\ Target \in Nat /\ 1 <= Target /\ Expiration \in Nat /\ 1 < Expiration /\ 1 \in Epoch
      /\ \A e \in Epoch : e \in Nat /\ 1 <= e
  BY <1>2, Constants, SMT, Z3, SMTT(9) DEF Expiration, Epoch
<1>6. ClockInv
  <2>1. ASSUME NEW e \in Epoch
        PROVE  /\ ~(e < live) /\ exp[e] <= Expiration /\ exp[e] \in Nat
               /\ e <= live => e = 1 /\ exp[e] = Expiration
    BY <1>2, <1>5, SMT, Z3, SMTT(9)
  <2> QED
    BY <1>2, <1>4, <1>5, <2>1, SMT, Z3, SMTT(9) DEF ClockInv
<1>7. EntryInv
  BY <1>2, <1>4, <1>5, SMT, Z3, SMTT(9) DEF EntryInv
<1>8. Len(log) = 0 /\ L(0) = NoLease /\ tail.lease = NoLease /\ NoLease.start = 0
  BY <1>2 DEF L, After, tail, NoLease, FirstState
<1>9. CacheInv
  BY <1>2, <1>8, SMT, Z3, SMTT(9) DEF CacheInv
<1>10. PropInv
  <2> SUFFICES ASSUME NEW p \in Proposal PROVE Sound(cmd[p], prop[p])
    BY DEF PropInv
  <2>1. cmd[p] = NoCmd /\ prop[p].pc = "idle"
    BY <1>2, <1>4
  <2>2. NoCmd.kind = "none" /\ NoCmd.ts = 0 /\ NoCmd.lai = 0 /\ NoCmd.again = FALSE
    BY DEF NoCmd
  <2> QED
    BY <2>1, <2>2, Constants, SMT, Z3, SMTT(9) DEF Sound
<1>11. StepInv
  <2>1. \A i \in 0 .. Len(log) : i = 0
    BY <1>8, SMT, Z3, SMTT(9)
  <2>2. After(0).lai = 1 /\ L(0).epoch = 1
    BY <1>8, SMT, Z3, SMTT(9) DEF After, FirstState, NoLease
  <2> QED
    BY <1>8, <2>1, <2>2, SMT, Z3, SMTT(9) DEF StepInv, Follows
<1>12. CommandInv(1)
  BY <1>2, <1>8, SMT, Z3, SMTT(9) DEF CommandInv, Commands
<1>13. TrackerInv(1)
  BY <1>2, <1>3, <1>4, SMT, Z3, SMTT(9) DEF TrackerInv, Bumped
<1> QED
  BY <1>1, <1>6, <1>7, <1>9, <1>10, <1>11, <1>12, <1>13 DEF ReadInv

SomeReadInv == \E b \in 1 .. MaxEpoch + 1 : ReadInv(b)

LEMMA NextReads ==
  ASSUME PromptLatches, PromptHeartbeat, SomeReadInv, [RangeNext]_allVars PROVE SomeReadInv'
<1>1. PICK b \in 1 .. MaxEpoch + 1 : ReadInv(b)
  BY DEF SomeReadInv
<1>2. b \in Nat
  BY Constants, SMT, Z3, SMTT(9)
<1> SUFFICES ASSUME ~SomeReadInv' PROVE FALSE
  OBVIOUS
<1> HIDE DEF SomeReadInv
<1>3. ~ReadInv(b)'
  BY DEF SomeReadInv
<1>4. ~Tick /\ ~Heartbeat /\ ~Cancel /\ ~JoinTransfer /\ ~RequestLease
  BY <1>1, <1>2, <1>3, TickReads, HeartbeatReads, CancelReads, JoinTransferReads, RequestLeaseReads
<1>5. ~FirstHeartbeat /\ ~Restart
  <2>1. FirstHeartbeat \/ Restart => \E n \in 1 .. MaxEpoch + 1 : ReadInv(n)'
    BY <1>1, FirstHeartbeatReads, RestartReads, SMT, Z3, SMTT(9)
  <2> QED
    BY <2>1 DEF SomeReadInv
<1>6. \A t \in TS, e \in Epoch : ~RunCloser(t, e)
  BY <1>1, <1>2, <1>3, RunCloserReads
<1>7. \A p \in Proposal : /\ ~Admit(p) /\ ~AdminTransferLease(p) /\ ~EmitMLAI(p)
                          /\ ~LatchAndTrack(p) /\ ~Untrack(p) /\ ~Fail(p)
  BY <1>1, <1>2, <1>3, AdmitReads, AdminTransferLeaseReads, EmitMLAIReads, LatchAndTrackReads,
     UntrackReads, FailReads
<1>8. \A p \in Proposal, ts \in TS, lai \in LAI : ~ProposeWrite(p, ts, lai)
  BY <1>1, <1>2, <1>3, ProposeWriteReads
<1>9. \A p \in Proposal, lai \in LAI : ~ProposeTransfer(p, lai)
  BY <1>1, <1>2, <1>3, ProposeTransferReads
<1>10. \A start \in TS : ~(start <= now /\ RequestLeaseN2(start))
  BY <1>1, <1>2, <1>3, RequestLeaseN2Reads
<1>11. /\ \A ts \in TS : ~WriteN2(ts)
       /\ \A ts \in TS, e \in Epoch : ~TransferN2(ts, e)
  BY <1>1, <1>2, <1>3, WriteN2Reads, TransferN2Reads
<1>12. /\ \A c \in raft : ~Commit(c)
       /\ \A q \in Proposal \cup {NoRange} : ~Apply(q)
  BY <1>1, <1>2, <1>3, CommitReads, ApplyReads
<1>13. ~UNCHANGED allVars
  BY <1>1, <1>2, <1>3, UnchangedReads
<1> QED
  BY <1>4, <1>5, <1>6, <1>7, <1>8, <1>9, <1>10, <1>11, <1>12, <1>13 DEF RangeNext

\* What a replica with a prefix of the log takes for closed stays below the
\* writes in the rest of the log.
LEMMA ReadsAreSafe == ASSUME NEW b \in Nat, ReadInv(b) PROVE FollowerReadsConsistent
<1> SUFFICES ASSUME NEW i \in 0 .. Len(log), NEW t \in maxClosed(After(i)),
                    NEW j \in (i + 1) .. Len(log), log[j].ok, log[j].cmd.kind = "write"
             PROVE  log[j].cmd.ts > t
  BY DEF FollowerReadsConsistent
<1>1. /\ LeaseInv /\ RangeTypeOK /\ EntryInv /\ StepInv /\ CommandInv(b)
  BY Parts
<1>2. /\ Len(log) \in Nat /\ i \in Nat /\ j \in 1 .. Len(log) /\ j \in 0 .. Len(log)
      /\ i <= j /\ j - 1 \in 0 .. Len(log) /\ i <= j - 1
      /\ \A k \in 1 .. Len(log) : log[k] \in EntryType
  <2>1. Len(log) \in Nat /\ log \in Seq(EntryType)
    BY <1>1, States DEF RangeTypeOK
  <2> QED
    BY <2>1, SMT, Z3, SMTT(9)
<1> DEFINE c == log[j].cmd
<1>3. c \in Commands /\ c \in RaftType /\ c.ts \in Nat /\ c.lai \in Nat
  BY <1>2, SMT, Z3, SMTT(9) DEF Commands, EntryType, RaftType
<1>4. /\ c.seq = L(j - 1).seq /\ After(j - 1).lai < c.lai /\ L(j) = L(j - 1) /\ L(j).start < c.ts
  BY <1>1, <1>2 DEF StepInv, Step
<1>5. \A k \in 0 .. Len(log) : /\ L(k) \in LeaseType /\ L(k) \in Leases /\ L(k).start \in Nat
                               /\ After(k).lai \in Nat /\ L(k).epoch \in Nat
  <2> SUFFICES ASSUME NEW k \in 0 .. Len(log)
               PROVE  /\ L(k) \in LeaseType /\ L(k) \in Leases /\ L(k).start \in Nat
                      /\ After(k).lai \in Nat /\ L(k).epoch \in Nat
    OBVIOUS
  <2>1. /\ L(k) \in LeaseType /\ L(k).start \in Nat /\ L(k).epoch \in Nat
        /\ After(k) \in StateType
    BY <1>1, States, Zenon
  <2>2. After(k).lai \in Nat
    BY <2>1, Constants, SMT, Z3, SMTT(9) DEF StateType, LAI
  <2> QED
    BY <2>1, <2>2, Zenon DEF Leases
<1>6. \A k \in 0 .. Len(log) : k <= j => L(k).start <= L(j).start /\ L(k).start < c.ts
  <2> SUFFICES ASSUME NEW k \in 0 .. Len(log), k <= j
               PROVE  L(k).start <= L(j).start /\ L(k).start < c.ts
    OBVIOUS
  <2>1. L(k).start <= L(j).start
    BY <1>1, <1>2 DEF LeaseInv, LogInv
  <2> QED
    BY <1>2, <1>3, <1>4, <1>5, <2>1, SMT, Z3, SMTT(9)
<1>7. CASE t = After(i).lease.start
  BY <1>2, <1>3, <1>5, <1>6, <1>7 DEF L
<1>8. CASE \E d \in entries : /\ After(i).lease.holder = "n1" /\ d.epoch = After(i).lease.epoch
                              /\ d.mlai # 0 /\ d.mlai <= After(i).lai /\ t = d.ts
  <2>1. PICK d \in entries : /\ L(i).holder = "n1" /\ d.epoch = L(i).epoch
                             /\ d.mlai <= After(i).lai /\ t = d.ts
    BY <1>8 DEF L
  <2>2. d.ts \in Nat /\ d.mlai \in Nat /\ d.epoch \in Nat
    BY <1>1, <1>5, <2>1, Constants, SMT, Z3, SMTT(9) DEF EntryInv
  <2>3. After(i).lai <= After(j - 1).lai /\ Follows(i, j - 1)
    BY <1>1, <1>2, <2>1 DEF StepInv
  <2>4. CASE L(j - 1).holder = "n1" /\ L(i).epoch <= L(j - 1).epoch
    <3>1. Fits(c, L(j - 1), b)
      BY <1>1, <1>2, <1>3, <1>4, <1>5, <2>4 DEF CommandInv
    <3>2. c.ts > d.ts \/ c.lai <= d.mlai
      BY <2>1, <2>4, <3>1 DEF Fits, Cov, Bound
    <3> QED
      <4>1. After(i).lai \in Nat /\ After(j - 1).lai \in Nat
        BY <1>2, <1>5, Zenon
      <4> QED
        BY <1>3, <1>4, <2>1, <2>2, <2>3, <3>2, <4>1, SMT, Z3, SMTT(9)
  <2>5. CASE \E k \in i + 1 .. j - 1 : Passed(i, k)
    <3>1. PICK k \in i + 1 .. j - 1 : Passed(i, k)
      BY <2>5
    <3> DEFINE p == log[k].cmd
    <3>2. /\ k \in 1 .. Len(log) /\ k \in 0 .. Len(log) /\ k <= j /\ i <= k - 1
          /\ k - 1 \in 0 .. Len(log) /\ log[k] \in EntryType
      <4>1. /\ k \in 1 .. Len(log) /\ k \in 0 .. Len(log) /\ k <= j /\ i <= k - 1
            /\ k - 1 \in 0 .. Len(log)
        <5>1. Len(log) \in Nat /\ i \in Nat /\ j \in 1 .. Len(log)
          BY <1>2
        <5> QED
          BY <5>1, SMT, Z3, SMTT(9)
      <4> QED
        BY <1>2, <4>1
    <3>3. /\ log[k].ok /\ p.kind # "write" /\ p.lease.holder = "n2"
          /\ L(k - 1).holder = "n1" /\ L(i).epoch <= L(k - 1).epoch
      BY <3>1 DEF Passed
    <3>4. p \in Commands /\ p.lai \in Nat
      BY <3>2, SMT, Z3, SMTT(9) DEF Commands, EntryType, RaftType
    <3>5. p.seq = L(k - 1).seq /\ L(k) = p.lease /\ (p.kind # "request" => After(k - 1).lai < p.lai)
      BY <1>1, <3>2, <3>3 DEF StepInv, Step
    <3>6. Fits(p, L(k - 1), b)
      BY <1>1, <1>5, <3>2, <3>3, <3>4, <3>5 DEF CommandInv
    <3>7. p.lease.start + 1 > d.ts \/ (p.kind # "request" /\ p.lai <= d.mlai)
      BY <2>1, <3>3, <3>6 DEF Fits, Cov, Bound
    <3>8. After(i).lai <= After(k - 1).lai
      BY <1>1, <3>2 DEF StepInv
    <3>9. p.lease.start >= d.ts
      <4>1. /\ After(i).lai \in Nat /\ After(k - 1).lai \in Nat /\ p.lease.start \in Nat
            /\ d.mlai <= After(i).lai
        BY <1>5, <2>1, <3>2, <3>5, Zenon
      <4>2. CASE p.kind # "request" /\ p.lai <= d.mlai
        <5>1. After(k - 1).lai < p.lai /\ p.lai <= d.mlai /\ p.lai \in Nat
          BY <3>4, <3>5, <4>2, Zenon
        <5> QED
          BY <2>2, <3>8, <4>1, <5>1, SMT, Z3, SMTT(9)
      <4>3. CASE p.lease.start + 1 > d.ts
        <5>1. \A x, y \in Nat : x + 1 > y => x >= y
          BY SMT, Z3, SMTT(9)
        <5> QED
          BY <2>2, <4>1, <4>3, <5>1, Zenon
      <4> QED
        BY <3>7, <4>2, <4>3, Zenon
    <3>10. p.lease.start \in Nat /\ p.lease.start < c.ts /\ t = d.ts
      BY <1>5, <1>6, <2>1, <3>2, <3>5, Zenon
    <3> QED
      BY <1>3, <2>2, <3>9, <3>10, SMT, Z3, SMTT(9)
  <2> QED
    BY <2>3, <2>4, <2>5 DEF Follows
<1> QED
  BY <1>7, <1>8 DEF maxClosed

(***************************************************************************)
(* A follower that serves reads at what maxClosed takes for closed         *)
(* (Replica.canServeFollowerRead) misses no write, for any number of       *)
(* proposals, epochs, leases, transfers, restarts and log entries: no      *)
(* write that applies later, of n1 or of n2, is at or below that           *)
(* timestamp.  This rests on two delays the code does not enforce: a lease *)
(* transfer gets its latches within the target duration of its start being *)
(* fixed, and a process writes its first heartbeat before its first close. *)
(***************************************************************************)
THEOREM FollowerReadsAreConsistent ==
  ASSUME PromptLatches, PromptHeartbeat PROVE RangeSpec => []FollowerReadsConsistent
<1>1. RangeInit => SomeReadInv
  BY InitReads, Constants, SMT, Z3, SMTT(9) DEF SomeReadInv
<1>2. SomeReadInv /\ [RangeNext]_allVars => SomeReadInv'
  BY NextReads
<1>3. SomeReadInv => FollowerReadsConsistent
  BY ReadsAreSafe, Constants, SMT, Z3, SMTT(9) DEF SomeReadInv
<1> QED
  BY <1>1, <1>2, <1>3, PTL DEF RangeSpec

=============================================================================
