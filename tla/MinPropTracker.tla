--------------------------- MODULE MinPropTracker ---------------------------
(***************************************************************************)
(* The closed-timestamp tracker of one node                                *)
(* (pkg/kv/kvserver/closedts/minprop/tracker.go).                          *)
(*                                                                         *)
(* Every command evaluation calls Track before it evaluates, and calls the *)
(* closure Track returns once it has been given a lease applied index      *)
(* (LAI) or has failed.  A single goroutine calls Close.  Each of the      *)
(* three holds t.mu for its whole body, so each is one action.             *)
(*                                                                         *)
(* Timestamps are numbers: hlc.Timestamp is a discrete total order and     *)
(* Next() is its successor.  An MLAI map is a total function in which 0    *)
(* stands for "not found"; an LAI handed to a proposal is at least 1.      *)
(***************************************************************************)
EXTENDS Integers

CONSTANTS
  Proposal,   \* the calls to Track that are ever made
  RangeID,
  NoRange,    \* the RangeID 0 of a release "with zero arguments"
  MaxTS,      \* bound on the timestamps passed to Close
  MaxEpoch,   \* bound on liveness epochs
  MaxLAI      \* bound on lease applied indexes

ASSUME TrackerConstants ==
  /\ NoRange \notin RangeID
  /\ MaxTS \in Nat \ {0} /\ MaxEpoch \in Nat \ {0} /\ MaxLAI \in Nat

VARIABLES
  closed, closedEpoch,      \* the most recently closed timestamp
  next,                     \* the timestamp that will be closed next
  leftMLAI, rightMLAI,      \* LAIs released by proposals on each side of next
  leftRef, rightRef,        \* proposals still evaluating on each side
  leftEpoch, rightEpoch,    \* the epoch each side's MLAIs belong to
  prop,       \* what each proposal's goroutine holds
  expEpoch,   \* the last epoch the closer passed to Close
  emitted     \* by epoch: everything Close has returned under it, merged

vars == <<closed, closedEpoch, next, leftMLAI, rightMLAI, leftRef, rightRef,
          leftEpoch, rightEpoch, prop, expEpoch, emitted>>

TS    == 0 .. MaxTS
Epoch == 1 .. MaxEpoch
LAI   == 1 .. MaxLAI
MLAI  == [RangeID -> 0 .. MaxLAI]

NoMLAI == [r \in RangeID |-> 0]
Max2(a, b) == IF a < b THEN b ELSE a
Merge(m, n) == [r \in RangeID |-> Max2(m[r], n[r])]

(* A proposal is "idle" before Track and "tracked" while it evaluates; it   *)
(* is then "released" with an LAI, or "failed".  The timestamp ts it writes *)
(* at, and under which lease epoch, are fixed when it is released.          *)
PropState == [pc : {"idle", "tracked", "released", "failed"},
              minProp : 0 .. (MaxTS + 1), ts : 0 .. (MaxTS + 2),
              epoch : 0 .. MaxEpoch, range : RangeID \cup {NoRange},
              lai : 0 .. MaxLAI]

TypeOK ==
  /\ closed \in TS /\ next \in TS
  /\ closedEpoch \in Epoch /\ leftEpoch \in Epoch /\ rightEpoch \in Epoch
  /\ leftMLAI \in MLAI /\ rightMLAI \in MLAI
  /\ leftRef \in Nat /\ rightRef \in Nat
  /\ prop \in [Proposal -> PropState]
  /\ expEpoch \in Epoch
  /\ emitted \in [Epoch -> [ts : TS, mlai : MLAI]]

-----------------------------------------------------------------------------
(* NewTracker: a closed timestamp of zero, the next one logical tick later. *)
Init ==
  /\ closed = 0 /\ next = 1
  /\ closedEpoch = 1 /\ leftEpoch = 1 /\ rightEpoch = 1
  /\ leftMLAI = NoMLAI /\ rightMLAI = NoMLAI
  /\ leftRef = 0 /\ rightRef = 0
  /\ prop = [p \in Proposal |-> [pc |-> "idle", minProp |-> 0, ts |-> 0,
                                 epoch |-> 0, range |-> NoRange, lai |-> 0]]
  /\ expEpoch = 1
  /\ emitted = [e \in Epoch |-> [ts |-> 0, mlai |-> NoMLAI]]

(* Track: the proposal is counted on the right and must evaluate above next. *)
Track(p) ==
  /\ prop[p].pc = "idle"
  /\ rightRef' = rightRef + 1
  /\ prop' = [prop EXCEPT ![p] = [@ EXCEPT !.pc = "tracked", !.minProp = next + 1]]
  /\ UNCHANGED <<closed, closedEpoch, next, leftMLAI, rightMLAI, leftRef,
                 leftEpoch, rightEpoch, expEpoch, emitted>>

(* The side a tracked proposal belongs to now. *)
OnLeft(p)  == prop[p].minProp = closed + 1
OnRight(p) == prop[p].minProp = next + 1

RecordLast(m, r, lai) == [x \in RangeID |-> IF x = r THEN lai ELSE m[x]]

(* releaseProposal's update of the side's map. *)
Record(m, r, lai) == [x \in RangeID |-> IF x = r THEN Max2(m[x], lai) ELSE m[x]]

EvictNothing(m, bump) == m

(* clearMLAIMap, called when a side's epoch is bumped. *)
Evict(m, bump) == IF bump THEN NoMLAI ELSE m

(* release: an epoch newer than a side's evicts what the side tracked. The   *)
(* LAI is recorded only if the side is at the proposal's epoch.  (If p is on *)
(* neither side the code calls log.Fatalf: see ReleaseNeverFatal.)           *)
release(p, epoch, r, lai) ==
  LET left       == OnLeft(p)
      bumpLeft   == left /\ epoch > leftEpoch
      bumpRight  == epoch > rightEpoch
      lEpoch     == IF bumpLeft  THEN epoch  ELSE leftEpoch
      rEpoch     == IF bumpRight THEN epoch  ELSE rightEpoch
      lMLAI      == Evict(leftMLAI, bumpLeft)
      rMLAI      == Evict(rightMLAI, bumpRight)
  IN /\ leftEpoch'  = lEpoch
     /\ rightEpoch' = rEpoch
     /\ leftRef'    = IF left THEN leftRef - 1 ELSE leftRef
     /\ rightRef'   = IF left THEN rightRef ELSE rightRef - 1
     /\ leftMLAI'   = IF left /\ lEpoch = epoch THEN Record(lMLAI, r, lai)
                                                ELSE lMLAI
     /\ rightMLAI'  = IF ~left /\ rEpoch = epoch THEN Record(rMLAI, r, lai)
                                                 ELSE rMLAI

(* untrack(epoch, rangeID, maxLeaseIndex) of a command that was proposed. *)
Release(p, epoch, r, lai, ts) ==
  /\ prop[p].pc = "tracked"
  /\ OnLeft(p) \/ OnRight(p)
  /\ ts >= prop[p].minProp
  /\ release(p, epoch, r, lai)
  /\ prop' = [prop EXCEPT ![p] = [@ EXCEPT !.pc = "released", !.epoch = epoch,
                                              !.range = r, !.lai = lai, !.ts = ts]]
  /\ UNCHANGED <<closed, closedEpoch, next, expEpoch, emitted>>

(* untrack(0, 0, 0): the command failed and was never proposed. *)
ReleaseFailed(p) ==
  /\ prop[p].pc = "tracked"
  /\ OnLeft(p) \/ OnRight(p)
  /\ release(p, 0, NoRange, 0)
  /\ prop' = [prop EXCEPT ![p].pc = "failed"]
  /\ UNCHANGED <<closed, closedEpoch, next, expEpoch, emitted>>

CanCloseBusy(nxt, exp) == next < nxt /\ leftEpoch <= exp

CanClose(nxt, exp) == leftRef = 0 /\ next < nxt /\ leftEpoch <= exp

(* What Close returns is merged into emitted, as the storage does. *)
Emit(ts, epoch, mlai) ==
  emitted' = [emitted EXCEPT ![epoch] = [ts   |-> Max2(@.ts, ts),
                                         mlai |-> Merge(@.mlai, mlai)]]

(* Close when the left side is drained: next is closed out, the right side  *)
(* becomes the left.  The result is usable only at the epoch it was         *)
(* tracked under.                                                           *)
CloseOut(nxt, exp) ==
  /\ CanClose(nxt, exp)
  /\ closed' = next /\ closedEpoch' = leftEpoch /\ next' = nxt
  /\ leftEpoch'  = Max2(rightEpoch, exp)
  /\ rightEpoch' = Max2(rightEpoch, exp)
  /\ leftMLAI'   = Evict(rightMLAI, rightEpoch < exp)
  /\ rightMLAI'  = NoMLAI
  /\ leftRef' = rightRef /\ rightRef' = 0
  /\ IF leftEpoch = exp THEN Emit(next, exp, leftMLAI) ELSE UNCHANGED emitted

(* Close otherwise: nothing moves, and the previous closed timestamp is     *)
(* returned with a nil map if it belongs to the expected epoch.             *)
CloseIdempotent(nxt, exp) ==
  /\ ~CanClose(nxt, exp)
  /\ IF closedEpoch = exp THEN Emit(closed, exp, NoMLAI) ELSE UNCHANGED emitted
  /\ UNCHANGED <<closed, closedEpoch, next, leftMLAI, rightMLAI, leftRef,
                 rightRef, leftEpoch, rightEpoch>>

(* The closer goroutine's epochs come from its own liveness record and      *)
(* never regress; the timestamps may (the target duration is a setting).    *)
Close(nxt, exp) ==
  /\ exp >= expEpoch
  /\ expEpoch' = exp
  /\ CloseOut(nxt, exp) \/ CloseIdempotent(nxt, exp)
  /\ UNCHANGED prop

Next ==
  \/ \E p \in Proposal : Track(p)
  \/ \E p \in Proposal, e \in Epoch, r \in RangeID, lai \in LAI,
        ts \in 0 .. (MaxTS + 2) : Release(p, e, r, lai, ts)
  \/ \E p \in Proposal : ReleaseFailed(p)
  \/ \E nxt \in TS, exp \in Epoch : Close(nxt, exp)

Spec == Init /\ [][Next]_vars

-----------------------------------------------------------------------------
(* The log.Fatalf calls of release and releaseProposal are unreachable:     *)
(* whoever still holds a reference is on one of the two sides, and that     *)
(* side's count has not been used up.                                       *)
ReleaseNeverFatal ==
  \A p \in Proposal : prop[p].pc = "tracked" =>
    \/ OnLeft(p) /\ leftRef > 0
    \/ ~OnLeft(p) /\ OnRight(p) /\ rightRef > 0

(* What a closed timestamp promises.  Whatever Close has returned under an  *)
(* epoch, nobody still evaluates at or below that timestamp, and everyone   *)
(* who did so under that epoch has an LAI that the MLAIs returned so far    *)
(* make a follower wait for.                                                *)
ClosedMeansCovered ==
  \A e \in Epoch, p \in Proposal :
    LET c == emitted[e] IN
    /\ prop[p].pc = "tracked" => c.ts < prop[p].minProp
    /\ prop[p].pc = "released" /\ prop[p].epoch = e /\ prop[p].ts <= c.ts
         => c.mlai[prop[p].range] >= prop[p].lai

(* "Each side tracks data which corresponds exactly to the side's epoch":   *)
(* every tracked MLAI is the LAI of a proposal released under that epoch.   *)
SidesHoldOneEpoch ==
  \A r \in RangeID :
    /\ leftMLAI[r] # 0 => \E p \in Proposal :
         /\ prop[p].pc = "released" /\ prop[p].range = r
         /\ prop[p].epoch = leftEpoch /\ prop[p].lai = leftMLAI[r]
    /\ rightMLAI[r] # 0 => \E p \in Proposal :
         /\ prop[p].pc = "released" /\ prop[p].range = r
         /\ prop[p].epoch = rightEpoch /\ prop[p].lai = rightMLAI[r]

=============================================================================
