------------------------ MODULE TrackerLeaseProofs -------------------------
(***************************************************************************)
(* Proofs about the tracker (module MinPropTracker) for any number of      *)
(* proposals, ranges, timestamps, epochs and lease applied indexes, and    *)
(* about the leases of module FollowerReads for any number of epochs,      *)
(* leases, transfers, restarts and log entries.                            *)
(***************************************************************************)
EXTENDS FollowerReads, TLAPS

\* Leaves are first-order unless they cite SMT.
USE ZenonT(60)

-----------------------------------------------------------------------------
(***************************************************************************)
(* The tracker.                                                            *)
(***************************************************************************)

(* n is the number of the elements of S: f numbers them. *)
Counts(n, S) ==
  \E f \in [1 .. n -> S] :
    /\ \A x \in S : \E i \in 1 .. n : f[i] = x
    /\ \A i, j \in 1 .. n : f[i] = f[j] => i = j

Tracked(minProp) == {p \in Proposal : prop[p].pc = "tracked"
                                      /\ prop[p].minProp = minProp}

(* The reference counts are those of the proposals still evaluating, on the *)
(* side their minProp puts them.                                            *)
RefCounts ==
  /\ closed < next
  /\ Counts(leftRef, Tracked(closed + 1))
  /\ Counts(rightRef, Tracked(next + 1))

(* Whoever is still evaluating is on one of the two sides. *)
OnASide == \A p \in Proposal : prop[p].pc = "tracked" => OnLeft(p) \/ OnRight(p)

(* The epochs of the closed timestamp and of the two sides are ordered, and *)
(* Close has returned nothing under an epoch it has not closed out yet.  A  *)
(* tracker answers for the epochs of its process, the first of which is b.  *)
EpochOrder(b) ==
  /\ closedEpoch <= leftEpoch /\ leftEpoch <= rightEpoch
  /\ \A e \in Epoch : b <= e => emitted[e].ts <= closed

(* Where the LAI of a released proposal is.  It has been returned; or it    *)
(* waits on a side whose timestamp is not closed yet; or its epoch is past, *)
(* so that nothing at or above its timestamp will be returned under it.     *)
Accounted(p) ==
  LET e == prop[p].epoch  r == prop[p].range IN
  \/ prop[p].lai <= emitted[e].mlai[r]
  \/ leftEpoch = e /\ prop[p].lai <= leftMLAI[r] /\ prop[p].ts > closed
  \/ rightEpoch = e /\ prop[p].lai <= rightMLAI[r] /\ prop[p].ts > next
  \/ (e < expEpoch \/ e < closedEpoch) /\ prop[p].ts > emitted[e].ts
  \/ e < leftEpoch /\ prop[p].ts > closed
  \/ e < rightEpoch /\ prop[p].ts > next

AllAccounted(b) ==
  \A p \in Proposal : prop[p].pc = "released" =>
    prop[p].epoch \in Epoch /\ prop[p].range \in RangeID /\ (b <= prop[p].epoch => Accounted(p))

IInv(b) == TypeOK /\ RefCounts /\ OnASide /\ EpochOrder(b) /\ AllAccounted(b)

-----------------------------------------------------------------------------
LEMMA CountsNone ==
  /\ Counts(0, {})
  /\ \A S : Counts(0, S) => S = {}
<1>1. 1 .. 0 = {}
  BY SMT, Z3, SMTT(9)
<1>2. [i \in 1 .. 0 |-> i] \in [1 .. 0 -> {}]
  BY <1>1
<1> QED
  BY <1>1, <1>2 DEF Counts

LEMMA CountsAdd ==
  ASSUME NEW n \in Nat, NEW S, Counts(n, S), NEW x, x \notin S
  PROVE  Counts(n + 1, S \cup {x})
<1>1. PICK f \in [1 .. n -> S] : /\ \A y \in S : \E i \in 1 .. n : f[i] = y
                                 /\ \A i, j \in 1 .. n : f[i] = f[j] => i = j
  BY DEF Counts
<1>2. \A i : i \in 1 .. n + 1 <=> i \in 1 .. n \/ i = n + 1
  BY SMT, Z3, SMTT(9)
<1>3. n + 1 \notin 1 .. n
  BY SMT, Z3, SMTT(9)
<1>4. PICK g : g = [i \in 1 .. n + 1 |-> IF i = n + 1 THEN x ELSE f[i]]
  OBVIOUS
<1>5. g \in [1 .. n + 1 -> S \cup {x}]
  BY <1>1, <1>2, <1>4
<1>6. g[n + 1] = x /\ \A i \in 1 .. n : g[i] = f[i] /\ g[i] \in S
  BY <1>1, <1>2, <1>3, <1>4
<1>7. \A y \in S \cup {x} : \E i \in 1 .. n + 1 : g[i] = y
  BY <1>1, <1>2, <1>6
<1>8. \A i, j \in 1 .. n + 1 : g[i] = g[j] => i = j
  BY <1>1, <1>2, <1>6
<1> QED
  BY <1>5, <1>7, <1>8 DEF Counts

LEMMA CountsRemove ==
  ASSUME NEW n \in Nat, NEW S, Counts(n, S), NEW x \in S
  PROVE  n # 0 /\ n - 1 \in Nat /\ Counts(n - 1, S \ {x})
<1>1. PICK f \in [1 .. n -> S] : /\ \A y \in S : \E i \in 1 .. n : f[i] = y
                                 /\ \A i, j \in 1 .. n : f[i] = f[j] => i = j
  BY DEF Counts
<1>2. PICK k \in 1 .. n : f[k] = x
  BY <1>1
<1>3. n # 0 /\ n - 1 \in Nat /\ n \in 1 .. n
  BY <1>2, SMT, Z3, SMTT(9)
<1>4. \A i : i \in 1 .. n - 1 <=> i \in 1 .. n /\ i # n
  BY <1>3, SMT, Z3, SMTT(9)
\* The last element takes the number of x.
<1>5. PICK g : g = [i \in 1 .. n - 1 |-> IF i = k THEN f[n] ELSE f[i]]
  OBVIOUS
<1>6. /\ k \in 1 .. n - 1 => g[k] = f[n]
      /\ \A i \in 1 .. n - 1 : i # k => g[i] = f[i]
  BY <1>5
<1>7. g \in [1 .. n - 1 -> S \ {x}]
  BY <1>1, <1>2, <1>3, <1>4, <1>5
<1>8. ASSUME NEW y \in S \ {x} PROVE \E i \in 1 .. n - 1 : g[i] = y
  <2>1. PICK i \in 1 .. n : f[i] = y
    BY <1>1
  <2>2. i # k
    BY <1>2, <2>1
  <2>3. CASE i = n
    BY <1>4, <1>6, <2>1, <2>2, <2>3
  <2>4. CASE i # n
    BY <1>4, <1>6, <2>1, <2>2, <2>4
  <2> QED
    BY <2>3, <2>4
<1>9. \A i, j \in 1 .. n - 1 : g[i] = g[j] => i = j
  BY <1>1, <1>3, <1>4, <1>6
<1> QED
  BY <1>3, <1>7, <1>8, <1>9 DEF Counts

\* The lease index maps that release and Close compute are well typed.
LEMMA MLAITypes ==
  /\ NoMLAI \in MLAI
  /\ \A m, n \in MLAI : Merge(m, n) \in MLAI
  /\ \A m \in MLAI, lai \in 0 .. MaxLAI : \A r : Record(m, r, lai) \in MLAI
  BY TrackerConstants, SMT, Z3, SMTT(9) DEF NoMLAI, MLAI, Merge, Record, Max2

\* A new tracker satisfies the invariant.
LEMMA InitIInv == Init => IInv(1)
<1> SUFFICES ASSUME Init PROVE IInv(1)
  OBVIOUS
<1> USE TrackerConstants
<1>1. TypeOK
  BY SMT, Z3, SMTT(9) DEF Init, TypeOK, TS, Epoch, MLAI, NoMLAI, PropState
<1>2. RefCounts
  <2>1. Tracked(closed + 1) = {} /\ Tracked(next + 1) = {}
    BY DEF Init, Tracked
  <2> QED
    BY <2>1, CountsNone, SMT, Z3, SMTT(9) DEF Init, RefCounts
<1>3. OnASide /\ AllAccounted(1)
  BY DEF Init, OnASide, AllAccounted
<1>4. EpochOrder(1)
  BY SMT, Z3, SMTT(9) DEF Init, EpochOrder, Epoch
<1> QED
  BY <1>1, <1>2, <1>3, <1>4 DEF IInv


\* Track keeps the invariant.
LEMMA TrackStep ==
  ASSUME NEW b \in Nat, IInv(b), NEW p \in Proposal, Track(p) PROVE IInv(b)'
<1> USE TrackerConstants DEF IInv, Track
<1>1. TypeOK'
  <2>1. prop[p] \in PropState /\ next + 1 \in 0 .. (MaxTS + 1)
    BY SMT, Z3, SMTT(9) DEF TypeOK, TS
  <2>2. [prop[p] EXCEPT !.pc = "tracked", !.minProp = next + 1] \in PropState
    BY <2>1 DEF PropState
  <2>3. prop' \in [Proposal -> PropState]
    BY <2>2 DEF TypeOK
  <2> QED
    BY <2>3, SMT, Z3, SMTT(9) DEF TypeOK
<1>2. RefCounts'
  <2>1. Tracked(next + 1)' = Tracked(next + 1) \cup {p} /\ p \notin Tracked(next + 1)
    BY SMT, Z3, SMTT(9) DEF Tracked, TypeOK
  <2>2. Tracked(closed + 1)' = Tracked(closed + 1)
    BY SMT, Z3, SMTT(9) DEF Tracked, TypeOK, RefCounts, TS
  <2>3. /\ leftRef' = leftRef /\ rightRef' = rightRef + 1 /\ closed' = closed /\ next' = next
        /\ rightRef \in Nat
    BY DEF TypeOK
  <2>4. rightRef + 1 \in Nat /\ Counts(rightRef + 1, Tracked(next + 1) \cup {p})
    BY <2>1, <2>3, CountsAdd, SMT, Z3, SMTT(9) DEF RefCounts
  <2> QED
    BY <2>1, <2>2, <2>3, <2>4 DEF RefCounts
<1>3. OnASide'
  BY SMT, Z3, SMTT(9) DEF OnASide, OnLeft, OnRight, TypeOK
<1>4. EpochOrder(b)'
  BY DEF EpochOrder
<1>5. AllAccounted(b)'
  BY SMT, Z3, SMTT(9) DEF AllAccounted, Accounted, TypeOK
<1> QED
  BY <1>1, <1>2, <1>3, <1>4, <1>5 DEF IInv


(* What both kinds of release do to the counters and the maps. *)
LEMMA ReleaseTypes ==
  ASSUME NEW b \in Nat, IInv(b), NEW p \in Proposal, prop[p].pc = "tracked",
         NEW e \in 0 .. MaxEpoch, NEW r, NEW lai \in 0 .. MaxLAI,
         release(p, e, r, lai),
         NEW rec \in PropState, rec.pc # "tracked", prop' = [prop EXCEPT ![p] = rec],
         UNCHANGED <<closed, closedEpoch, next, expEpoch, emitted>>
  PROVE  TypeOK' /\ RefCounts' /\ OnASide' /\ EpochOrder(b)'
<1> USE TrackerConstants DEF IInv
<1>1. leftEpoch' \in Epoch /\ rightEpoch' \in Epoch
  BY SMT, Z3, SMTT(9) DEF release, Evict, TypeOK, Epoch
<1>2. leftMLAI' \in MLAI /\ rightMLAI' \in MLAI
  BY MLAITypes DEF release, Evict, TypeOK
<1>3. prop' \in [Proposal -> PropState]
  BY DEF TypeOK
<1>4. RefCounts' /\ leftRef' \in Nat /\ rightRef' \in Nat
  <2> DEFINE L == Tracked(closed + 1)  R == Tracked(next + 1)
  <2>1. /\ leftRef \in Nat /\ Counts(leftRef, L)
        /\ rightRef \in Nat /\ Counts(rightRef, R)
        /\ p \in L => leftRef - 1 \in Nat /\ Counts(leftRef - 1, L \ {p})
        /\ p \in R => rightRef - 1 \in Nat /\ Counts(rightRef - 1, R \ {p})
        /\ p \notin L => L \ {p} = L
        /\ p \notin R => R \ {p} = R
    BY CountsRemove DEF RefCounts, TypeOK
  <2>2. /\ Tracked(closed + 1)' = L \ {p}
        /\ Tracked(next + 1)' = R \ {p}
    BY DEF Tracked, TypeOK
  <2>3. /\ OnLeft(p) => p \in L /\ p \notin R
        /\ ~OnLeft(p) => p \in R /\ p \notin L
    BY SMT, Z3, SMTT(9) DEF OnASide, OnLeft, OnRight, RefCounts, TypeOK, TS, Tracked
  <2>4. /\ leftRef' \in Nat /\ Counts(leftRef', L \ {p})
        /\ rightRef' \in Nat /\ Counts(rightRef', R \ {p})
    BY <2>1, <2>3 DEF release, Evict
  <2> QED
    BY <2>2, <2>4 DEF RefCounts
<1>5. TypeOK'
  BY <1>1, <1>2, <1>3, <1>4 DEF TypeOK
<1>6. OnASide'
  BY DEF OnASide, OnLeft, OnRight, TypeOK
<1>7. EpochOrder(b)'
  BY SMT, Z3, SMTT(9) DEF EpochOrder, release, TypeOK, Epoch
<1> QED
  BY <1>4, <1>5, <1>6, <1>7

(* A release takes no other proposal's LAI out of account. *)
LEMMA ReleaseKeepsAccounts ==
  ASSUME NEW b \in Nat, IInv(b), NEW p \in Proposal, prop[p].pc = "tracked",
         NEW e \in 0 .. MaxEpoch, NEW r, NEW lai \in 0 .. MaxLAI,
         release(p, e, r, lai),
         NEW rec \in PropState, prop' = [prop EXCEPT ![p] = rec],
         UNCHANGED <<closed, closedEpoch, next, expEpoch, emitted>>,
         NEW q \in Proposal, q # p, prop[q].pc = "released", b <= prop[q].epoch
  PROVE  Accounted(q)'
<1> USE TrackerConstants DEF IInv
<1>1. prop'[q] = prop[q] /\ prop[q] \in PropState
  BY DEF TypeOK
<1>2. prop[q].epoch \in Epoch /\ prop[q].range \in RangeID /\ Accounted(q)
  BY DEF AllAccounted
<1> DEFINE qe == prop[q].epoch  qr == prop[q].range
<1>3. /\ leftEpoch' = leftEpoch \/ leftEpoch' > leftEpoch
      /\ rightEpoch' = rightEpoch \/ rightEpoch' > rightEpoch
      /\ leftEpoch' = leftEpoch => leftMLAI'[qr] >= leftMLAI[qr]
      /\ rightEpoch' = rightEpoch => rightMLAI'[qr] >= rightMLAI[qr]
  BY <1>2, SMT, Z3, SMTT(9) DEF release, Evict, TypeOK, Record, MLAI, Max2, Epoch
<1>4. leftEpoch \in Int /\ rightEpoch \in Int /\ leftEpoch' \in Int /\ rightEpoch' \in Int
  BY SMT, Z3, SMTT(9) DEF release, Evict, TypeOK, Epoch
<1>5. /\ leftMLAI[qr] \in Int /\ rightMLAI[qr] \in Int
      /\ leftMLAI'[qr] \in Int /\ rightMLAI'[qr] \in Int
  BY <1>2, SMT, Z3, SMTT(9) DEF release, Evict, TypeOK, Record, MLAI, Max2, NoMLAI
<1>6. prop[q].lai \in Int /\ prop[q].epoch \in Int
  BY <1>1, SMT, Z3, SMTT(9) DEF PropState
<1> QED
  BY <1>1, <1>2, <1>3, <1>4, <1>5, <1>6, SMT, Z3, SMTT(9) DEF Accounted

\* The record of a released proposal is well typed.
LEMMA ReleasedState ==
  ASSUME NEW q \in PropState, NEW e \in 0 .. MaxEpoch, NEW r \in RangeID,
         NEW lai \in 0 .. MaxLAI, NEW ts \in 0 .. (MaxTS + 2)
  PROVE  [q EXCEPT !.pc = "released", !.epoch = e, !.range = r,
                   !.lai = lai, !.ts = ts] \in PropState
<1>1. [q EXCEPT !.pc = "released", !.epoch = e] \in PropState
  BY DEF PropState
<1>2. \A x \in PropState : [x EXCEPT !.range = r, !.lai = lai, !.ts = ts] \in PropState
  BY DEF PropState
<1> QED
  BY <1>1, <1>2

\* release of a proposal with its lease index keeps the invariant.
LEMMA ReleaseStep ==
  ASSUME NEW b \in Nat, IInv(b), NEW p \in Proposal, NEW e \in Epoch, NEW r \in RangeID,
         NEW lai \in LAI, NEW ts \in 0 .. (MaxTS + 2), Release(p, e, r, lai, ts)
  PROVE  IInv(b)'
<1> USE TrackerConstants
<1> DEFINE rec == [prop[p] EXCEPT !.pc = "released", !.epoch = e, !.range = r,
                                  !.lai = lai, !.ts = ts]
<1>1. rec \in PropState /\ rec.pc # "tracked" /\ prop' = [prop EXCEPT ![p] = rec]
  <2>1. prop[p] \in PropState
    BY DEF IInv, TypeOK
  <2>2. rec \in PropState
    <3>1. e \in 0 .. MaxEpoch /\ lai \in 0 .. MaxLAI
      BY SMT, Z3, SMTT(9) DEF Epoch, LAI
    <3> QED
      BY ONLY <2>1, <3>1, ReleasedState, r \in RangeID, ts \in 0 .. (MaxTS + 2), Zenon
  <2> QED
    BY <2>1, <2>2 DEF PropState, Release
<1>2. e \in 0 .. MaxEpoch /\ lai \in 0 .. MaxLAI /\ prop[p].pc = "tracked"
      /\ release(p, e, r, lai)
      /\ UNCHANGED <<closed, closedEpoch, next, expEpoch, emitted>>
  BY SMT, Z3, SMTT(9) DEF Epoch, LAI, Release
<1>3. TypeOK' /\ RefCounts' /\ OnASide' /\ EpochOrder(b)'
  BY <1>1, <1>2, ReleaseTypes
<1>4. Accounted(p)' /\ prop'[p].epoch = e /\ prop'[p].range = r
  <2>1. /\ prop'[p].epoch = e /\ prop'[p].range = r
        /\ prop'[p].lai = lai /\ prop'[p].ts = ts
    BY <1>1 DEF IInv, TypeOK, PropState
  <2>2. ts \in Int /\ closed \in Int /\ next \in Int /\ closed < next
        /\ leftMLAI \in MLAI /\ rightMLAI \in MLAI /\ lai \in Nat
        /\ leftEpoch \in Int /\ rightEpoch \in Int /\ e \in Int
    BY SMT, Z3, SMTT(9) DEF IInv, TypeOK, RefCounts, TS, Epoch, LAI
  <2>3. /\ OnLeft(p) => ts > closed
        /\ ~OnLeft(p) => ts > next
    BY <2>2, SMT, Z3, SMTT(9) DEF Release, OnLeft, OnRight, IInv, TypeOK, PropState, TS
  <2>4. \A m \in MLAI : Record(m, r, lai)[r] >= lai
    BY <2>2, SMT, Z3, SMTT(9) DEF Record, Max2, MLAI
  <2>5. CASE OnLeft(p) /\ e >= leftEpoch
    <3>1. leftEpoch' = e /\ leftMLAI'[r] >= lai
      BY <1>2, <2>2, <2>4, <2>5, MLAITypes, SMT, Z3, SMTT(9) DEF release, Evict
    <3> QED
      BY <1>2, <2>1, <2>2, <2>3, <2>5, <3>1, ReleaseTypes, <1>3 DEF Accounted, TypeOK, MLAI
  <2>6. CASE OnLeft(p) /\ e < leftEpoch
    BY <1>2, <2>1, <2>2, <2>3, <2>6, SMT, Z3, SMTT(9) DEF Accounted, release, Evict
  <2>7. CASE ~OnLeft(p) /\ e >= rightEpoch
    <3>1. rightEpoch' = e /\ rightMLAI'[r] >= lai
      BY <1>2, <2>2, <2>4, <2>7, MLAITypes, SMT, Z3, SMTT(9) DEF release, Evict
    <3> QED
      BY <1>2, <2>1, <2>2, <2>3, <2>7, <3>1, <1>3 DEF Accounted, TypeOK, MLAI
  <2>8. CASE ~OnLeft(p) /\ e < rightEpoch
    BY <1>2, <2>1, <2>2, <2>3, <2>8, SMT, Z3, SMTT(9) DEF Accounted, release, Evict
  <2> QED
    BY <2>1, <2>2, <2>5, <2>6, <2>7, <2>8, SMT, Z3, SMTT(9)
<1>5. AllAccounted(b)'
  <2> SUFFICES ASSUME NEW q \in Proposal, prop'[q].pc = "released"
               PROVE  /\ prop'[q].epoch \in Epoch /\ prop'[q].range \in RangeID
                      /\ b <= prop'[q].epoch => Accounted(q)'
    BY DEF AllAccounted
  <2>1. CASE q = p
    BY <1>4, <2>1
  <2>2. CASE q # p
    <3>1. prop'[q] = prop[q]
      BY <1>1, <2>2 DEF IInv, TypeOK
    <3>2. b <= prop[q].epoch => Accounted(q)'
      BY <1>1, <1>2, <2>2, <3>1, ReleaseKeepsAccounts
    <3> QED
      BY <3>1, <3>2 DEF IInv, AllAccounted
  <2> QED
    BY <2>1, <2>2
<1> QED
  BY <1>3, <1>5 DEF IInv

\* release of a proposal that failed keeps the invariant.
LEMMA ReleaseFailedStep ==
  ASSUME NEW b \in Nat, IInv(b), NEW p \in Proposal, ReleaseFailed(p) PROVE IInv(b)'
<1> USE TrackerConstants
<1> DEFINE rec == [prop[p] EXCEPT !.pc = "failed"]
<1>1. rec \in PropState /\ rec.pc = "failed" /\ prop' = [prop EXCEPT ![p] = rec]
  <2>1. prop[p] \in PropState
    BY DEF IInv, TypeOK
  <2>2. rec \in PropState
    BY <2>1 DEF PropState
  <2> QED
    BY <2>1, <2>2 DEF PropState, ReleaseFailed
<1>2. 0 \in 0 .. MaxEpoch /\ 0 \in 0 .. MaxLAI /\ prop[p].pc = "tracked"
      /\ release(p, 0, NoRange, 0)
      /\ UNCHANGED <<closed, closedEpoch, next, expEpoch, emitted>>
  BY SMT, Z3, SMTT(9) DEF ReleaseFailed
<1>3. TypeOK' /\ RefCounts' /\ OnASide' /\ EpochOrder(b)'
  BY <1>1, <1>2, ReleaseTypes
<1>4. AllAccounted(b)'
  <2> SUFFICES ASSUME NEW q \in Proposal, prop'[q].pc = "released"
               PROVE  /\ prop'[q].epoch \in Epoch /\ prop'[q].range \in RangeID
                      /\ b <= prop'[q].epoch => Accounted(q)'
    BY DEF AllAccounted
  <2>1. q # p /\ prop'[q] = prop[q]
    BY <1>1 DEF IInv, TypeOK
  <2>2. b <= prop[q].epoch => Accounted(q)'
    BY <1>1, <1>2, <2>1, ReleaseKeepsAccounts
  <2> QED
    BY <2>1, <2>2 DEF IInv, AllAccounted
<1> QED
  BY <1>3, <1>4 DEF IInv

(* Emit only adds to what was returned before, under one epoch. *)
LEMMA EmitEffect ==
  ASSUME TypeOK, NEW ts \in TS, NEW ep \in Epoch, NEW m \in MLAI, Emit(ts, ep, m)
  PROVE  /\ emitted' \in [Epoch -> [ts : TS, mlai : MLAI]]
         /\ \A e \in Epoch : e # ep => emitted'[e] = emitted[e]
         /\ emitted'[ep].ts = Max2(emitted[ep].ts, ts)
         /\ \A r \in RangeID : /\ emitted'[ep].mlai[r] >= m[r]
                               /\ emitted'[ep].mlai[r] >= emitted[ep].mlai[r]
<1> DEFINE old == emitted[ep]
           new == [ts |-> Max2(old.ts, ts), mlai |-> Merge(old.mlai, m)]
<1>1. old \in [ts : TS, mlai : MLAI] /\ emitted' = [emitted EXCEPT ![ep] = new]
  BY DEF TypeOK, Emit
<1>2. old.ts \in TS /\ old.mlai \in MLAI
  BY <1>1
<1>3. Max2(old.ts, ts) \in TS /\ Merge(old.mlai, m) \in MLAI
  BY <1>2, MLAITypes DEF Max2
<1>4. new \in [ts : TS, mlai : MLAI]
  BY <1>3
<1>5. \A r \in RangeID : Merge(old.mlai, m)[r] >= m[r] /\ Merge(old.mlai, m)[r] >= old.mlai[r]
  BY <1>2, TrackerConstants, SMT, Z3, SMTT(9) DEF Merge, Max2, MLAI
<1>6. emitted'[ep] = new /\ emitted' \in [Epoch -> [ts : TS, mlai : MLAI]]
  BY <1>1, <1>4 DEF TypeOK
<1>7. \A e \in Epoch : e # ep => emitted'[e] = emitted[e]
  BY <1>1 DEF TypeOK
<1> QED
  BY <1>5, <1>6, <1>7, SMT, Z3, SMTT(9)

\* Close that ends an epoch keeps the invariant.
LEMMA CloseOutStep ==
  ASSUME NEW b \in Nat, IInv(b), NEW nxt \in TS, NEW ep \in Epoch, ep >= expEpoch, expEpoch' = ep,
         CloseOut(nxt, ep), UNCHANGED prop
  PROVE  IInv(b)'
<1> USE TrackerConstants
<1>0. /\ closed \in Nat /\ next \in Nat /\ closed < next /\ nxt \in Nat /\ next < nxt
      /\ leftEpoch \in Int /\ rightEpoch \in Int /\ closedEpoch \in Int
      /\ ep \in Int /\ expEpoch \in Int /\ leftEpoch <= ep
      /\ closedEpoch <= leftEpoch /\ leftEpoch <= rightEpoch
  BY SMT, Z3, SMTT(9) DEF IInv, TypeOK, TS, Epoch, RefCounts, CloseOut, CanClose, EpochOrder
<1>1. /\ emitted' \in [Epoch -> [ts : TS, mlai : MLAI]]
      /\ \A e \in Epoch : e # ep \/ leftEpoch # ep => emitted'[e] = emitted[e]
      /\ \A e \in Epoch : b <= e => emitted'[e].ts <= next
      /\ \A e \in Epoch, r \in RangeID : emitted'[e].mlai[r] >= emitted[e].mlai[r]
      /\ leftEpoch = ep => \A r \in RangeID : emitted'[ep].mlai[r] >= leftMLAI[r]
  <2>0. \A e \in Epoch : /\ emitted[e] \in [ts : TS, mlai : MLAI]
                         /\ emitted[e].ts \in Nat /\ (b <= e => emitted[e].ts <= closed)
                         /\ \A r \in RangeID : emitted[e].mlai[r] \in Nat
    BY SMT, Z3, SMTT(9) DEF IInv, TypeOK, EpochOrder, TS, MLAI
  <2>1. CASE leftEpoch = ep
    <3>1. /\ emitted' \in [Epoch -> [ts : TS, mlai : MLAI]]
          /\ \A e \in Epoch : e # ep => emitted'[e] = emitted[e]
          /\ emitted'[ep].ts = Max2(emitted[ep].ts, next)
          /\ \A r \in RangeID : /\ emitted'[ep].mlai[r] >= leftMLAI[r]
                                /\ emitted'[ep].mlai[r] >= emitted[ep].mlai[r]
      BY <2>1, EmitEffect DEF CloseOut, Evict, IInv, TypeOK
    <3> QED
      BY <1>0, <2>0, <2>1, <3>1, SMT, Z3, SMTT(9) DEF Max2
  <2>2. CASE leftEpoch # ep
    <3>1. emitted' = emitted
      BY <2>2 DEF CloseOut
    <3> QED
      BY <1>0, <2>0, <2>2, <3>1, SMT, Z3, SMTT(9) DEF IInv, TypeOK
  <2> QED
    BY <2>1, <2>2
<1>2. TypeOK'
  BY <1>0, <1>1, MLAITypes DEF IInv, TypeOK, CloseOut, Evict, TS, Epoch, Max2
<1>3. RefCounts'
  <2>1. /\ Tracked(closed + 1)' = Tracked(next + 1)
        /\ Tracked(next + 1)' = {}
    BY <1>0, SMT, Z3, SMTT(9) DEF Tracked, CloseOut, IInv, OnASide, OnLeft, OnRight, TypeOK, PropState
  <2> QED
    BY <1>0, <2>1, CountsNone DEF RefCounts, CloseOut, IInv
<1>4. OnASide'
  <2>1. Tracked(closed + 1) = {}
    BY CountsNone DEF CloseOut, CanClose, IInv, RefCounts
  <2> QED
    BY <1>0, <2>1 DEF OnASide, OnLeft, OnRight, CloseOut, IInv, Tracked
<1>5. EpochOrder(b)'
  BY <1>0, <1>1, SMT, Z3, SMTT(9) DEF EpochOrder, CloseOut, Max2
<1>6. AllAccounted(b)'
  <2> SUFFICES ASSUME NEW p \in Proposal, prop[p].pc = "released", b <= prop[p].epoch
               PROVE  Accounted(p)'
    BY DEF IInv, AllAccounted
  <2> DEFINE e == prop[p].epoch  r == prop[p].range
             lai == prop[p].lai  ts == prop[p].ts
  <2>1. e \in Epoch /\ r \in RangeID /\ Accounted(p) /\ e \in Int /\ lai \in Int /\ ts \in Int
    BY SMT, Z3, SMTT(9) DEF IInv, AllAccounted, TypeOK, PropState, Epoch
  <2>2. /\ closed' = next /\ closedEpoch' = leftEpoch /\ prop' = prop
        /\ leftEpoch' = Max2(rightEpoch, ep)
        /\ leftMLAI' = IF rightEpoch < ep THEN NoMLAI ELSE rightMLAI
    BY DEF CloseOut, Evict
  <2>3. /\ emitted[e].mlai[r] \in Int /\ emitted'[e].mlai[r] \in Int
        /\ leftMLAI[r] \in Int /\ rightMLAI[r] \in Int
        /\ emitted[e].ts \in Int /\ emitted[e].ts <= closed /\ emitted'[e].ts \in Int
    BY <1>1, <2>1, SMT, Z3, SMTT(9) DEF IInv, TypeOK, MLAI, TS, EpochOrder
  <2>a. ASSUME \/ lai <= emitted'[e].mlai[r]
               \/ leftEpoch' = e /\ lai <= leftMLAI'[r] /\ ts > closed'
               \/ (e < expEpoch' \/ e < closedEpoch') /\ ts > emitted'[e].ts
               \/ e < leftEpoch' /\ ts > closed'
        PROVE  Accounted(p)'
    BY <2>a, <2>2 DEF Accounted
  <2>4. CASE lai <= emitted[e].mlai[r]
    <3>1. emitted'[e].mlai[r] >= emitted[e].mlai[r]
      BY <1>1, <2>1
    <3>2. lai <= emitted'[e].mlai[r]
      BY <2>1, <2>3, <2>4, <3>1, SMT, Z3, SMTT(9)
    <3> QED
      BY <2>a, <3>2
  <2>5. CASE leftEpoch = e /\ lai <= leftMLAI[r] /\ ts > closed
    <3>1. CASE leftEpoch = ep
      <4>1. emitted'[e].mlai[r] >= leftMLAI[r]
        BY <1>1, <2>1, <2>5, <3>1
      <4>2. lai <= emitted'[e].mlai[r]
        BY <2>1, <2>3, <2>5, <4>1, SMT, Z3, SMTT(9)
      <4> QED
        BY <2>a, <4>2
    <3>2. CASE leftEpoch # ep
      <4>1. emitted'[e] = emitted[e] /\ e < expEpoch'
        BY <1>0, <1>1, <2>1, <2>5, <3>2, SMT, Z3, SMTT(9)
      <4>2. ts > emitted'[e].ts
        BY <1>0, <2>1, <2>3, <2>5, <4>1, SMT, Z3, SMTT(9)
      <4> QED
        BY <2>a, <4>1, <4>2
    <3> QED
      BY <3>1, <3>2
  <2>6. CASE rightEpoch = e /\ lai <= rightMLAI[r] /\ ts > next
    <3>1. CASE rightEpoch >= ep
      <4>1. leftEpoch' = e /\ leftMLAI'[r] = rightMLAI[r]
        BY <1>0, <2>2, <2>6, <3>1, SMT, Z3, SMTT(9) DEF Max2
      <4> QED
        BY <2>a, <2>2, <2>6, <4>1
    <3>2. CASE rightEpoch < ep
      <4>1. emitted'[e].ts <= next /\ e < expEpoch'
        BY <1>0, <1>1, <2>1, <2>6, <3>2
      <4>2. ts > emitted'[e].ts
        BY <1>0, <2>1, <2>3, <2>6, <4>1, SMT, Z3, SMTT(9)
      <4> QED
        BY <2>a, <4>1, <4>2
    <3> QED
      BY <1>0, <3>1, <3>2, SMT, Z3, SMTT(9)
  <2>7. CASE (e < expEpoch \/ e < closedEpoch) /\ ts > emitted[e].ts
    <3>1. emitted'[e] = emitted[e] /\ (e < expEpoch' \/ e < closedEpoch')
      BY <1>0, <1>1, <2>1, <2>2, <2>7, SMT, Z3, SMTT(9)
    <3> QED
      BY <2>a, <2>7, <3>1
  <2>8. CASE e < leftEpoch /\ ts > closed
    <3>1. emitted'[e] = emitted[e] /\ e < closedEpoch'
      BY <1>0, <1>1, <2>1, <2>2, <2>8, SMT, Z3, SMTT(9)
    <3>2. ts > emitted'[e].ts
      BY <1>0, <2>1, <2>3, <2>8, <3>1, SMT, Z3, SMTT(9)
    <3> QED
      BY <2>a, <3>1, <3>2
  <2>9. CASE e < rightEpoch /\ ts > next
    <3>1. e < leftEpoch' /\ ts > closed'
      BY <1>0, <2>1, <2>2, <2>9, SMT, Z3, SMTT(9) DEF Max2
    <3> QED
      BY <2>a, <3>1
  <2> QED
    BY <2>1, <2>4, <2>5, <2>6, <2>7, <2>8, <2>9 DEF Accounted
<1> QED
  BY <1>2, <1>3, <1>4, <1>5, <1>6 DEF IInv

\* Close that only repeats the last closed timestamp keeps the invariant.
LEMMA CloseIdempotentStep ==
  ASSUME NEW b \in Nat, IInv(b), NEW nxt \in TS, NEW ep \in Epoch, ep >= expEpoch, expEpoch' = ep,
         CloseIdempotent(nxt, ep), UNCHANGED prop
  PROVE  IInv(b)'
<1> USE TrackerConstants
<1>0. \A e \in Epoch : /\ emitted[e] \in [ts : TS, mlai : MLAI]
                       /\ emitted[e].ts \in Nat /\ (b <= e => emitted[e].ts <= closed)
                       /\ closed \in TS
                       /\ \A r \in RangeID : emitted[e].mlai[r] \in Nat
  BY SMT, Z3, SMTT(9) DEF IInv, TypeOK, EpochOrder, TS, MLAI
<1>1. /\ emitted' \in [Epoch -> [ts : TS, mlai : MLAI]]
      /\ \A e \in Epoch : e # ep \/ closedEpoch # ep => emitted'[e] = emitted[e]
      /\ \A e \in Epoch : b <= e => emitted'[e].ts <= closed
      /\ \A e \in Epoch, r \in RangeID : emitted'[e].mlai[r] >= emitted[e].mlai[r]
  <2>1. CASE closedEpoch = ep
    <3>1. /\ emitted' \in [Epoch -> [ts : TS, mlai : MLAI]]
          /\ \A e \in Epoch : e # ep => emitted'[e] = emitted[e]
          /\ emitted'[ep].ts = Max2(emitted[ep].ts, closed)
          /\ \A r \in RangeID : emitted'[ep].mlai[r] >= emitted[ep].mlai[r]
      BY <2>1, EmitEffect, MLAITypes DEF CloseIdempotent, IInv, TypeOK
    <3> QED
      BY <1>0, <2>1, <3>1, SMT, Z3, SMTT(9) DEF Max2, TS
  <2>2. CASE closedEpoch # ep
    <3>1. emitted' = emitted
      BY <2>2 DEF CloseIdempotent
    <3> QED
      BY <1>0, <2>2, <3>1, SMT, Z3, SMTT(9) DEF IInv, TypeOK
  <2> QED
    BY <2>1, <2>2
<1>2. TypeOK'
  BY <1>1 DEF IInv, TypeOK, CloseIdempotent
<1>3. RefCounts' /\ OnASide'
  BY DEF IInv, RefCounts, OnASide, OnLeft, OnRight, Tracked, CloseIdempotent
<1>4. EpochOrder(b)'
  BY <1>1 DEF IInv, EpochOrder, CloseIdempotent
<1>5. AllAccounted(b)'
  <2> SUFFICES ASSUME NEW p \in Proposal, prop[p].pc = "released", b <= prop[p].epoch
               PROVE  Accounted(p)'
    BY DEF IInv, AllAccounted
  <2> DEFINE e == prop[p].epoch  r == prop[p].range
  <2>0. e \in Epoch /\ r \in RangeID /\ Accounted(p)
    BY DEF IInv, AllAccounted
  <2>1. /\ e \in Epoch /\ r \in RangeID /\ Accounted(p) /\ e \in Int
        /\ prop[p].lai \in Int /\ prop[p].ts \in Int
        /\ ep \in Int /\ expEpoch \in Int /\ closedEpoch \in Int
        /\ emitted'[e].mlai[r] \in Int /\ emitted[e].mlai[r] \in Int
    <3>1. e \in Int /\ ep \in Int /\ expEpoch \in Int /\ closedEpoch \in Int
      BY <2>0, SMT, Z3, SMTT(9) DEF IInv, TypeOK, Epoch
    <3>2. prop[p].lai \in Int /\ prop[p].ts \in Int
      BY SMT, Z3, SMTT(9) DEF IInv, TypeOK, PropState
    <3>3. emitted'[e].mlai[r] \in Int /\ emitted[e].mlai[r] \in Int
      BY <1>0, <1>1, <2>0, SMT, Z3, SMTT(9) DEF MLAI
    <3> QED
      BY <2>0, <3>1, <3>2, <3>3
  <2>2. UNCHANGED <<closed, closedEpoch, next, leftMLAI, rightMLAI, leftEpoch, rightEpoch>>
    BY DEF CloseIdempotent
  <2>3. /\ emitted'[e].mlai[r] >= emitted[e].mlai[r]
        /\ e < expEpoch \/ e < closedEpoch => emitted'[e] = emitted[e]
    BY <1>1, <2>1, SMT, Z3, SMTT(9)
  <2> QED
    BY <2>1, <2>2, <2>3, SMT, Z3, SMTT(9) DEF Accounted
<1> QED
  BY <1>2, <1>3, <1>4, <1>5 DEF IInv

-----------------------------------------------------------------------------
\* A step that the tracker does not take keeps the invariant.
LEMMA StutterIInv ==
  ASSUME NEW b \in Nat, IInv(b), UNCHANGED vars PROVE IInv(b)'
BY DEF vars, IInv, TypeOK, RefCounts, OnASide, EpochOrder, AllAccounted, Accounted, Tracked, OnLeft,
       OnRight

LEMMA StepIInv == IInv(1) /\ [Next]_vars => IInv(1)'
<1> SUFFICES ASSUME IInv(1), [Next]_vars PROVE IInv(1)'
  OBVIOUS
<1>1. ASSUME NEW p \in Proposal, Track(p) PROVE IInv(1)'
  BY <1>1, TrackStep
<1>2. ASSUME NEW p \in Proposal, NEW e \in Epoch, NEW r \in RangeID, NEW lai \in LAI,
             NEW ts \in 0 .. (MaxTS + 2), Release(p, e, r, lai, ts)
      PROVE IInv(1)'
  BY <1>2, ReleaseStep
<1>3. ASSUME NEW p \in Proposal, ReleaseFailed(p) PROVE IInv(1)'
  BY <1>3, ReleaseFailedStep
<1>4. ASSUME NEW nxt \in TS, NEW ep \in Epoch, Close(nxt, ep) PROVE IInv(1)'
  BY <1>4, CloseOutStep, CloseIdempotentStep DEF Close
<1>5. ASSUME UNCHANGED vars PROVE IInv(1)'
  BY <1>5, StutterIInv
<1> QED
  BY <1>1, <1>2, <1>3, <1>4, <1>5 DEF Next

\* The inductive invariant holds in every state of the tracker.
LEMMA IInvHolds == Spec => []IInv(1)
  BY InitIInv, StepIInv, PTL DEF Spec

(* The tracker's fields and every proposal's record keep their types: in     *)
(* particular the two reference counts never go below zero, which            *)
(* releaseProposal answers with log.Fatalf.                                  *)
THEOREM TypeCorrect == Spec => []TypeOK
<1>1. IInv(1) => TypeOK
  BY DEF IInv
<1> QED
  BY <1>1, IInvHolds, PTL

(* The log.Fatalf calls of release and releaseProposal are unreachable: a    *)
(* proposal that is still evaluating is always found on a side that counts   *)
(* it.                                                                       *)
THEOREM NeverFatal == Spec => []ReleaseNeverFatal
<1>1. IInv(1) => ReleaseNeverFatal
  <2> SUFFICES ASSUME IInv(1), NEW p \in Proposal, prop[p].pc = "tracked"
               PROVE  \/ OnLeft(p) /\ leftRef > 0
                      \/ ~OnLeft(p) /\ OnRight(p) /\ rightRef > 0
    BY DEF ReleaseNeverFatal
  <2>1. CASE OnLeft(p)
    <3>1. p \in Tracked(closed + 1)
      BY <2>1 DEF Tracked, OnLeft
    <3>2. leftRef \in Nat /\ leftRef # 0
      BY <3>1, CountsNone DEF IInv, RefCounts, TypeOK
    <3> QED
      BY <2>1, <3>2, SMT, Z3, SMTT(9)
  <2>2. CASE ~OnLeft(p)
    <3>1. OnRight(p) /\ p \in Tracked(next + 1)
      BY <2>2 DEF Tracked, OnRight, IInv, OnASide
    <3>2. rightRef \in Nat /\ rightRef # 0
      BY <3>1, CountsNone DEF IInv, RefCounts, TypeOK
    <3> QED
      BY <2>2, <3>1, <3>2, SMT, Z3, SMTT(9)
  <2> QED
    BY <2>1, <2>2
<1> QED
  BY <1>1, IInvHolds, PTL

\* What the invariant says of a timestamp that Close has returned.
LEMMA Promise ==
  ASSUME NEW b \in Nat, IInv(b), NEW e \in Epoch, b <= e, NEW p \in Proposal
  PROVE  /\ prop[p].pc = "tracked" => emitted[e].ts < prop[p].minProp
         /\ prop[p].pc = "released" /\ prop[p].epoch = e /\ prop[p].ts <= emitted[e].ts
              => emitted[e].mlai[prop[p].range] >= prop[p].lai
<1>1. /\ emitted[e].ts \in Int /\ emitted[e].ts <= closed
      /\ closed \in Int /\ next \in Int /\ closed < next
  BY SMT, Z3, SMTT(9) DEF IInv, TypeOK, TS, EpochOrder, RefCounts
<1>2. /\ prop[p].lai \in Int /\ prop[p].ts \in Int
      /\ \A r \in RangeID : emitted[e].mlai[r] \in Int
  BY SMT, Z3, SMTT(9) DEF IInv, TypeOK, PropState, MLAI
<1>3. prop[p].pc = "tracked" => emitted[e].ts < prop[p].minProp
  BY <1>1, SMT, Z3, SMTT(9) DEF IInv, OnASide, OnLeft, OnRight
<1>4. ASSUME prop[p].pc = "released", prop[p].epoch = e, prop[p].ts <= emitted[e].ts
      PROVE  emitted[e].mlai[prop[p].range] >= prop[p].lai
  <2>1. Accounted(p) /\ prop[p].range \in RangeID
    BY <1>4 DEF IInv, AllAccounted
  <2> QED
    BY <1>1, <1>2, <1>4, <2>1, SMT, Z3, SMTT(9) DEF Accounted
<1> QED
  BY <1>3, <1>4

(* The promise of Close: under the epoch it was returned for, every proposal *)
(* at or below a closed timestamp is over and covered by the MLAIs returned  *)
(* so far, however epoch bumps, failures and unsuccessful closes interleave. *)
THEOREM ClosedIsCovered == Spec => []ClosedMeansCovered
<1>1. IInv(1) => ClosedMeansCovered
  <2>1. \A e \in Epoch : 1 <= e
    BY TrackerConstants, SMT, Z3, SMTT(9) DEF Epoch
  <2> QED
    BY <2>1, Promise DEF ClosedMeansCovered
<1> QED
  BY <1>1, IInvHolds, PTL

-----------------------------------------------------------------------------
(* Every lease index in m is that of a proposal, among those of ps, that was *)
(* released under the epoch.                                                 *)
HeldBy(ps, m, epoch) ==
  \A r \in RangeID : m[r] # 0 =>
    \E p \in Proposal : /\ ps[p].pc = "released" /\ ps[p].range = r
                        /\ ps[p].epoch = epoch /\ ps[p].lai = m[r]

\* release: a side whose epoch is bumped starts from an empty map, and only a
\* proposal of the side's epoch is recorded.
LEMMA ReleaseKeepsSides ==
  ASSUME TypeOK, SidesHoldOneEpoch, NEW p \in Proposal, prop[p].pc = "tracked",
         NEW e \in 0 .. MaxEpoch, NEW r, NEW lai \in 0 .. MaxLAI,
         release(p, e, r, lai),
         \A q \in Proposal \ {p} : prop'[q] = prop[q],
         r \in RangeID => /\ prop'[p].pc = "released" /\ prop'[p].range = r
                          /\ prop'[p].epoch = e /\ prop'[p].lai = lai
  PROVE  SidesHoldOneEpoch'
<1>1. \A q \in Proposal : prop[q].pc = "released" => prop'[q] = prop[q]
  OBVIOUS
<1>2. \A epoch : HeldBy(prop', NoMLAI, epoch)
  BY DEF HeldBy, NoMLAI
<1>3. HeldBy(prop', leftMLAI, leftEpoch) /\ HeldBy(prop', rightMLAI, rightEpoch)
  BY <1>1, SMT, Z3, SMTT(9) DEF HeldBy, SidesHoldOneEpoch
<1>4. ASSUME NEW m \in MLAI, HeldBy(prop', m, e) PROVE HeldBy(prop', Record(m, r, lai), e)
  <2> SUFFICES ASSUME NEW x \in RangeID, Record(m, r, lai)[x] # 0
               PROVE  \E q \in Proposal :
                        /\ prop'[q].pc = "released" /\ prop'[q].range = x
                        /\ prop'[q].epoch = e /\ prop'[q].lai = Record(m, r, lai)[x]
    BY DEF HeldBy
  <2>1. Record(m, r, lai)[x] = IF x = r THEN Max2(m[x], lai) ELSE m[x]
    BY DEF Record
  <2>2. CASE Record(m, r, lai)[x] = m[x]
    BY <1>4, <2>2 DEF HeldBy
  <2>3. CASE x = r /\ Record(m, r, lai)[x] = lai
    BY <2>3
  <2> QED
    BY <2>1, <2>2, <2>3 DEF Max2
<1>5. /\ leftMLAI \in MLAI /\ rightMLAI \in MLAI /\ NoMLAI \in MLAI
      /\ leftEpoch \in Int /\ rightEpoch \in Int
  BY MLAITypes, SMT, Z3, SMTT(9) DEF TypeOK, Epoch
<1>6. HeldBy(prop', leftMLAI', leftEpoch') /\ HeldBy(prop', rightMLAI', rightEpoch')
  BY <1>2, <1>3, <1>4, <1>5 DEF release, Evict
<1> QED
  BY <1>6 DEF SidesHoldOneEpoch, HeldBy

\* Close: the right side, with its epoch, becomes the left, unless the closer's
\* epoch is newer; the right side starts empty.
LEMMA CloseKeepsSides ==
  ASSUME TypeOK, SidesHoldOneEpoch, NEW nxt \in TS, NEW ep \in Epoch, Close(nxt, ep)
  PROVE  SidesHoldOneEpoch'
<1>1. prop' = prop
  BY DEF Close
<1>2. CASE CloseOut(nxt, ep)
  <2>1. rightEpoch \in Int /\ ep \in Int
    BY SMT, Z3, SMTT(9) DEF TypeOK, Epoch
  <2>2. rightMLAI' = NoMLAI
    BY <1>2 DEF CloseOut
  <2>3. \/ leftMLAI' = NoMLAI
        \/ leftMLAI' = rightMLAI /\ leftEpoch' = rightEpoch
    BY <1>2, <2>1 DEF CloseOut, Evict, Max2
  <2> QED
    BY <1>1, <2>2, <2>3, SMT, Z3, SMTT(9) DEF SidesHoldOneEpoch, NoMLAI
<1>3. CASE CloseIdempotent(nxt, ep)
  BY <1>1, <1>3 DEF CloseIdempotent, SidesHoldOneEpoch
<1> QED
  BY <1>2, <1>3 DEF Close

(* "Each side tracks data which corresponds exactly to the side's epoch"     *)
(* (the comment on the tracker's sides): whatever lease index a side holds   *)
(* was released under that side's epoch, whichever of release and Close      *)
(* bumped it last.                                                           *)
THEOREM OneEpochPerSide == Spec => []SidesHoldOneEpoch
<1>1. Init => SidesHoldOneEpoch
  BY DEF Init, SidesHoldOneEpoch, NoMLAI
<1>2. IInv(1) /\ SidesHoldOneEpoch /\ [Next]_vars => SidesHoldOneEpoch'
  <2> SUFFICES ASSUME TypeOK, SidesHoldOneEpoch, [Next]_vars PROVE SidesHoldOneEpoch'
    BY DEF IInv
  <2>1. ASSUME NEW p \in Proposal, Track(p) PROVE SidesHoldOneEpoch'
    BY <2>1 DEF Track, SidesHoldOneEpoch, TypeOK
  <2>2. ASSUME NEW p \in Proposal, NEW e \in Epoch, NEW r \in RangeID, NEW lai \in LAI,
               NEW ts \in 0 .. (MaxTS + 2), Release(p, e, r, lai, ts)
        PROVE SidesHoldOneEpoch'
    <3>1. prop[p].pc = "tracked" /\ release(p, e, r, lai)
      BY <2>2 DEF Release
    <3>2. e \in 0 .. MaxEpoch /\ lai \in 0 .. MaxLAI
      BY TrackerConstants, SMT, Z3, SMTT(9) DEF Epoch, LAI
    <3>3. /\ \A q \in Proposal \ {p} : prop'[q] = prop[q]
          /\ prop'[p].pc = "released" /\ prop'[p].range = r
          /\ prop'[p].epoch = e /\ prop'[p].lai = lai
      BY <2>2 DEF Release, TypeOK, PropState
    <3> QED
      BY <3>1, <3>2, <3>3, ReleaseKeepsSides
  <2>3. ASSUME NEW p \in Proposal, ReleaseFailed(p) PROVE SidesHoldOneEpoch'
    <3>1. prop[p].pc = "tracked" /\ release(p, 0, NoRange, 0)
      BY <2>3 DEF ReleaseFailed
    <3>2. 0 \in 0 .. MaxEpoch /\ 0 \in 0 .. MaxLAI /\ NoRange \notin RangeID
      BY TrackerConstants, SMT, Z3, SMTT(9)
    <3>3. \A q \in Proposal \ {p} : prop'[q] = prop[q]
      BY <2>3 DEF ReleaseFailed, TypeOK
    <3> QED
      BY <3>1, <3>2, <3>3, ReleaseKeepsSides
  <2>4. ASSUME NEW nxt \in TS, NEW ep \in Epoch, Close(nxt, ep) PROVE SidesHoldOneEpoch'
    BY <2>4, CloseKeepsSides
  <2>5. ASSUME UNCHANGED vars PROVE SidesHoldOneEpoch'
    BY <2>5 DEF vars, SidesHoldOneEpoch
  <2> QED
    BY <2>1, <2>2, <2>3, <2>4, <2>5 DEF Next
<1> QED
  BY <1>1, <1>2, IInvHolds, PTL DEF Spec

-----------------------------------------------------------------------------
(***************************************************************************)
(* Types of what does not belong to the tracker.                           *)
(***************************************************************************)

LeaseType == [seq : Nat, holder : {"n1", "n2"}, epoch : Nat, start : Nat, no : Nat]

StateType == [lai : LAI, lease : LeaseType]

CmdType ==
  [kind : {"none", "write", "transfer", "emit", "dead"}, lease : LeaseType, ts : Nat, req : Nat,
   lai : 0 .. MaxLAI, latched : BOOLEAN, again : BOOLEAN]

RaftType ==
  [kind : {"write", "transfer", "request"}, from : Proposal \cup {NoRange}, seq : Nat,
   lai : 0 .. MaxLAI, ts : Nat, lease : LeaseType]

EntryType == [cmd : RaftType, ok : BOOLEAN, retry : BOOLEAN, after : StateType]

RangeTypeOK ==
  /\ now \in TS /\ live \in Epoch /\ known \in Epoch /\ exp \in [Epoch -> Nat]
  /\ booted \in Nat /\ starting \in BOOLEAN
  /\ log \in Seq(EntryType) /\ pos \in 0 .. Len(log)
  /\ raft \subseteq RaftType
  /\ cmd \in [Proposal -> CmdType]
  /\ liBase \in 0 .. MaxLAI
  /\ pending \in {"none", "transfer", "request"}
  /\ minLease \in Nat /\ minProposedTS \in Nat /\ leases \in Nat /\ lowWater \in Nat

\* Arithmetic that first-order steps rest on.
LEMMA Order ==
  /\ \A x \in Nat : x <= x /\ x \in 0 .. x
  /\ \A x, y \in Nat : x <= y => x # y + 1 /\ ~(y < x)
  /\ \A x, y \in Nat : x <= y => x < y \/ x = y
  /\ \A x, y, z \in Nat : x < y /\ y <= z => z > x
  /\ \A x, y, z \in Nat : ~(y <= x) /\ y <= z => z > x
  /\ \A x, y, z \in Nat : x >= y /\ x <= z => y <= z
  /\ \A n \in Nat : \A i \in 0 .. n + 1 : i \in 0 .. n \/ i = n + 1
BY SMT, Z3, SMTT(9)

LEMMA Later ==
  /\ \A x \in Nat : x <= x /\ x <= x + 1
  /\ \A x, y \in Nat : x <= y => x <= y + 1
  /\ \A x, y, z \in Nat : x <= y /\ y <= z => x <= z
BY SMT, Z3, SMTT(9)

-----------------------------------------------------------------------------
(***************************************************************************)
(* Leases.                                                                 *)
(***************************************************************************)

L(i) == After(i).lease

\* Clocks, liveness and numbers of leases.  An epoch that was incremented by
\* another node had expired.
TimeInv ==
  /\ Target <= now /\ known <= live /\ minLease <= leases /\ minProposedTS <= now
  /\ booted <= now
  /\ \A e \in Epoch : e < live => e < known \/ exp[e] <= now

InRange(l) ==
  l.start <= now /\ l.no <= leases /\ (l.holder = "n1" => l.epoch \in Epoch /\ l.epoch <= live)

\* Leases follow each other in the order of their sequence numbers.
LogInv ==
  /\ \A i \in 0 .. Len(log) : InRange(L(i))
  /\ \A i, j \in 0 .. Len(log) : i <= j =>
       /\ L(i).seq <= L(j).seq /\ L(i).start <= L(j).start
       /\ L(i).seq = L(j).seq => L(i) = L(j)

\* n1 does not use its lease l any more, at least not from the time s on: it is
\* proscribed, or of an epoch that is over.
Gone(l, s) ==
  l.holder = "n1" =>
    l.no <= minLease \/ l.epoch < known \/ (l.epoch < live /\ exp[l.epoch] <= s)

\* A lease that was replaced is gone when the next one starts.
Replaced ==
  \A i, j \in 0 .. Len(log) : L(i).seq < L(j).seq => Gone(L(i), L(j).start)

\* A command of n1 was let in under a lease that n1 has applied.
LetIn(c) ==
  c.kind \in {"write", "transfer", "emit"} =>
    /\ \E i \in 0 .. pos : c.lease = L(i)
    /\ c.lease.holder = "n1"
    /\ c.kind = "transfer" =>
         /\ c.lease.no <= minLease /\ c.lease.start <= c.ts /\ c.ts <= now
         /\ PromptLatches => c.req = c.ts

CmdInv == \A p \in Proposal : LetIn(cmd[p])

\* What a command does to the lease under which it is proposed, if that is l.
Replaces(c, l) ==
  l.seq = c.seq => Gone(l, c.lease.start) /\ l.start <= c.lease.start

Proposed(c) ==
  /\ c.seq <= tail.lease.seq
  /\ c.kind # "write" =>
       /\ c.lease.seq = c.seq + 1 /\ InRange(c.lease)
       /\ \A i \in 0 .. Len(log) : Replaces(c, L(i))

RaftInv == \A c \in raft : Proposed(c)

LeaseInv == RangeTypeOK /\ TimeInv /\ LogInv /\ Replaced /\ CmdInv /\ RaftInv

LEMMA Constants ==
  /\ MaxTS \in Nat /\ MaxEpoch \in Nat \ {0} /\ MaxLAI \in Nat \ {0}
  /\ Target \in Nat \ {0} /\ Target < MaxTS /\ Lifetime \in Nat \ {0}
  /\ NoRange \notin Proposal /\ NoRange \notin RangeID
BY TrackerConstants, FollowerReadsConstants

LEMMA FirstStateType == FirstState \in StateType /\ NoLease \in LeaseType
BY Constants, SMT, Z3, SMTT(9) DEF FirstState, StateType, LeaseType, NoLease, LAI

LEMMA NoCmdType == NoCmd \in CmdType /\ DeadCmd \in CmdType /\ DeadCmd.kind = "dead"
<1>1. NoCmd \in CmdType
  BY FirstStateType, Constants, SMT, Z3, SMTT(9) DEF NoCmd, CmdType
<1> QED
  BY <1>1 DEF DeadCmd, CmdType

\* What is known of the states along the log.
LEMMA States ==
  ASSUME RangeTypeOK
  PROVE  /\ Len(log) \in Nat /\ pos \in 0 .. Len(log) /\ pos \in Nat
         /\ \A i \in 0 .. Len(log) :
              /\ After(i) \in StateType /\ L(i) \in LeaseType
              /\ L(i).seq \in Nat /\ L(i).epoch \in Nat /\ L(i).start \in Nat /\ L(i).no \in Nat
              /\ L(i).holder \in {"n1", "n2"}
         /\ n1 \in StateType /\ n1.lease = L(pos)
         /\ tail \in StateType /\ tail.lease = L(Len(log))
<1>1. log \in Seq(EntryType) /\ Len(log) \in Nat
  BY SMT, Z3, SMTT(9) DEF RangeTypeOK
<1>2. \A i \in 1 .. Len(log) : log[i] \in EntryType
  BY <1>1, SMT, Z3, SMTT(9)
<1>3. \A i \in 0 .. Len(log) : After(i) \in StateType
  BY <1>1, <1>2, FirstStateType, SMT, Z3, SMTT(9) DEF After, EntryType
<1>4. \A i \in 0 .. Len(log) : L(i) \in LeaseType
  BY <1>3 DEF L, StateType
<1> QED
  BY <1>1, <1>3, <1>4, SMT, Z3, SMTT(9) DEF RangeTypeOK, n1, tail, L, LeaseType

\* An entry is added to the log.
LEMMA Appended ==
  ASSUME RangeTypeOK, NEW x \in EntryType, log' = Append(log, x)
  PROVE  /\ log' \in Seq(EntryType) /\ Len(log') = Len(log) + 1 /\ pos \in 0 .. Len(log')
         /\ \A i \in 1 .. Len(log) : log'[i] = log[i]
         /\ log'[Len(log) + 1] = x
         /\ \A i \in 0 .. Len(log) : After(i)' = After(i) /\ L(i)' = L(i)
         /\ \A i : i = Len(log) + 1 => After(i)' = x.after
<1>1. log \in Seq(EntryType) /\ Len(log) \in Nat
  BY SMT, Z3, SMTT(9) DEF RangeTypeOK
<1>2. /\ log' \in Seq(EntryType) /\ Len(log') = Len(log) + 1
      /\ \A i \in 1 .. Len(log) : log'[i] = log[i]
      /\ log'[Len(log) + 1] = x
  BY <1>1, SMT, Z3, SMTT(9)
<1>3. \A i \in 0 .. Len(log) : After(i)' = After(i)
  BY <1>1, <1>2, SMT, Z3, SMTT(9) DEF After
<1>4. \A i : i = Len(log) + 1 => After(i)' = x.after
  BY <1>1, <1>2, SMT, Z3, SMTT(9) DEF After
<1>5. pos \in 0 .. Len(log')
  BY <1>1, <1>2, SMT, Z3, SMTT(9) DEF RangeTypeOK
<1> QED
  BY <1>2, <1>3, <1>4, <1>5 DEF L

\* What never goes back.
Advance ==
  /\ now <= now' /\ live <= live' /\ known <= known'
  /\ minLease <= minLease' /\ leases <= leases'
  /\ \A e \in Epoch : e < live => exp'[e] = exp[e]

LEMMA GoneStays ==
  ASSUME RangeTypeOK, RangeTypeOK', Advance, NEW l \in LeaseType, NEW s, Gone(l, s),
         l.holder = "n1" => l.epoch \in Epoch
  PROVE  Gone(l, s)'
<1>1. /\ l.no \in Nat /\ l.epoch \in Nat /\ minLease \in Nat /\ minLease' \in Nat
      /\ known \in Nat /\ known' \in Nat /\ live \in Nat /\ live' \in Nat
  BY Constants, SMT, Z3, SMTT(9) DEF LeaseType, RangeTypeOK, Epoch
<1> QED
  BY <1>1, SMT, Z3, SMTT(9) DEF Gone, Advance

LEMMA InRangeStays ==
  ASSUME RangeTypeOK, RangeTypeOK', Advance, NEW l \in LeaseType, InRange(l)
  PROVE  InRange(l)'
<1>1. /\ l.start \in Nat /\ now \in Nat /\ now' \in Nat /\ now <= now'
      /\ l.epoch \in Nat /\ live \in Nat /\ live' \in Nat /\ live <= live'
      /\ l.no \in Nat /\ leases \in Nat /\ leases' \in Nat /\ leases <= leases'
  BY Constants, SMT, Z3, SMTT(9) DEF Advance, RangeTypeOK, TS, Epoch, LeaseType
<1> QED
  BY <1>1, SMT, Z3, SMTT(9) DEF InRange

\* A step that adds nothing to the log keeps what is known of it.
LEMMA LogStays ==
  ASSUME LeaseInv, RangeTypeOK', Advance, UNCHANGED log
  PROVE  LogInv' /\ Replaced'
<1>1. \A i \in 0 .. Len(log) : L(i)' = L(i) /\ L(i) \in LeaseType
  BY States DEF LeaseInv, L, After
<1>2. \A l \in LeaseType : InRange(l) => InRange(l)'
  BY InRangeStays DEF LeaseInv
<1>3. \A i \in 0 .. Len(log) : InRange(L(i))'
  BY <1>1, <1>2 DEF LeaseInv, LogInv, InRange
<1>4. LogInv'
  BY <1>1, <1>3, SMT, Z3, SMTT(9) DEF LeaseInv, LogInv
<1>5. \A l \in LeaseType : \A s : InRange(l) /\ Gone(l, s) => Gone(l, s)'
  BY GoneStays DEF LeaseInv, InRange
<1>6. ASSUME NEW i \in 0 .. Len(log), NEW j \in 0 .. Len(log), L(i).seq < L(j).seq
      PROVE  Gone(L(i), L(j).start)'
  <2>1. PICK l \in LeaseType : l = L(i)
    BY <1>1
  <2>2. PICK s : s = L(j).start
    OBVIOUS
  <2>3. InRange(l) /\ Gone(l, s)
    BY <1>6, <2>1, <2>2 DEF LeaseInv, LogInv, Replaced
  <2>4. Gone(l, s)'
    BY <1>5, <2>3
  <2> QED
    BY <1>1, <2>1, <2>2, <2>4 DEF Gone
<1> QED
  BY <1>1, <1>4, <1>6 DEF Replaced

LEMMA LetInStays ==
  ASSUME LeaseInv, RangeTypeOK', Advance, pos <= pos', \A i \in 0 .. pos : L(i)' = L(i),
         NEW c \in CmdType, LetIn(c)
  PROVE  LetIn(c)'
<1>1. /\ pos \in Nat /\ pos' \in Nat /\ now \in Nat /\ now' \in Nat /\ c.ts \in Nat
      /\ minLease \in Nat /\ minLease' \in Nat /\ c.lease.no \in Nat
  BY Constants, States, SMT, Z3, SMTT(9) DEF LeaseInv, RangeTypeOK, TS, CmdType, LeaseType
<1>2. ASSUME c.kind \in {"write", "transfer", "emit"} PROVE \E i \in 0 .. pos' : c.lease = L(i)'
  <2>1. PICK i \in 0 .. pos : c.lease = L(i)
    BY <1>2 DEF LetIn
  <2>2. i \in 0 .. pos' /\ c.lease = L(i)'
    BY <1>1, <2>1, SMT, Z3, SMTT(9)
  <2> QED
    BY <2>2
<1> QED
  BY <1>1, <1>2, SMT, Z3, SMTT(9) DEF LetIn, Advance

LEMMA ReplacesStays ==
  ASSUME LeaseInv, RangeTypeOK', Advance, NEW c \in RaftType, NEW l \in LeaseType,
         InRange(l), Replaces(c, l)
  PROVE  Replaces(c, l)'
<1>1. PICK s : s = c.lease.start
  OBVIOUS
<1>2. Gone(l, s) => Gone(l, s)'
  BY GoneStays DEF LeaseInv, InRange
<1> QED
  BY <1>1, <1>2 DEF Replaces

LEMMA ProposedStays ==
  ASSUME LeaseInv, RangeTypeOK', Advance, UNCHANGED log, NEW c \in RaftType, Proposed(c)
  PROVE  Proposed(c)'
<1>1. \A i \in 0 .. Len(log) : L(i)' = L(i) /\ L(i) \in LeaseType /\ InRange(L(i))
  BY States DEF LeaseInv, L, After, LogInv
<1>2. tail' = tail /\ c.lease \in LeaseType
  BY DEF tail, After, RaftType
<1>3. InRange(c.lease) => InRange(c.lease)'
  BY <1>2, InRangeStays DEF LeaseInv
<1>4. ASSUME NEW i \in 0 .. Len(log), Replaces(c, L(i)) PROVE Replaces(c, L(i))'
  <2>1. PICK l \in LeaseType : l = L(i)
    BY <1>1
  <2>2. Replaces(c, l)'
    BY <1>1, <1>4, <2>1, ReplacesStays
  <2> QED
    BY <1>1, <2>1, <2>2 DEF Replaces, Gone
<1> QED
  BY <1>1, <1>2, <1>3, <1>4 DEF Proposed

\* The same command, for all that concerns its lease.
Like(c, d) ==
  /\ d.kind = c.kind /\ d.lease = c.lease
  /\ c.kind = "transfer" => d.ts = c.ts /\ d.req = c.req

\* A step that adds nothing to the log.
LEMMA QuietStep ==
  ASSUME LeaseInv, RangeTypeOK', TimeInv', Advance, UNCHANGED log, pos <= pos',
         \A p \in Proposal : \/ cmd'[p].kind \in {"none", "dead"}
                             \/ \E q \in Proposal : Like(cmd[q], cmd'[p])
                             \/ LetIn(cmd[p])',
         \A c \in raft' : c \in raft \/ Proposed(c)'
  PROVE  LeaseInv'
<1>1. LogInv' /\ Replaced'
  BY LogStays
<1>2. \A i \in 0 .. pos : L(i)' = L(i)
  BY DEF L, After
<1>3. ASSUME NEW p \in Proposal, NEW q \in Proposal, Like(cmd[q], cmd'[p]) PROVE LetIn(cmd[p])'
  <2>1. PICK c \in CmdType : c = cmd[q]
    BY DEF LeaseInv, RangeTypeOK
  <2>2. LetIn(c)
    BY <2>1 DEF LeaseInv, CmdInv
  <2>3. LetIn(c)'
    BY <1>2, <2>2, LetInStays
  <2> QED
    BY <1>3, <2>1, <2>3 DEF LetIn, Like
<1>4. CmdInv'
  BY <1>3 DEF CmdInv, LetIn
<1>5. RaftInv'
  BY ProposedStays DEF LeaseInv, RaftInv, RangeTypeOK
<1> QED
  BY <1>1, <1>4, <1>5 DEF LeaseInv

\* The lease m follows the lease l.
Succeeds(m, l) ==
  m.seq = l.seq + 1 /\ l.start <= m.start /\ Gone(l, m.start)

\* A step that adds an entry to the log, with the same lease or the next one.
LEMMA AppendStep ==
  ASSUME LeaseInv, RangeTypeOK', TimeInv', Advance, UNCHANGED <<pos, cmd>>, raft' \subseteq raft,
         NEW x \in EntryType, log' = Append(log, x),
         \/ x.after.lease = tail.lease
         \/ Succeeds(x.after.lease, tail.lease) /\ InRange(x.after.lease)'
  PROVE  LeaseInv'
<1> DEFINE n == Len(log)  m == x.after.lease  t == tail.lease
<1>1. /\ n \in Nat /\ Len(log') = n + 1 /\ m \in LeaseType /\ t \in LeaseType
      /\ \A i \in 0 .. n : L(i)' = L(i) /\ L(i) \in LeaseType /\ InRange(L(i))
      /\ \A i : i = n + 1 => L(i)' = m
      /\ t = L(n)
  BY States, Appended DEF LeaseInv, L, LogInv, EntryType, StateType
<1>2. /\ \A i \in 0 .. n : /\ L(i).seq <= t.seq /\ L(i).start <= t.start
                           /\ L(i).seq = t.seq => L(i) = t
      /\ t.seq \in Nat /\ t.start \in Nat /\ m.seq \in Nat /\ m.start \in Nat
      /\ \A i \in 0 .. n : L(i).seq \in Nat /\ L(i).start \in Nat
  <2>1. \A i \in 0 .. n : L(i).seq \in Nat /\ L(i).start \in Nat
    BY States DEF LeaseInv
  <2>2. t.seq \in Nat /\ t.start \in Nat /\ m.seq \in Nat /\ m.start \in Nat
    BY <1>1 DEF LeaseType
  <2>3. \A i \in 0 .. n : i <= n /\ n \in 0 .. n
    BY <1>1, SMT, Z3, SMTT(9)
  <2> QED
    BY <1>1, <2>1, <2>2, <2>3 DEF LeaseInv, LogInv
<1>3. /\ t.start <= m.start
      /\ m = t \/ (m.seq = t.seq + 1 /\ Gone(t, m.start))
  BY <1>1, <1>2, SMT, Z3, SMTT(9) DEF Succeeds
<1>4. \A l \in LeaseType : InRange(l) => InRange(l)'
  BY InRangeStays DEF LeaseInv
<1>5. \A l \in LeaseType : \A s : InRange(l) /\ Gone(l, s) => Gone(l, s)'
  BY GoneStays DEF LeaseInv, InRange
<1>6. ASSUME NEW i \in 0 .. n + 1, NEW j \in 0 .. n + 1, i <= j
      PROVE  /\ (L(i).seq <= L(j).seq /\ L(i).start <= L(j).start)'
             /\ (L(i).seq = L(j).seq => L(i) = L(j))'
  <2>1. CASE j \in 0 .. n
    BY <1>1, <1>6, <2>1, SMT, Z3, SMTT(9) DEF LeaseInv, LogInv
  <2>2. CASE i \in 0 .. n /\ j = n + 1
    <3>1. L(i)' = L(i) /\ L(j)' = m
      BY <1>1, <2>2
    <3>2. /\ L(i).seq <= t.seq /\ L(i).start <= t.start /\ (L(i).seq = t.seq => L(i) = t)
          /\ L(i).seq \in Nat /\ L(i).start \in Nat
      BY <1>2, <2>2
    <3> QED
      BY <1>2, <1>3, <3>1, <3>2, SMT, Z3, SMTT(9)
  <2>3. CASE i = n + 1 /\ j = n + 1
    <3>1. L(i)' = m /\ L(j)' = m
      BY <1>1, <2>3
    <3> QED
      BY <1>2, <3>1, Later
  <2> QED
    BY <1>1, <1>6, <2>1, <2>2, <2>3, SMT, Z3, SMTT(9)
<1>7. \A i \in 0 .. n + 1 : InRange(L(i))'
  <2>1. \A i \in 0 .. n : InRange(L(i))'
    BY <1>1, <1>4 DEF InRange
  <2>2. InRange(x.after.lease)'
    <3>1. CASE m = t
      BY <1>1, <1>4, <3>1, SMT, Z3, SMTT(9) DEF InRange
    <3> QED
      BY <3>1
  <2> QED
    BY <1>1, <2>1, <2>2, SMT, Z3, SMTT(9) DEF InRange
<1>8. LogInv'
  BY <1>1, <1>6, <1>7 DEF LogInv
<1>9. ASSUME NEW i \in 0 .. n, NEW s \in Nat, t.start <= s, L(i) # t PROVE Gone(L(i), s)
  <2>1. L(i).seq < t.seq
    BY <1>2, <1>9, SMT, Z3, SMTT(9)
  <2>2. Gone(L(i), t.start)
    BY <1>1, <2>1, SMT, Z3, SMTT(9) DEF LeaseInv, Replaced
  <2>3. L(i).holder = "n1" => exp[L(i).epoch] \in Nat
    BY <1>1 DEF LeaseInv, RangeTypeOK, InRange
  <2> QED
    BY <1>2, <1>9, <2>2, <2>3, SMT, Z3, SMTT(9) DEF Gone
<1>10. ASSUME NEW i \in 0 .. n, (L(i).seq < m.seq) PROVE Gone(L(i), m.start)
  BY <1>2, <1>3, <1>9, <1>10, SMT, Z3, SMTT(9)
<1>11. ASSUME NEW i \in 0 .. n + 1, NEW j \in 0 .. n + 1, (L(i).seq < L(j).seq)'
       PROVE  Gone(L(i), L(j).start)'
  <2>1. i \in 0 .. n
    <3>1. CASE i = n + 1
      <4>1. L(i)' = m /\ L(j)'.seq \in Nat
        BY <1>1, <1>2, <3>1, SMT, Z3, SMTT(9)
      <4>2. (L(j).seq <= L(i).seq)'
        BY <1>1, <1>6, <3>1, SMT, Z3, SMTT(9)
      <4> QED
        BY <1>2, <1>11, <4>1, <4>2, SMT, Z3, SMTT(9)
    <3> QED
      BY <1>1, <3>1, SMT, Z3, SMTT(9)
  <2>2. PICK l \in LeaseType : l = L(i) /\ InRange(l)
    BY <1>1, <2>1
  <2>3. PICK s : s = L(j)'.start
    OBVIOUS
  <2>4. Gone(l, s)
    <3>1. CASE j \in 0 .. n
      BY <1>1, <1>11, <2>1, <2>2, <2>3, <3>1 DEF LeaseInv, Replaced
    <3>2. CASE j = n + 1
      BY <1>1, <1>10, <1>11, <2>1, <2>2, <2>3, <3>2
    <3> QED
      BY <1>1, <3>1, <3>2, SMT, Z3, SMTT(9)
  <2>5. Gone(l, s)'
    BY <1>5, <2>2, <2>4
  <2> QED
    BY <1>1, <2>1, <2>2, <2>3, <2>5 DEF Gone
<1>12. Replaced'
  BY <1>1, <1>11 DEF Replaced
<1>13. CmdInv'
  <2> SUFFICES ASSUME NEW p \in Proposal PROVE LetIn(cmd[p])'
    BY DEF CmdInv
  <2>1. PICK c \in CmdType : c = cmd[p] /\ LetIn(c)
    BY DEF LeaseInv, RangeTypeOK, CmdInv
  <2>2. pos <= pos' /\ \A i \in 0 .. pos : L(i)' = L(i)
    BY <1>1, States, SMT, Z3, SMTT(9) DEF LeaseInv
  <2>3. LetIn(c)'
    BY <2>1, <2>2, LetInStays
  <2> QED
    BY <2>1, <2>3 DEF LetIn
<1>14. RaftInv'
  <2> SUFFICES ASSUME NEW c \in raft PROVE Proposed(c)'
    BY DEF RaftInv
  <2>1. c \in RaftType /\ c.seq \in Nat /\ c.lease \in LeaseType /\ Proposed(c)
    BY DEF LeaseInv, RangeTypeOK, RaftType, RaftInv
  <2>2. c.seq <= t.seq /\ tail'.lease = m
    BY <1>1, <2>1 DEF Proposed, tail, L
  <2>3. ASSUME c.kind # "write", NEW i \in 0 .. n + 1 PROVE Replaces(c, L(i))'
    <3>1. PICK l \in LeaseType : l = L(i)'
      BY <1>1, SMT, Z3, SMTT(9)
    <3>2. CASE l.seq = c.seq
      <4>1. \E k \in 0 .. n : l = L(k)
        <5>1. CASE i \in 0 .. n
          BY <1>1, <3>1, <5>1
        <5>2. CASE i = n + 1
          <6>1. l = m /\ n \in 0 .. n
            BY <1>1, <3>1, <5>2, Order
          <6>2. m = t
            BY <1>2, <1>3, <2>1, <2>2, <3>2, <6>1, Order
          <6> QED
            BY <1>1, <6>1, <6>2
        <5> QED
          BY <1>1, <5>1, <5>2, Order
      <4>2. InRange(l) /\ Replaces(c, l)
        BY <1>1, <2>1, <2>3, <4>1 DEF Proposed
      <4>3. Replaces(c, l)'
        BY <2>1, <4>2, ReplacesStays
      <4> QED
        BY <3>1, <4>3 DEF Replaces, Gone
    <3>3. CASE l.seq # c.seq
      BY <3>1, <3>3 DEF Replaces
    <3> QED
      BY <3>2, <3>3
  <2>4. InRange(c.lease) => InRange(c.lease)'
    BY <1>4, <2>1
  <2> QED
    <3>1. t.seq \in Nat /\ m.seq \in Nat /\ (m = t \/ m.seq = t.seq + 1)
      BY <1>2, <1>3
    <3>2. c.seq <= m.seq
      BY <2>1, <2>2, <3>1, SMT, Z3, SMTT(9)
    <3> QED
      BY <1>1, <2>1, <2>2, <2>3, <2>4, <3>2 DEF Proposed
<1> QED
  BY <1>8, <1>12, <1>13, <1>14 DEF LeaseInv

-----------------------------------------------------------------------------
(***************************************************************************)
(* Every action keeps what is known of the leases.                         *)
(***************************************************************************)

LEMMA Numbers ==
  ASSUME RangeTypeOK
  PROVE  /\ now \in Nat /\ now <= MaxTS /\ live \in Nat /\ known \in Nat /\ booted \in Nat
         /\ minLease \in Nat /\ minProposedTS \in Nat /\ leases \in Nat /\ lowWater \in Nat
         /\ \A e \in Epoch : e \in Nat /\ exp[e] \in Nat
BY Constants, SMT, Z3, SMTT(9) DEF RangeTypeOK, TS, Epoch

\* Time and liveness stand still.
LEMMA StillTime ==
  ASSUME LeaseInv, RangeTypeOK', UNCHANGED <<now, nodeVars>>, minLease <= minLease',
         minLease' <= leases', leases <= leases', minProposedTS' <= now
  PROVE  TimeInv' /\ Advance
BY Numbers, SMT, Z3, SMTT(9) DEF LeaseInv, TimeInv, Advance, nodeVars

\* Nothing of it changes.
LEMMA UnchangedLeases ==
  ASSUME LeaseInv, UNCHANGED <<now, nodeVars, pos, rangeVars>>
  PROVE  LeaseInv'
<1>1. RangeTypeOK'
  BY DEF LeaseInv, RangeTypeOK, nodeVars, rangeVars
<1>2. TimeInv' /\ Advance
  BY <1>1, StillTime, Numbers, SMT, Z3, SMTT(9) DEF LeaseInv, TimeInv, rangeVars
<1>3. \A p \in Proposal : Like(cmd[p], cmd'[p])
  BY DEF rangeVars, Like
<1>4. pos <= pos' /\ UNCHANGED <<log, raft>>
  BY States, Order DEF LeaseInv, rangeVars
<1>5. \A c \in raft' : c \in raft
  BY <1>4
<1> QED
  BY <1>1, <1>2, <1>3, <1>4, <1>5, QuietStep

\* The expiration of a heartbeat is later than now.
LEMMA ExpirationType ==
  ASSUME RangeTypeOK PROVE Expiration \in Nat /\ now < Expiration
BY Numbers, Constants, SMT, Z3, SMTT(9) DEF Expiration

LEMMA TickLeases == ASSUME LeaseInv, Tick PROVE LeaseInv'
<1>1. now' = now + 1 /\ UNCHANGED <<nodeVars, pos, rangeVars>> /\ now < MaxTS
  BY DEF Tick
<1>2. RangeTypeOK'
  BY <1>1, Constants, SMT, Z3, SMTT(9) DEF LeaseInv, RangeTypeOK, nodeVars, rangeVars, TS
<1>3. TimeInv' /\ Advance
  BY <1>1, Numbers, Constants, SMT, Z3, SMTT(9) DEF LeaseInv, TimeInv, Advance, nodeVars, rangeVars
<1>4. \A p \in Proposal : Like(cmd[p], cmd'[p])
  BY <1>1 DEF rangeVars, Like
<1> QED
  BY <1>1, <1>2, <1>3, <1>4, QuietStep, States, SMT, Z3, SMTT(9) DEF LeaseInv, rangeVars

LEMMA HeartbeatLeases == ASSUME LeaseInv, Heartbeat PROVE LeaseInv'
<1>1. /\ exp' = [exp EXCEPT ![live] = Expiration] /\ known' = live
      /\ UNCHANGED <<now, live, booted, starting, pos, rangeVars>>
  BY DEF Heartbeat
<1>2. RangeTypeOK'
  BY <1>1, ExpirationType DEF LeaseInv, RangeTypeOK, rangeVars
<1>3. TimeInv' /\ Advance
  BY <1>1, Numbers, SMT, Z3, SMTT(9) DEF LeaseInv, TimeInv, Advance, rangeVars, RangeTypeOK
<1>4. \A p \in Proposal : Like(cmd[p], cmd'[p])
  BY <1>1 DEF rangeVars, Like
<1> QED
  BY <1>1, <1>2, <1>3, <1>4, QuietStep, States, SMT, Z3, SMTT(9) DEF LeaseInv, rangeVars

LEMMA FirstHeartbeatLeases == ASSUME LeaseInv, FirstHeartbeat PROVE LeaseInv'
<1>1. /\ live' = live + 1 /\ exp' = [exp EXCEPT ![live + 1] = Expiration]
      /\ known' = live + 1 /\ starting' = FALSE /\ live < MaxEpoch
      /\ UNCHANGED <<now, booted, pos, rangeVars>>
  BY DEF FirstHeartbeat
<1>2. live + 1 \in Epoch
  BY <1>1, Numbers, Constants, SMT, Z3, SMTT(9) DEF LeaseInv, Epoch
<1>3. RangeTypeOK'
  BY <1>1, <1>2, ExpirationType DEF LeaseInv, RangeTypeOK, rangeVars
<1>4. TimeInv' /\ Advance
  BY <1>1, <1>2, Numbers, SMT, Z3, SMTT(9) DEF LeaseInv, TimeInv, Advance, rangeVars, RangeTypeOK
<1>5. \A p \in Proposal : Like(cmd[p], cmd'[p])
  BY <1>1 DEF rangeVars, Like
<1> QED
  BY <1>1, <1>3, <1>4, <1>5, QuietStep, States, SMT, Z3, SMTT(9) DEF LeaseInv, rangeVars

LEMMA RestartLeases == ASSUME LeaseInv, Restart PROVE LeaseInv'
<1>1. /\ booted' = now /\ starting' = TRUE /\ liBase' = 0 /\ pending' = "none" /\ lowWater' = now
      /\ minLease' = leases /\ minProposedTS' = now
      /\ cmd' = [p \in Proposal |-> IF Idle(p) THEN NoCmd ELSE DeadCmd]
      /\ UNCHANGED <<now, live, exp, known, log, pos, raft, leases>>
  BY DEF Restart
<1>2. /\ cmd' \in [Proposal -> CmdType]
      /\ \A p \in Proposal : cmd'[p].kind \in {"none", "dead"}
  BY <1>1, NoCmdType DEF NoCmd
<1>3. RangeTypeOK'
  BY <1>1, <1>2, Numbers, Constants, SMT, Z3, SMTT(9) DEF LeaseInv, RangeTypeOK
<1>4. TimeInv' /\ Advance
  BY <1>1, Numbers, SMT, Z3, SMTT(9) DEF LeaseInv, TimeInv, Advance
<1> QED
  BY <1>1, <1>2, <1>3, <1>4, QuietStep, States, SMT, Z3, SMTT(9) DEF LeaseInv

LEMMA CancelLeases == ASSUME LeaseInv, Cancel PROVE LeaseInv'
<1>1. /\ pending' = "none"
      /\ UNCHANGED <<now, nodeVars, pos, log, raft, cmd, liBase, minLease, minProposedTS,
                     leases, lowWater>>
  BY DEF Cancel
<1>2. RangeTypeOK'
  BY <1>1 DEF LeaseInv, RangeTypeOK, nodeVars
<1>3. TimeInv' /\ Advance
  BY <1>1, <1>2, StillTime, Numbers, SMT, Z3, SMTT(9) DEF LeaseInv, TimeInv
<1>4. \A p \in Proposal : Like(cmd[p], cmd'[p])
  BY <1>1 DEF Like
<1> QED
  BY <1>1, <1>2, <1>3, <1>4, QuietStep, States, SMT, Z3, SMTT(9) DEF LeaseInv

LEMMA JoinTransferLeases == ASSUME LeaseInv, JoinTransfer PROVE LeaseInv'
<1>1. /\ minLease' = leases /\ minProposedTS' = now
      /\ UNCHANGED <<now, nodeVars, pos, log, raft, cmd, liBase, pending, leases, lowWater>>
  BY DEF JoinTransfer
<1>2. RangeTypeOK'
  BY <1>1, Numbers DEF LeaseInv, RangeTypeOK, nodeVars
<1>3. TimeInv' /\ Advance
  BY <1>1, <1>2, StillTime, Numbers, SMT, Z3, SMTT(9) DEF LeaseInv, TimeInv
<1>4. \A p \in Proposal : Like(cmd[p], cmd'[p])
  BY <1>1 DEF Like
<1> QED
  BY <1>1, <1>2, <1>3, <1>4, QuietStep, States, SMT, Z3, SMTT(9) DEF LeaseInv

\* What n1 keeps of leases and commands besides its log and the commands' states.
BookOK ==
  /\ raft \subseteq RaftType /\ liBase \in 0 .. MaxLAI
  /\ pending \in {"none", "transfer", "request"}
  /\ minLease \in Nat /\ minProposedTS \in Nat /\ leases \in Nat /\ lowWater \in Nat
  /\ minLease <= leases /\ minProposedTS <= now

LEMMA BookStays ==
  ASSUME LeaseInv PROVE BookOK /\ minLease <= minLease /\ leases <= leases
BY Numbers, SMT, Z3, SMTT(9) DEF LeaseInv, RangeTypeOK, TimeInv, BookOK

\* A command c of n1's, the only thing that changes besides what is proscribed.
LEMMA CmdStep ==
  ASSUME LeaseInv, NEW p \in Proposal, NEW c \in CmdType, cmd' = [cmd EXCEPT ![p] = c],
         UNCHANGED <<now, nodeVars, log, pos>>, BookOK', minLease <= minLease', leases <= leases',
         c.kind \in {"none", "dead"} \/ Like(cmd[p], c) \/ LetIn(c)',
         \A d \in raft' : d \in raft \/ Proposed(d)'
  PROVE  LeaseInv'
<1>1. cmd' \in [Proposal -> CmdType] /\ cmd'[p] = c
      /\ \A q \in Proposal : q # p => cmd'[q] = cmd[q]
  BY DEF LeaseInv, RangeTypeOK
<1>2. RangeTypeOK'
  BY <1>1 DEF LeaseInv, RangeTypeOK, nodeVars, BookOK
<1>3. TimeInv' /\ Advance
  BY <1>2, StillTime DEF BookOK
<1>4. \A q \in Proposal : \/ cmd'[q].kind \in {"none", "dead"}
                          \/ \E r \in Proposal : Like(cmd[r], cmd'[q])
                          \/ LetIn(cmd[q])'
  <2> TAKE q \in Proposal
  <2>1. CASE q = p
    BY <1>1, <2>1 DEF LetIn
  <2>2. CASE q # p
    BY <1>1, <2>2 DEF Like
  <2> QED
    BY <2>1, <2>2
<1> QED
  BY <1>2, <1>3, <1>4, QuietStep, States, SMT, Z3, SMTT(9) DEF LeaseInv

LEMMA AdmitLeases == ASSUME LeaseInv, NEW p \in Proposal, Admit(p) PROVE LeaseInv'
<1>1. /\ n1.lease.holder = "n1"
      /\ UNCHANGED <<now, nodeVars, log, pos, raft, liBase, pending, minLease, minProposedTS,
                     leases, lowWater>>
  BY DEF Admit, ValidLease
<1>2. cmd[p] \in CmdType /\ n1.lease \in LeaseType /\ n1.lease = L(pos) /\ pos \in 0 .. pos
  BY States, SMT, Z3, SMTT(9) DEF LeaseInv, RangeTypeOK, StateType
<1>3. PICK c \in CmdType : c = [cmd[p] EXCEPT !.kind = "write", !.lease = n1.lease]
  BY <1>2 DEF CmdType
<1>4. c.kind = "write" /\ c.lease = L(pos) /\ c.lease.holder = "n1"
  BY <1>1, <1>2, <1>3 DEF CmdType
<1>5. cmd' = [cmd EXCEPT ![p] = c]
  BY <1>2, <1>3 DEF Admit, LeaseInv, RangeTypeOK
<1>6. LetIn(c)'
  BY <1>1, <1>2, <1>4 DEF LetIn, L, After
<1>7. BookOK' /\ minLease <= minLease' /\ leases <= leases'
  BY <1>1, BookStays DEF BookOK
<1> QED
  BY <1>1, <1>5, <1>6, <1>7, CmdStep

LEMMA AdminTransferLeaseLeases ==
  ASSUME LeaseInv, NEW p \in Proposal, AdminTransferLease(p) PROVE LeaseInv'
<1>1. /\ n1.lease.holder = "n1" /\ minLease' = leases /\ minProposedTS' = now
      /\ leases' = leases + 1 /\ pending' = "transfer"
      /\ UNCHANGED <<now, nodeVars, log, pos, raft, liBase, lowWater>>
  BY DEF AdminTransferLease
<1>2. cmd[p] \in CmdType /\ n1.lease \in LeaseType /\ n1.lease = L(pos) /\ pos \in 0 .. pos
      /\ now \in Nat
  BY States, Numbers, SMT, Z3, SMTT(9) DEF LeaseInv, RangeTypeOK, StateType
<1>3. PICK req \in SendTimes :
        cmd' = [cmd EXCEPT ![p].kind = "transfer", ![p].lease = n1.lease, ![p].ts = now,
                           ![p].req = req]
  BY DEF AdminTransferLease
<1>4. req \in Nat /\ (PromptLatches => req = now)
  BY Constants, SMT, Z3, SMTT(9) DEF SendTimes, TS
<1>5. PICK c \in CmdType : c = [cmd[p] EXCEPT !.kind = "transfer", !.lease = n1.lease, !.ts = now,
                                             !.req = req]
  BY <1>4, <1>2 DEF CmdType
<1>6. /\ c.kind = "transfer" /\ c.lease = L(pos) /\ c.lease.holder = "n1" /\ c.ts = now
      /\ PromptLatches => c.req = c.ts
  BY <1>4, <1>1, <1>2, <1>5 DEF CmdType
<1>7. cmd' = [cmd EXCEPT ![p] = c]
  BY <1>3, <1>2, <1>5 DEF LeaseInv, RangeTypeOK
<1>8. LetIn(c)'
  <2>1. c.lease.no <= minLease' /\ c.lease.start <= c.ts
    BY <1>1, <1>2, <1>6, States DEF LeaseInv, LogInv, InRange
  <2>2. c.ts <= now'
    BY <1>1, <1>2, <1>6, SMT, Z3, SMTT(9)
  <2> QED
    BY <1>1, <1>2, <1>6, <2>1, <2>2 DEF LetIn, L, After
<1>9. BookOK' /\ minLease <= minLease' /\ leases <= leases'
  BY <1>1, BookStays, Numbers, SMT, Z3, SMTT(9) DEF BookOK, LeaseInv
<1> QED
  BY <1>1, <1>7, <1>8, <1>9, CmdStep

LEMMA EmitMLAILeases == ASSUME LeaseInv, NEW p \in Proposal, EmitMLAI(p) PROVE LeaseInv'
<1>1. /\ n1.lease.holder = "n1"
      /\ UNCHANGED <<now, nodeVars, log, pos, raft, liBase, pending, minLease, minProposedTS,
                     leases, lowWater>>
  BY DEF EmitMLAI
<1>2. cmd[p] \in CmdType /\ n1.lease \in LeaseType /\ n1.lease = L(pos) /\ pos \in 0 .. pos
      /\ Max2(liBase, n1.lai) \in 0 .. MaxLAI
  BY States, Constants, SMT, Z3, SMTT(9) DEF LeaseInv, RangeTypeOK, StateType, LAI, Max2
<1>3. PICK c \in CmdType : c = [cmd[p] EXCEPT !.kind = "emit", !.lease = n1.lease,
                                              !.lai = Max2(liBase, n1.lai)]
  BY <1>2 DEF CmdType
<1>4. c.kind = "emit" /\ c.lease = L(pos) /\ c.lease.holder = "n1"
  BY <1>1, <1>2, <1>3 DEF CmdType
<1>5. cmd' = [cmd EXCEPT ![p] = c]
  BY <1>2, <1>3 DEF EmitMLAI, LeaseInv, RangeTypeOK
<1>6. LetIn(c)'
  BY <1>1, <1>2, <1>4 DEF LetIn, L, After
<1>7. BookOK' /\ minLease <= minLease' /\ leases <= leases'
  BY <1>1, BookStays DEF BookOK
<1> QED
  BY <1>1, <1>5, <1>6, <1>7, CmdStep

LEMMA LatchAndTrackLeases ==
  ASSUME LeaseInv, NEW p \in Proposal, LatchAndTrack(p) PROVE LeaseInv'
<1>1. /\ cmd' = [cmd EXCEPT ![p].latched = (cmd[p].kind # "emit")]
      /\ UNCHANGED <<now, nodeVars, log, pos, raft, liBase, pending, minLease, minProposedTS,
                     leases, lowWater>>
  BY DEF LatchAndTrack
<1>2. cmd[p] \in CmdType
  BY DEF LeaseInv, RangeTypeOK
<1>3. PICK c \in CmdType : c = [cmd[p] EXCEPT !.latched = (cmd[p].kind # "emit")]
  BY <1>2 DEF CmdType
<1>4. cmd' = [cmd EXCEPT ![p] = c] /\ Like(cmd[p], c)
  BY <1>1, <1>2, <1>3 DEF CmdType, Like
<1>5. BookOK' /\ minLease <= minLease' /\ leases <= leases'
  BY <1>1, BookStays DEF BookOK
<1> QED
  BY <1>1, <1>4, <1>5, CmdStep

LEMMA FailLeases == ASSUME LeaseInv, NEW p \in Proposal, Fail(p) PROVE LeaseInv'
<1>1. /\ cmd' = [cmd EXCEPT ![p] = DeadCmd] /\ pending' \in {"none", pending}
      /\ UNCHANGED <<now, nodeVars, log, pos, raft, liBase, minLease, minProposedTS, leases,
                     lowWater>>
  BY DEF Fail
<1>2. BookOK' /\ minLease <= minLease' /\ leases <= leases'
  BY <1>1, BookStays DEF BookOK
<1> QED
  BY <1>1, <1>2, NoCmdType, CmdStep

\* A command was let in under a lease of the log, and no other has its sequence number.
LEMMA LeaseOfCmd ==
  ASSUME LeaseInv, NEW p \in Proposal, cmd[p].kind \in {"write", "transfer", "emit"}
  PROVE  LET l == cmd[p].lease IN
         /\ l \in LeaseType /\ l.seq \in Nat /\ l.seq <= n1.lease.seq /\ l.seq <= tail.lease.seq
         /\ \E i \in 0 .. pos : l = L(i)
         /\ \A i \in 0 .. Len(log) : L(i).seq = l.seq => L(i) = l
         /\ InRange(l) /\ l.holder = "n1"
<1>1. PICK k \in 0 .. pos : cmd[p].lease = L(k)
  BY DEF LeaseInv, CmdInv, LetIn
<1>2. k \in 0 .. Len(log) /\ pos \in 0 .. Len(log) /\ Len(log) \in 0 .. Len(log)
      /\ k <= pos /\ k <= Len(log) /\ n1.lease = L(pos) /\ tail.lease = L(Len(log))
      /\ \A i \in 0 .. Len(log) : i <= k \/ k <= i
  BY <1>1, States, SMT, Z3, SMTT(9) DEF LeaseInv
<1>3. L(k) \in LeaseType /\ L(k).seq \in Nat /\ \A i \in 0 .. Len(log) : L(i).seq \in Nat
  BY <1>2, States DEF LeaseInv
<1>4. \A i \in 0 .. Len(log) : L(i).seq = L(k).seq => L(i) = L(k)
  BY <1>2 DEF LeaseInv, LogInv
<1> QED
  BY <1>1, <1>2, <1>3, <1>4 DEF LeaseInv, LogInv, CmdInv, LetIn

LEMMA ProposeWriteLeases ==
  ASSUME LeaseInv, NEW p \in Proposal, NEW ts \in TS, NEW lai \in LAI, ProposeWrite(p, ts, lai)
  PROVE  LeaseInv'
<1>1. /\ cmd[p].kind = "write" /\ liBase' = lai
      /\ UNCHANGED <<now, nodeVars, log, pos, pending, minLease, minProposedTS, leases,
                     lowWater>>
  BY DEF ProposeWrite
<1>2. PICK r : /\ r = [kind |-> "write", from |-> p, seq |-> cmd[p].lease.seq,
                       lai |-> lai, ts |-> ts, lease |-> NoLease]
               /\ raft' = raft \cup {r}
  BY DEF ProposeWrite
<1>3. cmd[p] \in CmdType /\ lai \in 0 .. MaxLAI /\ ts \in Nat
  BY Constants, SMT, Z3, SMTT(9) DEF LeaseInv, RangeTypeOK, LAI, TS
<1>4. PICK c \in CmdType : c = [cmd[p] EXCEPT !.ts = ts, !.lai = lai]
  BY <1>3 DEF CmdType
<1>5. cmd' = [cmd EXCEPT ![p] = c] /\ Like(cmd[p], c)
  BY <1>1, <1>3, <1>4 DEF ProposeWrite, LeaseInv, RangeTypeOK, Like, CmdType
<1>6. r \in RaftType /\ r.kind = "write" /\ r.seq <= tail.lease.seq
  BY <1>1, <1>2, <1>3, LeaseOfCmd, FirstStateType DEF RaftType
<1>7. Proposed(r)'
  BY <1>1, <1>6 DEF Proposed, tail, After
<1>8. BookOK' /\ minLease <= minLease' /\ leases <= leases'
  BY <1>1, <1>2, <1>3, <1>6, BookStays DEF BookOK
<1> QED
  BY <1>1, <1>2, <1>5, <1>7, <1>8, CmdStep

LEMMA ProposeTransferLeases ==
  ASSUME LeaseInv, NEW p \in Proposal, NEW lai \in LAI, ProposeTransfer(p, lai)
  PROVE  LeaseInv'
<1>1. /\ cmd[p].kind = "transfer" /\ liBase' = lai
      /\ UNCHANGED <<now, nodeVars, log, pos, pending, minLease, minProposedTS, leases,
                     lowWater>>
  BY DEF ProposeTransfer, Evaluating
<1>2. PICK m : m = [seq |-> cmd[p].lease.seq + 1, holder |-> "n2", epoch |-> 0,
                    start |-> cmd[p].ts, no |-> leases]
  OBVIOUS
<1>3. PICK r : /\ r = [kind |-> "transfer", from |-> p, seq |-> cmd[p].lease.seq,
                       lai |-> lai, ts |-> 0, lease |-> m]
               /\ raft' = raft \cup {r}
  BY <1>2 DEF ProposeTransfer
<1>4. cmd[p] \in CmdType /\ lai \in 0 .. MaxLAI /\ cmd[p].ts \in Nat
  BY Constants, SMT, Z3, SMTT(9) DEF LeaseInv, RangeTypeOK, LAI, CmdType
<1>5. PICK c \in CmdType : c = [cmd[p] EXCEPT !.lai = lai]
  BY <1>4 DEF CmdType
<1>6. cmd' = [cmd EXCEPT ![p] = c] /\ Like(cmd[p], c)
  BY <1>1, <1>4, <1>5 DEF ProposeTransfer, LeaseInv, RangeTypeOK, Like, CmdType
<1>7. PICK l : l = cmd[p].lease
  OBVIOUS
<1>8. /\ l \in LeaseType /\ l.seq \in Nat /\ l.seq <= tail.lease.seq
      /\ l.no <= minLease /\ l.start <= cmd[p].ts /\ cmd[p].ts <= now
      /\ \A i \in 0 .. Len(log) : L(i).seq = l.seq => L(i) = l
  BY <1>1, <1>7, LeaseOfCmd DEF LeaseInv, CmdInv, LetIn
<1>9. m \in LeaseType /\ m.start = cmd[p].ts /\ m.seq = l.seq + 1 /\ InRange(m)
  <2>1. l.seq + 1 \in Nat /\ leases \in Nat
    BY <1>8, Numbers, SMT, Z3, SMTT(9) DEF LeaseInv
  <2>2. /\ m.start = cmd[p].ts /\ m.seq = l.seq + 1 /\ m.holder = "n2" /\ m.epoch = 0
        /\ m.no = leases
    BY <1>2, <1>7
  <2>3. m \in LeaseType
    BY <1>2, <1>4, <1>7, <2>1 DEF LeaseType
  <2> QED
    BY <1>8, <2>1, <2>2, <2>3, SMT, Z3, SMTT(9) DEF InRange
<1>10. r \in RaftType /\ r.kind = "transfer" /\ r.seq = l.seq /\ r.lease = m
  BY <1>3, <1>4, <1>7, <1>8, <1>9 DEF RaftType
<1>11. \A i \in 0 .. Len(log) : Replaces(r, L(i))
  BY <1>8, <1>9, <1>10 DEF Replaces, Gone
<1>12. Proposed(r)'
  BY <1>1, <1>8, <1>9, <1>10, <1>11
     DEF Proposed, Replaces, Gone, InRange, tail, L, After, nodeVars
<1>13. BookOK' /\ minLease <= minLease' /\ leases <= leases'
  BY <1>1, <1>3, <1>4, <1>10, BookStays DEF BookOK
<1> QED
  BY <1>1, <1>3, <1>6, <1>12, <1>13, CmdStep

\* A lease request is proposed, by n1 or by n2.
LEMMA RequestStep ==
  ASSUME LeaseInv, RangeTypeOK', TimeInv', Advance, UNCHANGED <<log, pos, cmd>>,
         NEW r \in RaftType, raft' = raft \cup {r}, Proposed(r)'
  PROVE  LeaseInv'
<1>1. \A p \in Proposal : Like(cmd[p], cmd'[p])
  BY DEF Like
<1> QED
  BY <1>1, QuietStep, States, SMT, Z3, SMTT(9) DEF LeaseInv

LEMMA RequestLeaseLeases == ASSUME LeaseInv, RequestLease PROVE LeaseInv'
<1>1. /\ n1.lease.holder = "n1" /\ leases' = leases + 1 /\ pending' = "request"
      /\ n1.lease.epoch < known \/ n1.lease.no <= minLease
      /\ UNCHANGED <<now, nodeVars, log, pos, cmd, liBase, minLease, minProposedTS, lowWater>>
  BY DEF RequestLease
<1>2. PICK l : l = n1.lease
  OBVIOUS
<1>3. PICK m : m = [seq |-> l.seq + 1, holder |-> "n1", epoch |-> known,
                    start |-> Max2(l.start, minProposedTS), no |-> leases + 1]
  OBVIOUS
<1>4. PICK r : /\ r = [kind |-> "request", from |-> NoRange, seq |-> l.seq, lai |-> 0,
                       ts |-> 0, lease |-> m]
               /\ raft' = raft \cup {r}
  BY <1>2, <1>3 DEF RequestLease
<1>5. /\ l \in LeaseType /\ l.seq \in Nat /\ l.start \in Nat /\ InRange(l) /\ l = L(pos)
      /\ \A i \in 0 .. Len(log) : L(i).seq = l.seq => L(i) = l
      /\ l.seq <= tail.lease.seq
  <2>1. l = L(pos) /\ pos \in 0 .. Len(log) /\ tail.lease = L(Len(log))
        /\ Len(log) \in 0 .. Len(log) /\ pos <= Len(log)
        /\ \A i \in 0 .. Len(log) : i <= pos \/ pos <= i
    BY <1>2, States, SMT, Z3, SMTT(9) DEF LeaseInv
  <2> QED
    BY <2>1, States DEF LeaseInv, LogInv
<1>6. /\ m \in LeaseType /\ m.seq = l.seq + 1 /\ l.start <= m.start /\ m.start <= now
      /\ m.no = leases' /\ m.epoch = known /\ m.holder = "n1"
  <2>1. Max2(l.start, minProposedTS) \in Nat /\ l.start <= Max2(l.start, minProposedTS)
        /\ Max2(l.start, minProposedTS) <= now
    BY <1>5, Numbers, SMT, Z3, SMTT(9) DEF Max2, LeaseInv, TimeInv, InRange
  <2> QED
    BY <1>1, <1>3, <1>5, <2>1, Numbers, SMT, Z3, SMTT(9) DEF LeaseType, LeaseInv
<1>7. r \in RaftType /\ r.kind = "request" /\ r.seq = l.seq /\ r.lease = m
  BY <1>4, <1>5, <1>6, Constants, SMT, Z3, SMTT(9) DEF RaftType
<1>8. RangeTypeOK'
  BY <1>1, <1>4, <1>7, Numbers, SMT, Z3, SMTT(9) DEF LeaseInv, RangeTypeOK, nodeVars
<1>9. TimeInv' /\ Advance
  BY <1>1, <1>8, StillTime, Numbers, SMT, Z3, SMTT(9) DEF LeaseInv, TimeInv
<1>10. InRange(m)'
  BY <1>1, <1>6, <1>8, Numbers, SMT, Z3, SMTT(9) DEF InRange, LeaseInv, RangeTypeOK, TimeInv, nodeVars
<1>11. \A i \in 0 .. Len(log) : Replaces(r, L(i))
  BY <1>1, <1>2, <1>5, <1>6, <1>7 DEF Replaces, Gone
<1>12. Proposed(r)'
  BY <1>1, <1>5, <1>6, <1>7, <1>10, <1>11 DEF Proposed, Replaces, Gone, tail, L, After, nodeVars
<1> QED
  BY <1>1, <1>4, <1>7, <1>8, <1>9, <1>12, RequestStep

LEMMA RequestLeaseN2Leases ==
  ASSUME LeaseInv, NEW start \in TS, start <= now, RequestLeaseN2(start) PROVE LeaseInv'
<1>1. /\ tail.lease.holder = "n1" /\ tail.lease.start <= start /\ leases' = leases + 1
      /\ UNCHANGED <<now, known, booted, starting, pos, log, cmd, liBase, pending, minLease,
                     minProposedTS, lowWater>>
  BY DEF RequestLeaseN2
<1>2. PICK l : l = tail.lease
  OBVIOUS
<1>3. PICK m : m = [seq |-> l.seq + 1, holder |-> "n2", epoch |-> 0, start |-> start,
                    no |-> leases + 1]
  OBVIOUS
<1>4. PICK r : /\ r = [kind |-> "request", from |-> NoRange, seq |-> l.seq, lai |-> 0,
                       ts |-> 0, lease |-> m]
               /\ raft' = raft \cup {r}
  BY <1>2, <1>3 DEF RequestLeaseN2
<1>5. /\ l \in LeaseType /\ l.seq \in Nat /\ l.start \in Nat /\ l.epoch \in Nat /\ InRange(l)
      /\ \A i \in 0 .. Len(log) : L(i).seq = l.seq => L(i) = l
      /\ l.holder = "n1" /\ l.epoch \in Epoch /\ l.epoch <= live /\ l.start <= start
  <2>1. l = L(Len(log)) /\ Len(log) \in 0 .. Len(log) /\ \A i \in 0 .. Len(log) : i <= Len(log)
    BY <1>2, States, SMT, Z3, SMTT(9) DEF LeaseInv
  <2>2. InRange(l) /\ \A i \in 0 .. Len(log) : L(i).seq = l.seq => L(i) = l
    BY <2>1 DEF LeaseInv, LogInv
  <2> QED
    BY <1>1, <1>2, <2>1, <2>2, States DEF LeaseInv, InRange
<1>6. start \in Nat
  BY Constants, SMT, Z3, SMTT(9) DEF TS
<1>7. m \in LeaseType /\ m.seq = l.seq + 1 /\ m.start = start /\ m.no = leases' /\ m.holder = "n2"
  BY <1>1, <1>3, <1>5, <1>6, Numbers, SMT, Z3, SMTT(9) DEF LeaseType, LeaseInv
<1>8. r \in RaftType /\ r.kind = "request" /\ r.seq = l.seq /\ r.lease = m
  BY <1>4, <1>5, <1>7, Constants, SMT, Z3, SMTT(9) DEF RaftType
<1>9. \/ /\ l.epoch = live /\ live < MaxEpoch /\ exp[live] <= start
         /\ live' = live + 1 /\ exp' = [exp EXCEPT ![live + 1] = exp[live]]
      \/ l.epoch # live /\ start = now /\ UNCHANGED <<live, exp>>
  BY <1>2 DEF RequestLeaseN2, IncrementEpoch
<1>10. RangeTypeOK' /\ TimeInv' /\ Advance /\ Gone(l, start)'
  <2>1. CASE /\ l.epoch = live /\ live < MaxEpoch /\ exp[live] <= start
             /\ live' = live + 1 /\ exp' = [exp EXCEPT ![live + 1] = exp[live]]
    <3>1. live + 1 \in Epoch /\ exp[live] \in Nat /\ live \in Epoch /\ live \in Nat
      BY <2>1, Numbers, Constants, SMT, Z3, SMTT(9) DEF LeaseInv, Epoch, RangeTypeOK
    <3>2. RangeTypeOK'
      BY <1>1, <1>4, <1>8, <2>1, <3>1, Numbers, SMT, Z3, SMTT(9) DEF LeaseInv, RangeTypeOK
    <3>3. \A e \in Epoch : e # live + 1 => exp'[e] = exp[e]
      BY <2>1 DEF LeaseInv, RangeTypeOK
    <3>4. exp'[live] = exp[live] /\ exp[live] <= now
      BY <2>1, <3>1, <3>3, <1>6, Numbers, SMT, Z3, SMTT(9) DEF LeaseInv
    <3>5. TimeInv' /\ Advance
      BY <1>1, <2>1, <3>1, <3>3, <3>4, Numbers, SMT, Z3, SMTT(9) DEF LeaseInv, TimeInv, Advance
    <3> QED
      BY <2>1, <3>1, <3>2, <3>4, <3>5, SMT, Z3, SMTT(9) DEF Gone
  <2>2. CASE l.epoch # live /\ start = now /\ UNCHANGED <<live, exp>>
    <3>1. RangeTypeOK'
      <4>1. leases' \in Nat /\ raft' \subseteq RaftType
        <5>1. leases \in Nat /\ raft \subseteq RaftType
          BY DEF LeaseInv, RangeTypeOK
        <5>2. leases + 1 \in Nat
          BY <5>1, SMT, Z3, SMTT(9)
        <5> QED
          BY <1>1, <1>4, <1>8, <5>1, <5>2
      <4> QED
        BY <1>1, <2>2, <4>1 DEF LeaseInv, RangeTypeOK
    <3>2. TimeInv' /\ Advance
      <4>1. minLease \in Nat /\ leases \in Nat /\ minLease <= leases /\ minProposedTS <= now
        BY Numbers DEF LeaseInv, TimeInv
      <4>2. minLease <= minLease' /\ minLease' <= leases' /\ leases <= leases'
        BY <1>1, <4>1, Later
      <4> QED
        BY <1>1, <2>2, <3>1, <4>1, <4>2, StillTime DEF nodeVars
    <3>3. Gone(l, start)'
      BY <1>1, <1>5, <2>2, Numbers, SMT, Z3, SMTT(9) DEF LeaseInv, TimeInv, Gone
    <3> QED
      BY <3>1, <3>2, <3>3
  <2> QED
    BY <1>9, <2>1, <2>2
<1>11. InRange(m)'
  BY <1>1, <1>6, <1>7, <1>10, Numbers, SMT, Z3, SMTT(9) DEF InRange, LeaseInv
<1>12. \A i \in 0 .. Len(log) : Replaces(r, L(i))'
  <2> TAKE i \in 0 .. Len(log)
  <2>1. L(i)' = L(i)
    BY <1>1 DEF L, After
  <2> QED
    BY <1>5, <1>7, <1>8, <1>10, <2>1 DEF Replaces, Gone
<1>13. Proposed(r)'
  BY <1>1, <1>2, <1>5, <1>7, <1>8, <1>11, <1>12, SMT, Z3, SMTT(9) DEF Proposed, tail, After
<1> QED
  BY <1>1, <1>4, <1>8, <1>10, <1>13, RequestStep

LEMMA TailType ==
  ASSUME LeaseInv
  PROVE  /\ tail \in StateType /\ tail.lease \in LeaseType /\ tail.lease.seq \in Nat
         /\ tail.lai \in LAI /\ tail.lai \in Nat
<1>1. tail \in StateType
  BY States DEF LeaseInv
<1>2. tail.lease \in LeaseType /\ tail.lai \in LAI
  BY <1>1 DEF StateType
<1> QED
  BY <1>1, <1>2, Constants, SMT, Z3, SMTT(9) DEF LeaseType, LAI

\* An entry of the log, and what it leads to.
LEMMA LogEntryType ==
  ASSUME LeaseInv, NEW c \in RaftType, NEW ok \in BOOLEAN, NEW retry \in BOOLEAN,
         ok /\ c.kind # "request" => c.lai \in LAI
  PROVE  LET x == LogEntry(c, ok, retry) IN
         /\ x \in EntryType /\ x.cmd = c /\ x.ok = ok
         /\ x.after.lai = IF ok /\ c.kind # "request" THEN c.lai ELSE tail.lai
         /\ x.after.lease = IF ok /\ c.kind # "write" THEN c.lease ELSE tail.lease
<1> DEFINE lai == IF ok /\ c.kind # "request" THEN c.lai ELSE tail.lai
           lease == IF ok /\ c.kind # "write" THEN c.lease ELSE tail.lease
           after == [lai |-> lai, lease |-> lease]
<1>1. c.lease \in LeaseType
  BY DEF RaftType
<1>2. lai \in LAI /\ lease \in LeaseType
  BY <1>1, TailType
<1>3. after \in StateType /\ after.lai = lai /\ after.lease = lease
  BY <1>2 DEF StateType
<1>4. LogEntry(c, ok, retry) = [cmd |-> c, ok |-> ok, retry |-> retry, after |-> after]
  BY DEF LogEntry
<1> HIDE DEF lai, lease, after
<1>5. LogEntry(c, ok, retry) \in EntryType
  BY <1>3, <1>4, SMT, Z3, SMTT(9) DEF EntryType
<1>6. LogEntry(c, ok, retry).cmd = c /\ LogEntry(c, ok, retry).ok = ok
      /\ LogEntry(c, ok, retry).after = after
  BY <1>4, SMT, Z3, SMTT(9)
<1> QED
  BY <1>3, <1>5, <1>6 DEF lai, lease

LEMMA WriteN2Leases == ASSUME LeaseInv, NEW ts \in TS, WriteN2(ts) PROVE LeaseInv'
<1>1. /\ tail.lai < MaxLAI
      /\ UNCHANGED <<now, nodeVars, pos, raft, cmd, liBase, pending, minLease, minProposedTS,
                     leases, lowWater>>
  BY DEF WriteN2
<1>2. PICK r : /\ r = [kind |-> "write", from |-> NoRange, seq |-> tail.lease.seq,
                       lai |-> tail.lai + 1, ts |-> ts, lease |-> NoLease]
               /\ log' = Append(log, LogEntry(r, TRUE, FALSE))
  BY DEF WriteN2
<1>3. tail.lease.seq \in Nat /\ tail.lai + 1 \in LAI /\ tail.lai + 1 \in 0 .. MaxLAI /\ ts \in Nat
  BY <1>1, TailType, Constants, SMT, Z3, SMTT(9) DEF LAI, TS
<1>4. r \in RaftType /\ r.kind = "write" /\ r.lai = tail.lai + 1
  BY <1>2, <1>3, FirstStateType DEF RaftType
<1>5. PICK x \in EntryType : x = LogEntry(r, TRUE, FALSE) /\ x.after.lease = tail.lease
  BY <1>3, <1>4, LogEntryType
<1>6. log' = Append(log, x)
  BY <1>2, <1>5
<1>7. RangeTypeOK'
  BY <1>1, <1>6, Appended DEF LeaseInv, RangeTypeOK, nodeVars
<1>8. TimeInv' /\ Advance
  BY <1>1, <1>7, StillTime, Numbers, SMT, Z3, SMTT(9) DEF LeaseInv, TimeInv
<1> QED
  BY <1>1, <1>5, <1>6, <1>7, <1>8, AppendStep

LEMMA TransferN2Leases ==
  ASSUME LeaseInv, NEW start \in TS, NEW epoch \in Epoch, TransferN2(start, epoch)
  PROVE  LeaseInv'
<1>1. /\ tail.lease.holder = "n2" /\ tail.lease.start <= start /\ start <= now
      /\ epoch <= live /\ tail.lai < MaxLAI /\ leases' = leases + 1
      /\ UNCHANGED <<now, nodeVars, pos, raft, cmd, liBase, pending, minLease, minProposedTS,
                     lowWater>>
  BY DEF TransferN2
<1>2. PICK m : m = [seq |-> tail.lease.seq + 1, holder |-> "n1", epoch |-> epoch,
                    start |-> start, no |-> leases + 1]
  OBVIOUS
<1>3. PICK r : /\ r = [kind |-> "transfer", from |-> NoRange, seq |-> tail.lease.seq,
                       lai |-> tail.lai + 1, ts |-> 0, lease |-> m]
               /\ log' = Append(log, LogEntry(r, TRUE, FALSE))
  BY <1>2 DEF TransferN2
<1>4. /\ tail.lease \in LeaseType /\ tail.lease.seq \in Nat
      /\ tail.lai + 1 \in LAI /\ tail.lai + 1 \in 0 .. MaxLAI
      /\ start \in Nat /\ epoch \in Nat /\ leases \in Nat
  BY <1>1, TailType, Numbers, Constants, SMT, Z3, SMTT(9) DEF LeaseInv, LAI, TS
<1>5. /\ m \in LeaseType /\ m.seq = tail.lease.seq + 1 /\ m.start = start /\ m.epoch = epoch
      /\ m.no = leases' /\ m.holder = "n1"
  BY <1>1, <1>2, <1>4, SMT, Z3, SMTT(9) DEF LeaseType
<1>6. r \in RaftType /\ r.kind = "transfer" /\ r.lai = tail.lai + 1 /\ r.lease = m
  BY <1>3, <1>4, <1>5 DEF RaftType
<1>7. PICK x \in EntryType : x = LogEntry(r, TRUE, FALSE) /\ x.after.lease = m
  BY <1>4, <1>5, <1>6, LogEntryType
<1>8. log' = Append(log, x)
  BY <1>3, <1>7
<1>9. RangeTypeOK'
  <2>1. log' \in Seq(EntryType) /\ pos' \in 0 .. Len(log') /\ leases' \in Nat
    BY <1>1, <1>4, <1>8, Appended, States, SMT, Z3, SMTT(9) DEF LeaseInv
  <2> QED
    BY <1>1, <2>1 DEF LeaseInv, RangeTypeOK, nodeVars
<1>10. TimeInv' /\ Advance
  BY <1>1, <1>9, StillTime, Numbers, SMT, Z3, SMTT(9) DEF LeaseInv, TimeInv
<1>11. Succeeds(m, tail.lease) /\ InRange(m)'
  <2>1. Succeeds(m, tail.lease)
    BY <1>1, <1>5 DEF Succeeds, Gone
  <2>2. leases' \in Nat
    BY <1>9 DEF RangeTypeOK
  <2> QED
    BY <1>1, <1>5, <2>1, <2>2, Later DEF InRange, nodeVars
<1> QED
  BY <1>1, <1>7, <1>8, <1>9, <1>10, <1>11, AppendStep DEF InRange

LEMMA CommitLeases == ASSUME LeaseInv, NEW c \in raft, Commit(c) PROVE LeaseInv'
<1>1. /\ raft' = raft \ {c}
      /\ UNCHANGED <<now, nodeVars, pos, cmd, liBase, pending, minLease, minProposedTS, leases,
                     lowWater>>
  BY DEF Commit
<1>2. PICK err : /\ err = checkForcedErr(c, tail)
                 /\ log' = Append(log, LogEntry(c, ~err.mismatch /\ ~err.illegal,
                                                   ~err.mismatch /\ err.illegal))
  BY DEF Commit
<1>3. PICK ok \in BOOLEAN, retry \in BOOLEAN :
        /\ ok = (~err.mismatch /\ ~err.illegal) /\ retry = (~err.mismatch /\ err.illegal)
  OBVIOUS
<1>4. ok => c.seq = tail.lease.seq /\ (c.kind # "request" => c.lai > tail.lai)
  <2>1. ok => ~err.mismatch /\ ~err.illegal
    BY <1>3
  <2>2. c \in RaftType /\ c.lai \in Nat /\ tail.lai \in Nat
    BY TailType, Constants, SMT, Z3, SMTT(9) DEF LeaseInv, RangeTypeOK, RaftType
  <2>3. err.mismatch = (c.seq # tail.lease.seq)
        /\ err.illegal = (c.kind # "request" /\ c.lai <= tail.lai)
    BY <1>2 DEF checkForcedErr
  <2>4. ok => c.seq = tail.lease.seq /\ ~(c.kind # "request" /\ c.lai <= tail.lai)
    BY <2>1, <2>3, Zenon
  <2> QED
    BY <2>2, <2>4, SMT, Z3, SMTT(9)
<1>5. /\ tail.lease \in LeaseType /\ tail.lai \in LAI /\ tail.lai \in Nat
      /\ c \in RaftType /\ c.lease \in LeaseType /\ c.lai \in 0 .. MaxLAI
      /\ tail.lease = L(Len(log)) /\ Len(log) \in 0 .. Len(log)
  <2>1. c \in RaftType /\ RangeTypeOK
    BY DEF LeaseInv, RangeTypeOK
  <2>2. c.lease \in LeaseType /\ c.lai \in 0 .. MaxLAI
    BY <2>1 DEF RaftType
  <2>3. /\ tail.lease \in LeaseType /\ tail.lai \in LAI /\ tail.lai \in Nat
        /\ tail.lease = L(Len(log))
    BY <2>1, TailType, States, SMT, Z3, SMTT(9) DEF RangeTypeOK
  <2>4. Len(log) \in 0 .. Len(log)
    BY <2>1, States, SMT, Z3, SMTT(9) DEF RangeTypeOK
  <2> QED
    BY <2>1, <2>2, <2>3, <2>4
<1>6. ok /\ c.kind # "request" => c.lai \in LAI
  BY <1>4, <1>5, Constants, SMT, Z3, SMTT(9) DEF LAI
<1>7. PICK x \in EntryType :
        /\ x = LogEntry(c, ok, retry)
        /\ x.after.lease = IF ok /\ c.kind # "write" THEN c.lease ELSE tail.lease
  BY <1>5, <1>6, LogEntryType, SMT, Z3, SMTT(9)
<1>8. log' = Append(log, x)
  BY <1>2, <1>3, <1>7
<1>9. RangeTypeOK'
  BY <1>1, <1>8, Appended DEF LeaseInv, RangeTypeOK, nodeVars
<1>10. TimeInv' /\ Advance
  BY <1>1, <1>9, StillTime, Numbers, SMT, Z3, SMTT(9) DEF LeaseInv, TimeInv
<1>11. CASE ok /\ c.kind # "write"
  <2>1. x.after.lease = c.lease
    BY <1>7, <1>11
  <2>2. Proposed(c) /\ c.lease.seq = tail.lease.seq + 1 /\ InRange(c.lease)
        /\ Replaces(c, tail.lease)
    BY <1>4, <1>5, <1>11 DEF LeaseInv, RaftInv, Proposed
  <2>3. Succeeds(x.after.lease, tail.lease)
    BY <1>4, <1>11, <2>1, <2>2 DEF Succeeds, Replaces
  <2>4. InRange(x.after.lease)'
    BY <1>1, <2>1, <2>2 DEF InRange, nodeVars
  <2> QED
    BY <1>1, <1>8, <1>9, <1>10, <2>3, <2>4, AppendStep
<1>12. CASE ~(ok /\ c.kind # "write")
  BY <1>1, <1>7, <1>8, <1>9, <1>10, <1>12, AppendStep
<1> QED
  BY <1>11, <1>12

\* Application marks a command as done, or hands it to a caller that tries again.
LEMMA Reworked ==
  ASSUME NEW c \in CmdType
  PROVE  LET d == [c EXCEPT !.latched = FALSE]  a == [c EXCEPT !.lai = 0, !.again = TRUE] IN
         /\ d \in CmdType /\ Like(c, d) /\ d.lai = c.lai /\ d.again = c.again /\ d.ts = c.ts
         /\ a \in CmdType /\ Like(c, a) /\ a.lai = 0 /\ a.again /\ a.ts = c.ts
<1>1. [c EXCEPT !.latched = FALSE] \in CmdType
  BY DEF CmdType
<1>2. [c EXCEPT !.lai = 0, !.again = TRUE] \in CmdType
  <2>1. 0 \in 0 .. MaxLAI
    BY Constants, SMT, Z3, SMTT(9)
  <2>2. [c EXCEPT !.lai = 0] \in CmdType
    BY <2>1 DEF CmdType
  <2>3. \A d \in CmdType : [d EXCEPT !.again = TRUE] \in CmdType
    BY DEF CmdType
  <2> QED
    BY <2>2, <2>3
<1> QED
  BY <1>1, <1>2 DEF CmdType, Like

LEMMA ApplyLeases ==
  ASSUME LeaseInv, NEW q \in Proposal \cup {NoRange}, Apply(q) PROVE LeaseInv'
<1> DEFINE e == log[pos + 1]  p == e.cmd.from  local == p # NoRange /\ cmd[p].kind # "dead"
<1>1. /\ pos < Len(log) /\ pos' = pos + 1
      /\ UNCHANGED <<now, nodeVars, log, raft, liBase, minLease, minProposedTS, leases>>
      /\ lowWater' = leasePostApply(e) /\ pending' \in {"none", pending}
      /\ \/ UNCHANGED cmd
         \/ local /\ cmd' = [cmd EXCEPT ![p].latched = FALSE]
         \/ /\ local /\ q \in Proposal
            /\ cmd' = [cmd EXCEPT ![p].latched = FALSE,
                                  ![q] = [cmd[p] EXCEPT !.lai = 0, !.again = TRUE]]
  BY DEF Apply
<1>2. e \in EntryType /\ pos + 1 \in 1 .. Len(log)
  BY <1>1, States, SMT, Z3, SMTT(9) DEF LeaseInv, RangeTypeOK
<1>3. local => p \in Proposal
  BY <1>2 DEF EntryType, RaftType
<1>4. lowWater' \in Nat
  BY <1>1, <1>2, Numbers DEF leasePostApply, Max2, EntryType, StateType, LeaseType, LeaseInv
<1>5. /\ cmd' \in [Proposal -> CmdType]
      /\ \A r \in Proposal : \E s \in Proposal : Like(cmd[s], cmd'[r])
  <2>0. cmd \in [Proposal -> CmdType] /\ \A r \in Proposal : cmd[r] \in CmdType
    BY DEF LeaseInv, RangeTypeOK
  <2>1. CASE UNCHANGED cmd
    BY <2>0, <2>1 DEF Like
  <2>2. CASE local /\ cmd' = [cmd EXCEPT ![p].latched = FALSE]
    <3>1. PICK c \in CmdType : c = [cmd[p] EXCEPT !.latched = FALSE] /\ Like(cmd[p], c)
      BY <1>3, <2>0, <2>2, Reworked
    <3>2. cmd' = [cmd EXCEPT ![p] = c]
      BY <2>0, <2>2, <3>1
    <3> QED
      BY <1>3, <2>0, <2>2, <3>1, <3>2 DEF Like
  <2>3. CASE /\ local /\ q \in Proposal
             /\ cmd' = [cmd EXCEPT ![p].latched = FALSE,
                                   ![q] = [cmd[p] EXCEPT !.lai = 0, !.again = TRUE]]
    <3>1. PICK c \in CmdType : c = [cmd[p] EXCEPT !.latched = FALSE] /\ Like(cmd[p], c)
      BY <1>3, <2>0, <2>3, Reworked
    <3>2. PICK d \in CmdType : d = [cmd[p] EXCEPT !.lai = 0, !.again = TRUE] /\ Like(cmd[p], d)
      BY <1>3, <2>0, <2>3, Reworked
    <3>3. cmd' = [cmd EXCEPT ![p] = c, ![q] = d]
      BY <2>0, <2>3, <3>1, <3>2
    <3> QED
      BY <1>3, <2>0, <2>3, <3>1, <3>2, <3>3 DEF Like
  <2> QED
    BY <1>1, <2>1, <2>2, <2>3
<1>6. RangeTypeOK'
  <2>1. pos' \in 0 .. Len(log')
    BY <1>1, <1>2, States, SMT, Z3, SMTT(9) DEF LeaseInv
  <2>2. pending' \in {"none", "transfer", "request"}
    BY <1>1 DEF LeaseInv, RangeTypeOK
  <2> QED
    BY <1>1, <1>4, <1>5, <2>1, <2>2 DEF LeaseInv, RangeTypeOK, nodeVars
<1>7. TimeInv' /\ Advance
  BY <1>1, <1>6, StillTime, Numbers, SMT, Z3, SMTT(9) DEF LeaseInv, TimeInv
<1> QED
  BY <1>1, <1>5, <1>6, <1>7, QuietStep, States, SMT, Z3, SMTT(9) DEF LeaseInv

LEMMA InitLeases == RangeInit => LeaseInv
<1> SUFFICES ASSUME RangeInit PROVE LeaseInv
  OBVIOUS
<1>1. /\ now = Target /\ live = 1 /\ known = 1 /\ log = <<>> /\ pos = 0 /\ raft = {}
      /\ cmd = [p \in Proposal |-> NoCmd] /\ minLease = 0 /\ leases = 1 /\ minProposedTS = 0
      /\ exp = [e \in Epoch |-> IF e = 1 THEN Expiration ELSE 0] /\ booted = 0
      /\ starting = FALSE /\ liBase = 0 /\ pending = "none" /\ lowWater = 0
  BY DEF RangeInit
<1>2. Expiration \in Nat /\ Target \in TS /\ 1 \in Epoch
  BY <1>1, Constants, SMT, Z3, SMTT(9) DEF Expiration, TS, Epoch
<1>3. RangeTypeOK
  <2>1. log \in Seq(EntryType) /\ pos \in 0 .. Len(log)
    BY <1>1, SMT, Z3, SMTT(9)
  <2>2. exp \in [Epoch -> Nat] /\ cmd \in [Proposal -> CmdType] /\ now \in TS /\ live \in Epoch
        /\ known \in Epoch
    BY <1>1, <1>2, NoCmdType
  <2>3. booted \in Nat /\ liBase \in 0 .. MaxLAI /\ minLease \in Nat /\ minProposedTS \in Nat
        /\ leases \in Nat /\ lowWater \in Nat
    BY <1>1, Constants, SMT, Z3, SMTT(9)
  <2>4. starting \in BOOLEAN
    BY <1>1
  <2>5. raft \subseteq RaftType /\ pending \in {"none", "transfer", "request"}
    BY <1>1
  <2> QED
    BY <2>1, <2>2, <2>3, <2>4, <2>5 DEF RangeTypeOK
<1>4. TimeInv
  BY <1>1, <1>2, Constants, SMT, Z3, SMTT(9) DEF TimeInv, Epoch
<1>5. Len(log) = 0 /\ L(0) = NoLease /\ tail.lease = NoLease
  BY <1>1 DEF L, After, tail, NoLease
<1>6. InRange(NoLease) /\ NoLease.seq = 1 /\ NoLease.start = 0
  BY <1>1, <1>2, Constants, SMT, Z3, SMTT(9) DEF InRange, NoLease, FirstState
<1>7. LogInv /\ Replaced
  <2>1. \A i \in 0 .. Len(log) : i = 0
    BY <1>5, SMT, Z3, SMTT(9)
  <2> QED
    BY <1>5, <1>6, <2>1, SMT, Z3, SMTT(9) DEF LogInv, Replaced
<1>8. CmdInv /\ RaftInv
  BY <1>1 DEF CmdInv, RaftInv, LetIn, NoCmd
<1> QED
  BY <1>3, <1>4, <1>7, <1>8 DEF LeaseInv

LEMMA NextLeases == LeaseInv /\ [RangeNext]_allVars => LeaseInv'
<1> SUFFICES ASSUME LeaseInv, [RangeNext]_allVars PROVE LeaseInv'
  OBVIOUS
<1>1. CASE Tick \/ Heartbeat \/ FirstHeartbeat \/ Restart \/ Cancel \/ JoinTransfer
  BY <1>1, TickLeases, HeartbeatLeases, FirstHeartbeatLeases, RestartLeases, CancelLeases,
     JoinTransferLeases
<1>2. CASE RequestLease
  BY <1>2, RequestLeaseLeases
<1>3. ASSUME NEW t \in TS, NEW e \in Epoch, RunCloser(t, e) PROVE LeaseInv'
  BY <1>3, UnchangedLeases DEF RunCloser
<1>4. ASSUME NEW p \in Proposal,
             Admit(p) \/ AdminTransferLease(p) \/ EmitMLAI(p) \/ LatchAndTrack(p) \/ Fail(p)
      PROVE  LeaseInv'
  BY <1>4, AdmitLeases, AdminTransferLeaseLeases, EmitMLAILeases, LatchAndTrackLeases,
     FailLeases
<1>5. ASSUME NEW p \in Proposal, Untrack(p) PROVE LeaseInv'
  BY <1>5, UnchangedLeases DEF Untrack
<1>6. ASSUME NEW p \in Proposal, NEW ts \in TS, NEW lai \in LAI, ProposeWrite(p, ts, lai)
      PROVE  LeaseInv'
  BY <1>6, ProposeWriteLeases
<1>7. ASSUME NEW p \in Proposal, NEW lai \in LAI, ProposeTransfer(p, lai) PROVE LeaseInv'
  BY <1>7, ProposeTransferLeases
<1>8. ASSUME NEW start \in TS, start <= now, RequestLeaseN2(start) PROVE LeaseInv'
  BY <1>8, RequestLeaseN2Leases
<1>9. ASSUME NEW ts \in TS, WriteN2(ts) PROVE LeaseInv'
  BY <1>9, WriteN2Leases
<1>10. ASSUME NEW ts \in TS, NEW e \in Epoch, TransferN2(ts, e) PROVE LeaseInv'
  BY <1>10, TransferN2Leases
<1>11. ASSUME NEW c \in raft, Commit(c) PROVE LeaseInv'
  BY <1>11, CommitLeases
<1>12. ASSUME NEW q \in Proposal \cup {NoRange}, Apply(q) PROVE LeaseInv'
  BY <1>12, ApplyLeases
<1>13. CASE UNCHANGED allVars
  BY <1>13, UnchangedLeases DEF allVars
<1> QED
  BY <1>1, <1>2, <1>3, <1>4, <1>5, <1>6, <1>7, <1>8, <1>9, <1>10, <1>11, <1>12, <1>13
     DEF RangeNext

LEMMA LeasesAlways == RangeSpec => []LeaseInv
BY InitLeases, NextLeases, PTL DEF RangeSpec

\* A lease n1 may use at this time is not gone at any time up to it.
LEMMA UsableIsNotGone ==
  ASSUME LeaseInv, NEW l \in LeaseType, ValidLease(l), NEW s \in Nat, Gone(l, s), InRange(l)
  PROVE  now < s
<1>1. l.no > minLease /\ l.epoch = known /\ now < exp[l.epoch] /\ l.holder = "n1"
  BY DEF ValidLease
<1>2. l.no \in Nat /\ minLease \in Nat /\ known \in Nat /\ now \in Nat /\ l.epoch \in Epoch
      /\ exp[l.epoch] \in Nat
  BY <1>1, Numbers DEF LeaseInv, LeaseType, InRange
<1>3. exp[l.epoch] <= s
  BY <1>1, <1>2, SMT, Z3, SMTT(9) DEF Gone
<1> QED
  BY <1>1, <1>2, <1>3, SMT, Z3, SMTT(9)

\* n1 never uses its lease at a time that belongs to a later lease of n2: what
\* redirectOnOrAcquireLease lets through on n1 is over before the lease that
\* follows in the log starts, whatever n1 has applied, whatever it knows of its
\* liveness record, and whichever lease requests and transfers are in flight.
THEOREM LeasesAreDisjoint == RangeSpec => []LeaseDisjoint
<1>1. LeaseInv => LeaseDisjoint
  <2> SUFFICES ASSUME LeaseInv, ValidLease(n1.lease), NEW i \in pos .. Len(log),
                      After(i).lease.holder = "n2"
               PROVE  After(i).lease.start >= now
    BY DEF LeaseDisjoint
  <2>1. i \in 0 .. Len(log) /\ pos \in 0 .. Len(log) /\ pos <= i /\ n1.lease = L(pos)
    BY States, SMT, Z3, SMTT(9) DEF LeaseInv
  <2>2. L(pos) \in LeaseType /\ L(i).start \in Nat /\ L(i).seq \in Nat /\ L(pos).seq \in Nat
    BY <2>1, States DEF LeaseInv
  <2>3. L(i).holder = "n2" /\ L(pos).holder = "n1"
    BY <2>1 DEF L, ValidLease
  <2>4. L(pos).seq < L(i).seq
    BY <2>1, <2>2, <2>3, SMT, Z3, SMTT(9) DEF LeaseInv, LogInv
  <2>5. Gone(L(pos), L(i).start) /\ InRange(L(pos))
    BY <2>1, <2>4 DEF LeaseInv, Replaced, LogInv
  <2>6. now < L(i).start
    BY <2>1, <2>2, <2>5, UsableIsNotGone
  <2> QED
    BY <2>2, <2>6, Numbers, SMT, Z3, SMTT(9) DEF L, LeaseInv
<1> QED
  BY <1>1, LeasesAlways, PTL

-----------------------------------------------------------------------------
(***************************************************************************)
(* Follower reads.                                                         *)
(***************************************************************************)

\* Clocks and the closer.  What the closer is about to close lies in the past,
\* and within the time for which n1 is live under the epochs it may close with.
\* An epoch that is over had expired, or a process that has ended had it.
ClockInv ==
  /\ booted <= lowWater /\ expEpoch <= known
  /\ next = 1 \/ next + Target <= now
  /\ \A e \in Epoch :
       /\ e < live => exp[e] <= now \/ starting \/ e < expEpoch
       /\ exp[e] <= Expiration
       /\ e <= live => 1 < exp[e]
       /\ expEpoch <= e /\ e <= live => next < exp[e]
  /\ \A e, f \in Epoch : e <= f /\ f <= live => exp[e] <= exp[f]

\* What was closed.
EntryInv ==
  /\ \A e \in Epoch :
       /\ known < e => emitted[e].ts = 0
       /\ emitted[e].ts <= now
       /\ e <= live => emitted[e].ts < exp[e]
  /\ \A d \in entries :
       /\ d.epoch \in Epoch /\ d.epoch <= known /\ d.mlai \in 0 .. MaxLAI
       /\ d.ts \in Nat /\ d.ts <= emitted[d.epoch].ts

\* leasePostApply keeps the timestamp cache above the leases applied.
CacheInv == \A i \in 0 .. pos : L(i).holder = "n1" => L(i).start <= lowWater

\* The timestamps a command is not affected by: a write writes at its own, and
\* the writes that follow a transfer are above the start of the lease.
Limit(m) == IF m.kind = "write" THEN m.ts ELSE m.ts + 1

\* A command of n1's and its state in the tracker.
Sound(m, q) ==
  /\ m.ts <= MaxTS
  /\ m.kind = "none" => q.pc = "idle" /\ m.lai = 0 /\ ~m.again
  /\ m.kind = "dead" => q.pc = "failed"
  /\ q.pc = "released" => /\ m.kind # "none" /\ m.lai # 0
                          /\ q.lai = m.lai /\ q.range = rangeID
                          /\ q.epoch = m.lease.epoch /\ q.ts = Max2(m.ts, q.minProp)
  /\ m.kind \in {"write", "transfer"} /\ m.lai # 0 =>
       q.pc \in {"tracked", "released"} /\ q.minProp <= Limit(m)
  /\ m.kind = "transfer" => /\ booted <= m.ts /\ 1 <= m.ts
                            /\ q.pc = "tracked" /\ ~m.again => q.minProp <= m.ts + 1
  /\ m.kind = "write" /\ (m.lai # 0 \/ m.again) => m.lease.start < m.ts /\ booted < m.ts

PropInv == \A p \in Proposal : Sound(cmd[p], prop[p])

\* What an entry of the log does.
Step(k) ==
  LET c == log[k].cmd IN
  IF log[k].ok
  THEN /\ c.seq = L(k - 1).seq
       /\ c.kind # "request" => After(k - 1).lai < c.lai
       /\ L(k) = IF c.kind = "write" THEN L(k - 1) ELSE c.lease
       /\ c.kind = "write" => L(k).start < c.ts
  ELSE L(k) = L(k - 1)

\* From n1's lease at i on, n1 has kept the lease at growing epochs, or it did so
\* until an entry that gave the lease to n2.
Passed(i, k) ==
  /\ log[k].ok /\ log[k].cmd.kind # "write" /\ log[k].cmd.lease.holder = "n2"
  /\ L(k - 1).holder = "n1" /\ L(i).epoch <= L(k - 1).epoch

Follows(i, j) ==
  \/ L(j).holder = "n1" /\ L(i).epoch <= L(j).epoch
  \/ \E k \in i + 1 .. j : Passed(i, k)

StepInv ==
  /\ \A k \in 1 .. Len(log) : Step(k)
  /\ \A i, j \in 0 .. Len(log) : i <= j =>
       After(i).lai <= After(j).lai /\ (L(i).holder = "n1" => Follows(i, j))

Leases == {L(i) : i \in 0 .. Len(log)}
Commands == raft \cup {log[k].cmd : k \in 1 .. Len(log)}

\* The command c is what the caller in state m has proposed.
Is(c, m) ==
  /\ c.kind \in {"write", "transfer"} /\ m.kind = c.kind
  /\ m.lease.seq = c.seq /\ m.lai = c.lai /\ m.lai # 0
  /\ c.kind = "write" => m.ts = c.ts
  /\ c.kind = "transfer" => m.ts = c.lease.start /\ c.lease.holder = "n2"

\* Everything that c, or n2 under the lease of c, writes is at this time or later.
Bound(c) == IF c.kind = "write" THEN c.ts ELSE c.lease.start + 1

\* Under the epoch e or an earlier one nothing was closed that c undoes, unless
\* the follower is told to wait for c.
Cov(c, e) ==
  \A d \in entries : d.epoch <= e =>
    Bound(c) > d.ts \/ (d.epoch = e /\ c.kind # "request" /\ c.lai <= d.mlai)

\* c is a command that was proposed under n1's lease l.
Fits(c, l, b) ==
  /\ c.kind = "write" => l.start < c.ts
  /\ c.kind # "write" /\ c.lease.holder = "n1" => l.epoch <= c.lease.epoch
  /\ c.kind = "write" \/ c.lease.holder = "n2" =>
       /\ Cov(c, l.epoch)
       /\ c.from = NoRange =>
            /\ c.kind = "request" /\ l.epoch < live
            /\ exp[l.epoch] <= c.lease.start \/ starting \/ l.epoch < expEpoch
  /\ c.from # NoRange /\ cmd[c.from].kind = "dead" => l.epoch < b

\* The command is that of a caller on n1, unless that process has ended.
Author(c) == c.from # NoRange => cmd[c.from].kind = "dead" \/ Is(c, cmd[c.from])

CommandInv(b) ==
  /\ \A c \in Commands :
       /\ c.seq <= tail.lease.seq /\ Author(c)
       /\ \A l \in Leases : l.seq = c.seq /\ l.holder = "n1" => Fits(c, l, b)
  /\ \A c \in raft, l \in Leases : l.seq = c.seq => l.holder = "n1"

\* Whoever has released a command under the epoch e has left no side at an
\* earlier epoch with a timestamp the command is affected by.
Bumped(b) ==
  \A p \in Proposal : prop[p].pc = "released" =>
    LET e == prop[p].epoch  m == prop[p].minProp IN
    /\ closedEpoch >= e \/ closed < m
    /\ leftEpoch >= e \/ next < m
    /\ rightEpoch >= e
    /\ \A f \in Epoch : b <= f /\ f < e => emitted[f].ts < m

\* The tracker's promise concerns the epochs from b on.  A process that has not
\* written its first heartbeat has none; everything closed under epochs before b
\* was closed before the process started.
TrackerInv(b) ==
  /\ IInv(b) /\ Bumped(b)
  /\ starting => b = MaxEpoch + 1
  /\ ~starting => b <= expEpoch
  /\ \A d \in entries : b <= d.epoch \/ d.ts <= booted

ReadInv(b) ==
  /\ LeaseInv /\ ClockInv /\ EntryInv /\ CacheInv /\ PropInv /\ StepInv
  /\ CommandInv(b) /\ TrackerInv(b)

LEMMA TrackerNumbers ==
  ASSUME TypeOK
  PROVE  /\ closed \in Nat /\ next \in Nat /\ expEpoch \in Nat /\ expEpoch \in Epoch
         /\ closedEpoch \in Nat /\ leftEpoch \in Nat /\ rightEpoch \in Nat
         /\ \A e \in Epoch : emitted[e].ts \in Nat /\ emitted[e].mlai \in MLAI
         /\ \A p \in Proposal :
              /\ prop[p] \in PropState
              /\ prop[p].minProp \in Nat /\ prop[p].minProp <= MaxTS + 1
              /\ prop[p].ts \in Nat /\ prop[p].epoch \in Nat /\ prop[p].lai \in Nat
BY Constants, SMT, Z3, SMTT(9) DEF TypeOK, TS, Epoch, PropState

LEMMA RangeIDIn == rangeID \in RangeID
BY FollowerReadsConstants DEF rangeID

LEMMA ClockStays ==
  ASSUME RangeTypeOK, RangeTypeOK', ClockInv, UNCHANGED <<now, nodeVars, expEpoch, next>>,
         lowWater <= lowWater'
  PROVE  ClockInv'
<1>1. booted <= lowWater'
  BY Numbers, SMT, Z3, SMTT(9) DEF ClockInv, RangeTypeOK, nodeVars
<1> QED
  BY <1>1 DEF ClockInv, nodeVars, Expiration

LEMMA EntryStays ==
  ASSUME EntryInv, UNCHANGED <<now, nodeVars, emitted, entries>>
  PROVE  EntryInv'
BY DEF EntryInv, nodeVars

LEMMA CacheStays ==
  ASSUME CacheInv, UNCHANGED <<pos, lowWater>>, \A i \in 0 .. pos : L(i)' = L(i)
  PROVE  CacheInv'
BY DEF CacheInv

\* The state of a command of n1's changes, as p has it or in the tracker.
LEMMA PropStep ==
  ASSUME PropInv, UNCHANGED booted, NEW p \in Proposal,
         \A q \in Proposal \ {p} : cmd'[q] = cmd[q] /\ prop'[q] = prop[q],
         Sound(cmd[p], prop[p])'
  PROVE  PropInv'
<1> SUFFICES ASSUME NEW q \in Proposal PROVE Sound(cmd[q], prop[q])'
  BY DEF PropInv
<1>1. CASE q = p
  BY <1>1
<1>2. CASE q # p
  BY <1>2 DEF PropInv, Sound
<1> QED
  BY <1>1, <1>2

LEMMA PropStays ==
  ASSUME PropInv, UNCHANGED <<booted, cmd, prop>>
  PROVE  PropInv'
BY DEF PropInv, Sound

LEMMA StepsStay ==
  ASSUME StepInv, UNCHANGED log
  PROVE  StepInv' /\ Leases' = Leases /\ tail' = tail /\ \A i \in 0 .. Len(log) : L(i)' = L(i)
<1>1. \A i : After(i)' = After(i)
  BY DEF After
<1>2. \A i : L(i)' = L(i)
  BY <1>1 DEF L
<1>3. \A k \in 1 .. Len(log) : Step(k)'
  BY <1>1, <1>2 DEF Step, StepInv
<1>4. \A i, j : Follows(i, j)' <=> Follows(i, j)
  BY <1>2 DEF Follows, Passed
<1> QED
  BY <1>1, <1>2, <1>3, <1>4 DEF StepInv, Leases, tail

\* A lease is known by its sequence number.
LEMMA LeaseBySeq ==
  ASSUME LeaseInv, NEW l \in Leases, NEW m \in Leases
  PROVE  /\ l \in LeaseType /\ InRange(l) /\ (l.seq = m.seq => l = m)
         /\ l.seq <= tail.lease.seq /\ tail.lease \in Leases
<1>1. PICK i \in 0 .. Len(log) : l = L(i)
  BY DEF Leases
<1>2. PICK j \in 0 .. Len(log) : m = L(j)
  BY DEF Leases
<1>3. Len(log) \in Nat /\ Len(log) \in 0 .. Len(log) /\ i <= Len(log) /\ (i <= j \/ j <= i)
      /\ tail.lease = L(Len(log))
  BY States, SMT, Z3, SMTT(9) DEF LeaseInv
<1>4. tail.lease \in Leases
  BY <1>3 DEF Leases
<1> QED
  BY <1>1, <1>2, <1>3, <1>4, States DEF LeaseInv, LogInv

\* The lease under which a command of n1's was let in.
LEMMA LeaseLetIn ==
  ASSUME LeaseInv, NEW p \in Proposal, cmd[p].kind \in {"write", "transfer", "emit"}
  PROVE  /\ cmd[p].lease \in Leases /\ cmd[p].lease.holder = "n1"
         /\ cmd[p].lease \in LeaseType /\ InRange(cmd[p].lease)
         /\ cmd[p].lease.epoch \in Epoch
         /\ \E i \in 0 .. pos : cmd[p].lease = L(i)
<1>1. LetIn(cmd[p])
  BY DEF LeaseInv, CmdInv
<1>2. PICK i \in 0 .. pos : cmd[p].lease = L(i)
  BY <1>1 DEF LetIn
<1>3. i \in 0 .. Len(log)
  BY States, SMT, Z3, SMTT(9) DEF LeaseInv
<1>4. cmd[p].lease \in Leases /\ cmd[p].lease.holder = "n1"
  BY <1>1, <1>2, <1>3 DEF Leases, LetIn
<1> QED
  BY <1>2, <1>4, LeaseBySeq DEF InRange

\* A command that may have been proposed, and one that is still the same.
Settled(m) == m.kind = "dead" \/ (m.kind \in {"write", "transfer"} /\ m.lai # 0)
Same(m, n) == n.kind = m.kind /\ n.lease = m.lease /\ n.lai = m.lai /\ n.ts = m.ts

SettledStay == \A p \in Proposal : Settled(cmd[p]) => Same(cmd[p], cmd'[p])

\* Epochs that are over remain so.
Calm ==
  /\ live <= live'
  /\ \A e \in Epoch : e < live =>
       /\ exp'[e] = exp[e]
       /\ starting \/ e < expEpoch => starting' \/ e < expEpoch'

LEMMA AuthorStays ==
  ASSUME SettledStay, NEW c \in RaftType, Author(c)
  PROVE  /\ Author(c)'
         /\ c.from # NoRange /\ cmd'[c.from].kind = "dead" => cmd[c.from].kind = "dead"
<1>1. CASE c.from = NoRange
  BY <1>1 DEF Author
<1>2. CASE c.from # NoRange
  <2>1. c.from \in Proposal
    BY <1>2 DEF RaftType
  <2>2. Settled(cmd[c.from])
    BY <1>2 DEF Author, Is, Settled
  <2>3. Same(cmd[c.from], cmd'[c.from])
    BY <2>1, <2>2 DEF SettledStay
  <2> QED
    BY <1>2, <2>3 DEF Author, Is, Same
<1> QED
  BY <1>1, <1>2

LEMMA FitsStays ==
  ASSUME RangeTypeOK, RangeTypeOK', Calm, NEW c \in RaftType, NEW l \in LeaseType,
         InRange(l), l.holder = "n1", NEW b, NEW b2, Fits(c, l, b),
         c.kind = "write" \/ c.lease.holder = "n2" => Cov(c, l.epoch)',
         c.from # NoRange /\ cmd'[c.from].kind = "dead" => l.epoch < b2
  PROVE  Fits(c, l, b2)'
<1>1. l.epoch \in Epoch /\ l.epoch \in Nat /\ live \in Nat /\ live' \in Nat /\ live <= live'
  BY Numbers, Constants DEF InRange, Calm, RangeTypeOK, Epoch
<1>2. l.epoch < live => l.epoch < live' /\ exp'[l.epoch] = exp[l.epoch]
  BY <1>1, SMT, Z3, SMTT(9) DEF Calm
<1>3. l.epoch < live /\ (starting \/ l.epoch < expEpoch) => starting' \/ l.epoch < expEpoch'
  BY <1>1 DEF Calm
<1> QED
  BY <1>2, <1>3 DEF Fits

\* Nothing further was closed.
LEMMA CovStays ==
  ASSUME UNCHANGED entries, NEW c, NEW e, Cov(c, e)
  PROVE  Cov(c, e)'
BY DEF Cov, Bound

\* A command as it is proposed.
Enters(c, b) ==
  /\ c.seq <= tail.lease.seq /\ Author(c)
  /\ \A l \in Leases : l.seq = c.seq => l.holder = "n1" /\ Fits(c, l, b)

LEMMA CommandTypes ==
  ASSUME RangeTypeOK
  PROVE  \A c \in Commands : c \in RaftType /\ c.seq \in Nat
<1>1. log \in Seq(EntryType) /\ raft \subseteq RaftType
  BY Zenon DEF RangeTypeOK
<1>2. \A k \in 1 .. Len(log) : log[k] \in EntryType
  BY <1>1, SMT, Z3, SMTT(9)
<1>3. \A c \in Commands : c \in RaftType
  <2>1. \A k \in 1 .. Len(log) : log[k].cmd \in RaftType
    BY <1>2, SMT, Z3, SMTT(9) DEF EntryType
  <2> QED
    BY <1>1, <2>1, Zenon DEF Commands
<1>4. \A c \in RaftType : c.seq \in Nat
  BY SMT, Z3, SMTT(9) DEF RaftType
<1> QED
  BY <1>3, <1>4, Zenon

LEMMA CommandStep ==
  ASSUME LeaseInv, LeaseInv', StepInv, NEW b, NEW b2, CommandInv(b), UNCHANGED log, Calm, SettledStay,
         \A e \in Epoch : e <= live /\ e < b => e < b2,
         \/ UNCHANGED entries
         \/ \A c \in Commands, l \in Leases :
              l.seq = c.seq /\ l.holder = "n1" /\ (c.kind = "write" \/ c.lease.holder = "n2") =>
                Cov(c, l.epoch)',
         \A c \in raft' : c \in raft \/ Enters(c, b2)'
  PROVE  CommandInv(b2)'
<1>1. Leases' = Leases /\ tail' = tail
  BY StepsStay
<1>2. \A c \in Commands' : c \in Commands \/ (c \in raft' /\ Enters(c, b2)')
  BY DEF Commands
<1>3. \A c \in Commands : c \in RaftType
  BY CommandTypes DEF LeaseInv
<1>4. ASSUME NEW c \in Commands PROVE (c.seq <= tail.lease.seq)' /\ Author(c)'
  BY <1>1, <1>3, AuthorStays DEF CommandInv
<1>5. ASSUME NEW c \in Commands, NEW l \in Leases, l.seq = c.seq, l.holder = "n1"
      PROVE  Fits(c, l, b2)'
  <2>1. /\ c \in RaftType /\ l \in LeaseType /\ InRange(l) /\ Fits(c, l, b) /\ Author(c)
        /\ l.epoch \in Epoch /\ l.epoch <= live
    BY <1>3, <1>5, LeaseBySeq DEF CommandInv, InRange
  <2>2. c.kind = "write" \/ c.lease.holder = "n2" => Cov(c, l.epoch)'
    BY <1>5, <2>1, CovStays DEF Fits
  <2>3. c.from # NoRange /\ cmd'[c.from].kind = "dead" => l.epoch < b2
    BY <2>1, AuthorStays DEF Fits
  <2> QED
    BY <1>5, <2>1, <2>2, <2>3, FitsStays DEF LeaseInv
<1>6. ASSUME NEW c \in Commands'
      PROVE  /\ (c.seq <= tail.lease.seq)' /\ Author(c)'
             /\ \A l \in Leases' : l.seq = c.seq /\ l.holder = "n1" => Fits(c, l, b2)'
  <2>1. CASE c \in Commands
    BY <1>1, <1>4, <1>5, <2>1
  <2>2. CASE Enters(c, b2)'
    BY <2>2 DEF Enters
  <2> QED
    BY <1>2, <2>1, <2>2
<1>7. \A c \in raft', l \in Leases' : l.seq = c.seq => l.holder = "n1"
  BY <1>1 DEF CommandInv, Enters
<1> QED
  BY <1>6, <1>7 DEF CommandInv

\* An entry is added to the log: of a command in flight, or of one of n2's under
\* its own lease.
LEMMA AppendCommands ==
  ASSUME LeaseInv, NEW b, CommandInv(b), NEW x \in EntryType, log' = Append(log, x),
         UNCHANGED <<cmd, entries, live, exp, starting, expEpoch>>, raft' \subseteq raft,
         \/ x.cmd \in raft
         \/ x.cmd.from = NoRange /\ x.cmd.seq = tail.lease.seq /\ tail.lease.holder = "n2",
         x.after.lease = tail.lease \/ x.after.lease.seq = tail.lease.seq + 1
  PROVE  CommandInv(b)'
<1> DEFINE n == Len(log)  m == x.after.lease
<1>1. /\ n \in Nat /\ Len(log') = n + 1 /\ m \in LeaseType
      /\ \A i \in 0 .. n : L(i)' = L(i)
      /\ \A i : i = n + 1 => L(i)' = m
      /\ \A k \in 1 .. n : log'[k] = log[k]
      /\ log'[n + 1] = x
  BY States, Appended DEF LeaseInv, L, EntryType, StateType
<1>2. Leases' \subseteq Leases \cup {m} /\ tail'.lease = m
  <2>1. \A i \in 0 .. n + 1 : i \in 0 .. n \/ i = n + 1
    BY <1>1, SMT, Z3, SMTT(9)
  <2> QED
    BY <1>1, <2>1, SMT, Z3, SMTT(9) DEF Leases, tail, L
<1>3. Commands' \subseteq Commands \cup {x.cmd}
  <2>1. \A i \in 1 .. n + 1 : i \in 1 .. n \/ i = n + 1
    BY <1>1, SMT, Z3, SMTT(9)
  <2> QED
    BY <1>1, <2>1 DEF Commands
<1>4. /\ tail.lease \in Leases /\ tail.lease.seq \in Nat /\ m.seq \in Nat
      /\ tail.lease.seq <= m.seq
  <2>1. tail.lease \in Leases
    BY <1>1, States, SMT, Z3, SMTT(9) DEF Leases, LeaseInv
  <2>2. tail.lease.seq \in Nat /\ m.seq \in Nat
    BY <1>1, <2>1, LeaseBySeq DEF LeaseType
  <2> QED
    BY <2>1, <2>2, SMT, Z3, SMTT(9)
<1>5. \A c \in Commands : c.seq \in Nat
  BY CommandTypes DEF LeaseInv
<1>6. \A c \in Commands : c.seq <= tail.lease.seq /\ Author(c)
  BY DEF CommandInv
<1>7. \A c, l : (Author(c) => Author(c)') /\ (Fits(c, l, b) => Fits(c, l, b)')
  BY SMT, Z3, SMTT(9) DEF Author, Fits, Cov, Bound
\* A lease with the sequence number of an earlier command is an earlier lease.
<1>8. \A c \in Commands \cup {x.cmd}, l \in Leases' : l.seq = c.seq => l \in Leases
  <2>1. \A c \in Commands \cup {x.cmd} : c.seq \in Nat /\ c.seq <= tail.lease.seq
    BY <1>4, <1>5, <1>6, Order DEF Commands
  <2> QED
    BY <1>2, <1>4, <2>1, Order
<1>9. ASSUME NEW c \in Commands', c \in Commands
      PROVE  /\ (c.seq <= tail.lease.seq)' /\ Author(c)'
             /\ \A l \in Leases' : l.seq = c.seq /\ l.holder = "n1" => Fits(c, l, b)'
  <2>1. (c.seq <= tail.lease.seq)'
    <3>1. /\ c.seq \in Nat /\ tail.lease.seq \in Nat /\ m.seq \in Nat
          /\ c.seq <= tail.lease.seq /\ tail.lease.seq <= m.seq
      BY <1>4, <1>5, <1>6, <1>9
    <3>2. c.seq <= m.seq
      BY <3>1, SMT, Z3, SMTT(9)
    <3> QED
      BY <1>2, <3>2
  <2>2. Author(c)'
    BY <1>6, <1>7, <1>9
  <2>3. \A l \in Leases' : l.seq = c.seq /\ l.holder = "n1" => Fits(c, l, b)'
    BY <1>7, <1>8, <1>9 DEF CommandInv
  <2> QED
    BY <2>1, <2>2, <2>3
<1>10. ASSUME NEW c \in Commands', c \notin Commands
      PROVE  /\ (c.seq <= tail.lease.seq)' /\ Author(c)'
             /\ \A l \in Leases' : l.seq = c.seq /\ l.holder = "n1" => Fits(c, l, b)'
  <2>1. c = x.cmd /\ c.from = NoRange /\ c.seq = tail.lease.seq /\ tail.lease.holder = "n2"
    BY <1>3, <1>10 DEF Commands
  <2>2. \A l \in Leases' : l.seq = c.seq => l = tail.lease
    BY <1>4, <1>8, <2>1, LeaseBySeq
  <2> QED
    BY <1>2, <1>4, <2>1, <2>2 DEF Author
<1>11. \A c \in raft', l \in Leases' : l.seq = c.seq => l.holder = "n1"
  BY <1>8 DEF CommandInv, Commands
<1> QED
  BY <1>9, <1>10, <1>11 DEF CommandInv

\* What an entry does that is added to the log.
Does(x) ==
  LET c == x.cmd  t == tail.lease IN
  /\ x.ok => /\ c.seq = t.seq
             /\ c.kind # "request" => tail.lai < c.lai
             /\ x.after.lease = IF c.kind = "write" THEN t ELSE c.lease
             /\ c.kind = "write" => t.start < c.ts
             /\ c.kind # "write" => \/ c.lease.holder = "n2"
                                    \/ t.holder = "n2"
                                    \/ t.epoch <= c.lease.epoch
  /\ ~x.ok => x.after.lease = t
  /\ tail.lai <= x.after.lai

LEMMA AppendSteps ==
  ASSUME LeaseInv, StepInv, NEW x \in EntryType, log' = Append(log, x), Does(x)
  PROVE  StepInv'
<1> DEFINE n == Len(log)  m == x.after.lease  t == tail.lease
<1>1. /\ n \in Nat /\ Len(log') = n + 1 /\ m \in LeaseType /\ t \in LeaseType
      /\ \A i \in 0 .. n : After(i)' = After(i) /\ L(i)' = L(i) /\ L(i) \in LeaseType
      /\ \A i : i = n + 1 => After(i)' = x.after /\ L(i)' = m
      /\ \A k \in 1 .. n : log'[k] = log[k]
      /\ log'[n + 1] = x
      /\ t = L(n) /\ tail = After(n)
  BY States, Appended DEF LeaseInv, L, EntryType, StateType, tail
<1>2. \A i \in 0 .. n + 1 : i \in 0 .. n \/ i = n + 1
  BY <1>1, SMT, Z3, SMTT(9)
<1>3. /\ \A i \in 0 .. n : After(i).lai \in Nat /\ L(i).epoch \in Nat
      /\ x.after.lai \in Nat /\ m.epoch \in Nat
  <2>1. \A i \in 0 .. n : After(i).lai \in Nat /\ L(i).epoch \in Nat
    <3>1. \A i \in 0 .. n : After(i) \in StateType /\ L(i).epoch \in Nat
      BY States, Zenon DEF LeaseInv
    <3>2. \A y \in StateType : y.lai \in Nat
      BY Constants, SMT, Z3, SMTT(9) DEF StateType, LAI
    <3> QED
      BY <3>1, <3>2, Zenon
  <2> QED
    BY <1>1, <2>1, SMT, Z3, SMTT(9) DEF EntryType, StateType, LAI, LeaseType
<1>4. ASSUME NEW k \in 1 .. n + 1 PROVE Step(k)'
  <2>1. CASE k \in 1 .. n
    <3>1. k \in 0 .. n /\ k - 1 \in 0 .. n
      BY <1>1, <2>1, SMT, Z3, SMTT(9)
    <3>2. Step(k)
      BY <2>1 DEF StepInv
    <3> QED
      BY <1>1, <2>1, <3>1, <3>2 DEF Step
  <2>2. CASE k = n + 1
    <3>1. k - 1 = n /\ n \in 0 .. n
      BY <1>1, <2>2, SMT, Z3, SMTT(9)
    <3>2. After(k - 1)' = tail /\ L(k - 1)' = t /\ L(k)' = m /\ log'[k] = x
      BY <1>1, <2>2, <3>1
    <3> QED
      BY <3>2 DEF Step, Does
  <2> QED
    BY <1>1, <2>1, <2>2, SMT, Z3, SMTT(9)
<1>5. ASSUME NEW i \in 0 .. n, NEW j \in 0 .. n, i <= j, L(i).holder = "n1" PROVE Follows(i, j)'
  <2>1. Follows(i, j)
    BY <1>5 DEF StepInv
  <2>2. \A k \in i + 1 .. j : Passed(i, k) => Passed(i, k)'
    <3>1. \A k \in i + 1 .. j : k \in 1 .. n /\ k - 1 \in 0 .. n
      BY <1>1, SMT, Z3, SMTT(9)
    <3> QED
      BY <1>1, <3>1 DEF Passed
  <2> QED
    BY <1>1, <2>1, <2>2 DEF Follows
<1>6. ASSUME NEW i \in 0 .. n, NEW j, j = n + 1, L(i).holder = "n1" PROVE Follows(i, j)'
  <2> PICK q \in 0 .. n : q = n
    BY <1>1, SMT, Z3, SMTT(9)
  <2>1. /\ Follows(i, q)' /\ L(i)' = L(i) /\ L(q)' = t /\ L(j)' = m /\ log'[j] = x
        /\ j - 1 = q /\ j \in i + 1 .. j
    <3>1. i <= q /\ j - 1 = q /\ j \in i + 1 .. j
      BY <1>1, <1>6, SMT, Z3, SMTT(9)
    <3>2. Follows(i, q)'
      BY <1>5, <1>6, <3>1, Zenon
    <3> QED
      BY <1>1, <1>6, <3>1, <3>2, Zenon
  <2>2. CASE \E k \in i + 1 .. q : Passed(i, k)'
    <3>1. \A k \in i + 1 .. q : k \in i + 1 .. j
      BY <1>1, <1>6, SMT, Z3, SMTT(9)
    <3> QED
      BY <2>2, <3>1 DEF Follows
  <2>3. CASE t.holder = "n1" /\ L(i).epoch <= t.epoch
    <3>1. CASE m = t
      BY <2>1, <2>3, <3>1 DEF Follows
    <3>2. CASE x.ok /\ x.cmd.kind # "write" /\ x.cmd.lease.holder = "n2"
      <4>1. Passed(i, j)'
        BY <2>1, <2>3, <3>2, Zenon DEF Passed
      <4> QED
        BY <2>1, <4>1, Zenon DEF Follows
    <3>3. CASE x.ok /\ x.cmd.kind # "write" /\ x.cmd.lease.holder = "n1"
      <4>1. m = x.cmd.lease /\ t.epoch <= m.epoch
        BY <2>3, <3>3 DEF Does
      <4>2. L(i).epoch <= m.epoch
        BY <1>1, <1>3, <2>3, <4>1, SMT, Z3, SMTT(9)
      <4> QED
        BY <2>1, <3>3, <4>1, <4>2 DEF Follows
    <3> QED
      BY <3>1, <3>2, <3>3 DEF Does, EntryType, RaftType, LeaseType
  <2> QED
    BY <2>1, <2>2, <2>3, Zenon DEF Follows
<1>7. ASSUME NEW i \in 0 .. n + 1, NEW j \in 0 .. n + 1, i <= j
      PROVE  (After(i).lai <= After(j).lai /\ (L(i).holder = "n1" => Follows(i, j)))'
  <2>1. CASE j \in 0 .. n
    <3>1. i \in 0 .. n
      BY <1>1, <1>7, <2>1, SMT, Z3, SMTT(9)
    <3> QED
      BY <1>1, <1>5, <1>7, <2>1, <3>1 DEF StepInv
  <2>2. CASE i \in 0 .. n /\ j = n + 1
    <3>1. After(i).lai <= After(n).lai /\ n \in 0 .. n
      BY <1>1, <2>2, SMT, Z3, SMTT(9) DEF StepInv
    <3>2. After(n).lai <= x.after.lai
      BY <1>1 DEF Does
    <3> QED
      BY <1>1, <1>3, <1>6, <2>2, <3>1, <3>2, SMT, Z3, SMTT(9)
  <2>3. CASE i = n + 1 /\ j = n + 1
    BY <1>1, <1>3, <2>3, SMT, Z3, SMTT(9) DEF Follows
  <2> QED
    BY <1>2, <1>7, <2>1, <2>2, <2>3
<1> QED
  BY <1>1, <1>4, <1>7 DEF StepInv

=============================================================================
